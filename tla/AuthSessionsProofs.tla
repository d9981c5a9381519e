-------------------------- MODULE AuthSessionsProofs --------------------------
(***************************************************************************)
(* Proofs about AuthSessions for any number of operations in flight, any   *)
(* session limit, timeout and lifetime, and any bounds.                    *)
(*                                                                         *)
(* What makes the answers true is that the token an operation has minted   *)
(* is its own: no table, no answer and no other operation knows it before  *)
(* its transaction has committed, and once it has, the token presented is  *)
(* this operation's spending and nobody else's.  That no refresh moves the *)
(* last activity back rests on the order of things: a client can present a *)
(* token only after it has got it, and reads the clock then.               *)
(***************************************************************************)
EXTENDS AuthSessions, FiniteSetTheorems, TLAPS

InFlight(r) == requests[r] \in Request
Mints(q) == q.operation \in {"login", "refresh"}
Spent(q) == q.operation = "refresh" /\ q.stage = "unsure" /\ tokens[q.fresh] # NoId

\* Every token belongs to a session, and one of each session's is not consumed.
StoreOK ==
    /\ \A s \in Issued : tokens[s] = s
    /\ \A t \in Ids : tokens[t] # NoId => tokens[t] \in Issued
    /\ \A t \in consumed : tokens[t] # NoId
    /\ \A s \in Issued : {t \in Ids : tokens[t] = s} \ consumed = {sessions[s].token}
    /\ \A t \in Ids : t > minted => tokens[t] = NoId

ActivityOK == \A s \in Issued : sessions[s].activeAt <= clock

\* What an operation in flight may rely on.
RequestOK(q) ==
    /\ q.at <= clock
    /\ Mints(q) => /\ q.fresh # NoId /\ q.fresh <= minted
                   /\ \A a \in answers : a.fresh # q.fresh
                   /\ q.stage = "running" => tokens[q.fresh] = NoId
    /\ q.operation = "login" => q.given = NoId
    /\ q.operation = "refresh" =>
          /\ q.given # NoId /\ tokens[q.given] # NoId
          /\ sessions[tokens[q.given]].token = q.given
                => sessions[tokens[q.given]].activeAt <= q.at
    /\ Spent(q) =>
          /\ q.given \in consumed /\ tokens[q.fresh] = tokens[q.given]
          /\ \A a \in answers : a.given # q.given

RequestsOK == \A r \in Requests : InFlight(r) => RequestOK(requests[r])

PairsOK ==
    \A r1, r2 \in Requests :
        LET q1 == requests[r1]
            q2 == requests[r2]
        IN  InFlight(r1) /\ InFlight(r2) /\ r1 # r2 =>
                /\ Mints(q1) /\ Mints(q2) => q1.fresh # q2.fresh
                /\ Spent(q1) /\ Spent(q2) => q1.given # q2.given

AnswersOK ==
    /\ \A a \in answers :
          /\ tokens[a.fresh] # NoId
          /\ a.given # NoId => tokens[a.fresh] = tokens[a.given] /\ a.given \in consumed
    /\ \A a, b \in answers : a.given # NoId /\ a.given = b.given => a = b

IInv ==
    /\ SessionTypeOK
    /\ StoreOK /\ ActivityOK /\ RequestsOK /\ PairsOK /\ AnswersOK
    /\ UnlapsedWithinLimit

-----------------------------------------------------------------------------
(* Types.                                                                  *)

LEMMA Constants ==
    /\ MaxConcurrent \in Nat /\ MaxConcurrent > 0
    /\ InactivityTimeout \in Nat /\ AbsoluteLifetime \in Nat
    /\ MaxTime \in Nat /\ MaxIds \in Nat
    /\ Ids \subseteq Nat /\ Time \subseteq Nat /\ NoId \notin Ids
    /\ IsFiniteSet(Ids)
  <1>1. IsFiniteSet(1..MaxIds)
    BY SessionAssumption, FS_Interval
  <1> QED
    BY <1>1, SessionAssumption DEF Ids, Time, NoId

LEMMA InSession ==
    ASSUME NEW x \in Session
    PROVE  /\ x.issuedAt \in Time /\ x.activeAt \in Time /\ x.token \in Ids
           /\ x.revoked \in {"no", "limit", "logout"} /\ x.revokedAt \in Time
           /\ x # NoSession
  BY Constants DEF Session, NoSession

LEMMA SessionRows ==
    ASSUME SessionTypeOK
    PROVE  /\ \A s \in Issued : s \in Ids /\ sessions[s] \in Session
           /\ \A s \in Ids \ Issued : sessions[s] = NoSession
  BY DEF SessionTypeOK, Issued

LEMMA InRequest ==
    ASSUME NEW q \in Request
    PROVE  /\ q.operation \in {"login", "refresh", "logout", "logout all"} /\ q.at \in Time
           /\ q.given \in Ids \cup {NoId} /\ q.fresh \in Ids \cup {NoId}
           /\ q.stage \in {"running", "unsure"} /\ q \notin {Idle, Served}
  <1>1. /\ q.operation \in {"login", "refresh", "logout", "logout all"} /\ q.at \in Time
        /\ q.given \in Ids \cup {NoId} /\ q.fresh \in Ids \cup {NoId}
        /\ q.stage \in {"running", "unsure"}
    BY DEF Request
  <1>2. Idle.stage = "idle" /\ Served.stage = "served"
    BY DEF Idle, Served
  <1> QED
    BY <1>1, <1>2

LEMMA RequestTypes ==
    ASSUME SessionTypeOK, NEW r \in Requests
    PROVE  /\ requests[r] \notin {Idle, Served} => InFlight(r)
           /\ requests[r].stage \in {"running", "unsure"} => InFlight(r)
  BY DEF SessionTypeOK, InFlight, Idle, Served

LEMMA Numbers ==
    ASSUME SessionTypeOK, NEW q \in Request
    PROVE  clock \in Nat /\ minted \in Nat /\ q.at \in Nat /\ q.fresh \in Nat
  <1>1. clock \in Nat /\ minted \in Nat
    BY Constants DEF SessionTypeOK
  <1>2. q.at \in Time /\ q.fresh \in Ids \cup {NoId}
    BY InRequest
  <1>3. NoId \in Nat
    BY DEF NoId
  <1> QED
    BY <1>1, <1>2, <1>3, Constants

(* The rows that transactions write.                                       *)
LEMMA NewSessionIs ==
    ASSUME NEW id \in Ids, NEW now \in Time
    PROVE  LET x == NewSession(id, now)
           IN  /\ x \in Session /\ x.activeAt = now /\ x.token = id /\ x.revoked = "no"
               /\ x # NoSession
  <1>1. 0 \in Time
    BY SessionAssumption DEF Time
  <1>2. NewSession(id, now) \in Session
    BY <1>1 DEF NewSession, Session
  <1> QED
    BY <1>2, InSession DEF NewSession

LEMMA RevokedIs ==
    ASSUME NEW x \in Session, NEW reason \in {"limit", "logout"}, NEW now \in Time
    PROVE  LET y == Revoked(x, reason, now)
           IN  /\ y \in Session /\ y.activeAt = x.activeAt /\ y.token = x.token
               /\ y.revoked = reason /\ y # NoSession
  <1>1. Revoked(x, reason, now) \in Session
    BY DEF Revoked, Session
  <1> QED
    BY <1>1, InSession DEF Revoked, Session

LEMMA RotatedIs ==
    ASSUME NEW x \in Session, NEW fresh \in Ids, NEW now \in Time
    PROVE  LET y == Rotated(x, fresh, now)
           IN  /\ y \in Session /\ y.activeAt = now /\ y.token = fresh
               /\ y.revoked = x.revoked /\ y # NoSession
  <1>1. Rotated(x, fresh, now) \in Session
    BY DEF Rotated, Session
  <1> QED
    BY <1>1, InSession DEF Rotated, Session

-----------------------------------------------------------------------------
(* Transactions.                                                           *)

\* One session of the store in a step.
Forward(s) ==
    /\ sessions[s].revoked # "no" => sessions'[s] = sessions[s]
    /\ s \in Issued => sessions'[s].activeAt >= sessions[s].activeAt

\* What the commit of a request does to the store, and leaves to the others.
Effect(q) ==
    /\ sessions' \in [Ids -> Session \cup {NoSession}] /\ tokens' \in [Ids -> Ids \cup {NoId}]
    /\ consumed' \in SUBSET Ids /\ lapsed' \in SUBSET Ids
    /\ StoreOK' /\ ActivityOK' /\ UnlapsedWithinLimit'
    /\ \A s \in Ids : Forward(s)
    /\ \A t \in Ids : tokens[t] # NoId => tokens'[t] = tokens[t]
    /\ \A t \in Ids : tokens'[t] # tokens[t] => Mints(q) /\ t = q.fresh
    /\ consumed \subseteq consumed'
    /\ \A s \in Issued :
          \/ sessions'[s].token = sessions[s].token /\ sessions'[s].activeAt = sessions[s].activeAt
          \/ Mints(q) /\ sessions'[s].token = q.fresh
    /\ Mints(q) => tokens'[q.fresh] # NoId
    /\ q.operation = "refresh" =>
          q.given \notin consumed /\ q.given \in consumed' /\ tokens'[q.fresh] = tokens[q.given]

(* Fewer sessions that count.                                              *)
LEMMA LimitKept ==
    ASSUME IInv,
           \A s \in Ids : s \in Issued' /\ s \notin lapsed' /\ sessions'[s].revoked = "no" =>
               s \in Issued /\ s \notin lapsed /\ sessions[s].revoked = "no"
    PROVE  UnlapsedWithinLimit'
  <1> DEFINE counted == {s \in Issued \ lapsed : sessions[s].revoked = "no"}
             countedThen == {s \in Issued' \ lapsed' : sessions'[s].revoked = "no"}
  <1>1. countedThen \subseteq counted /\ counted \subseteq Ids
    BY DEF Issued
  <1>2. IsFiniteSet(counted)
    BY <1>1, Constants, FS_Subset
  <1>3. Cardinality(countedThen) <= Cardinality(counted)
    BY <1>1, <1>2, FS_Subset
  <1>4. IsFiniteSet(countedThen)
    BY <1>1, <1>2, FS_Subset
  <1>5. Cardinality(counted) \in Nat /\ Cardinality(countedThen) \in Nat
    BY <1>2, <1>4, FS_CardinalityType
  <1>6. Cardinality(counted) <= MaxConcurrent
    BY DEF IInv, UnlapsedWithinLimit
  <1>7. Cardinality(countedThen) <= MaxConcurrent
    <2> HIDE DEF counted, countedThen
    <2> QED
      BY <1>3, <1>5, <1>6, Constants
  <1> QED
    BY <1>7 DEF UnlapsedWithinLimit

(* Evicting leaves room for one.                                           *)
LEMMA RoomForOne ==
    ASSUME NEW live \in SUBSET Ids, NEW evicted \in Oldest(live, Excess(live))
    PROVE  /\ evicted \subseteq live
           /\ Cardinality(live \ evicted) + 1 <= MaxConcurrent
           /\ Cardinality(live \ evicted) \in Nat
  <1>1. evicted \subseteq live /\ Cardinality(evicted) = Excess(live)
    BY DEF Oldest
  <1>2. IsFiniteSet(live) /\ IsFiniteSet(evicted) /\ IsFiniteSet(live \ evicted)
    BY <1>1, Constants, FS_Subset
  <1>3. Cardinality(live) \in Nat /\ Cardinality(evicted) \in Nat
    BY <1>2, FS_CardinalityType
  <1>4. Cardinality(live \ evicted) = Cardinality(live) - Cardinality(evicted)
    <2>1. live \cap evicted = evicted
      BY <1>1
    <2> QED
      BY <1>2, <2>1, FS_Difference
  <1>5. Cardinality(live \ evicted) \in Nat
    BY <1>2, FS_CardinalityType
  <1>6. Cardinality(evicted) = IF Cardinality(live) + 1 > MaxConcurrent
                               THEN Cardinality(live) + 1 - MaxConcurrent ELSE 0
    BY <1>1 DEF Excess
  <1>7. Cardinality(live \ evicted) + 1 <= MaxConcurrent
    BY <1>3, <1>4, <1>5, <1>6, Constants
  <1> QED
    BY <1>1, <1>5, <1>7

LEMMA IssueEffect ==
    ASSUME IInv, NEW r \in Requests, InFlight(r), requests[r].stage = "running",
           Issue(r), UNCHANGED <<clock, minted>>
    PROVE  Effect(requests[r])
  <1> DEFINE q == requests[r]
             f == q.fresh
             live == {s \in Ids : Live(sessions[s], q.at)}
  <1>1. SessionTypeOK /\ StoreOK /\ ActivityOK
    BY DEF IInv
  <1>2. q \in Request /\ RequestOK(q) /\ q.operation = "login" /\ Mints(q) /\ q.at \in Time
    BY InRequest DEF IInv, RequestsOK, InFlight, Issue, Mints
  <1>3. f \in Ids /\ f <= minted /\ tokens[f] = NoId
    BY <1>2, InRequest DEF RequestOK
  <1>4. f \notin Issued /\ f \notin consumed /\ sessions[f] = NoSession
    BY <1>1, <1>3, Constants DEF StoreOK, Issued
  <1>5. PICK evicted \in Oldest(live, Excess(live)) :
           sessions' = [s \in Ids |-> CASE s = f -> NewSession(s, q.at)
                                        [] s \in evicted -> Revoked(sessions[s], "limit", q.at)
                                        [] OTHER -> sessions[s]]
    BY DEF Issue
  <1>6. /\ tokens' = [tokens EXCEPT ![f] = f]
        /\ lapsed' = lapsed \cup {s \in Issued : sessions[s].revoked = "no" /\ s \notin live}
        /\ consumed' = consumed
    BY DEF Issue
  <1>7. /\ evicted \subseteq live
        /\ Cardinality(live \ evicted) + 1 <= MaxConcurrent
        /\ Cardinality(live \ evicted) \in Nat
    BY RoomForOne
  <1>8. \A s \in live : s \in Issued /\ sessions[s] \in Session /\ sessions[s].revoked = "no"
    BY <1>1, SessionRows DEF Live, Issued
  <1> HIDE DEF q, f, live
  <1>9. f \notin evicted
    BY <1>4, <1>7, <1>8
  <1>10. /\ sessions'[f] = NewSession(f, q.at)
         /\ \A s \in evicted : sessions'[s] = Revoked(sessions[s], "limit", q.at)
         /\ \A s \in Ids : s # f /\ s \notin evicted => sessions'[s] = sessions[s]
    BY <1>3, <1>5, <1>7, <1>8, <1>9 DEF Issued
  <1>11. /\ sessions'[f] \in Session /\ sessions'[f].activeAt = q.at /\ sessions'[f].token = f
         /\ sessions'[f].revoked = "no"
    BY <1>2, <1>3, <1>10, NewSessionIs
  <1>12. \A s \in evicted :
            /\ sessions'[s] \in Session /\ sessions'[s].activeAt = sessions[s].activeAt
            /\ sessions'[s].token = sessions[s].token /\ sessions'[s].revoked = "limit"
    BY <1>2, <1>7, <1>8, <1>10, RevokedIs
  <1>13. \A s \in Issued :
            /\ sessions'[s] \in Session /\ sessions'[s].activeAt = sessions[s].activeAt
            /\ sessions'[s].token = sessions[s].token /\ s # f
    BY <1>1, <1>4, <1>10, <1>12, SessionRows
  <1>14. Issued' = Issued \cup {f}
    <2>1. \A s \in Ids : s \notin Issued /\ s # f => sessions'[s] = NoSession
      BY <1>1, <1>7, <1>8, <1>10, SessionRows
    <2>2. \A s \in Issued \cup {f} : s \in Ids /\ sessions'[s] # NoSession
      BY <1>1, <1>3, <1>11, <1>13, InSession, SessionRows
    <2> QED
      BY <2>1, <2>2 DEF Issued
  <1>15. /\ tokens'[f] = f /\ \A t \in Ids \ {f} : tokens'[t] = tokens[t]
         /\ tokens' \in [Ids -> Ids \cup {NoId}]
    BY <1>1, <1>3, <1>6 DEF SessionTypeOK
  <1>16. StoreOK'
    <2>1. \A s \in Issued' : tokens'[s] = s
      BY <1>1, <1>13, <1>14, <1>15, SessionRows DEF StoreOK
    <2>2. \A t \in Ids : tokens'[t] # NoId => tokens'[t] \in Issued'
      BY <1>1, <1>14, <1>15 DEF StoreOK
    <2>3. \A t \in consumed' : tokens'[t] # NoId
      BY <1>1, <1>3, <1>4, <1>6, <1>15 DEF StoreOK, SessionTypeOK
    <2>4. ASSUME NEW s \in Issued'
          PROVE  {t \in Ids : tokens'[t] = s} \ consumed' = {sessions'[s].token}
      <3>1. CASE s = f
        <4>1. \A t \in Ids : tokens[t] # f
          BY <1>1, <1>3, <1>4, Constants DEF StoreOK
        <4>2. {t \in Ids : tokens'[t] = f} = {f}
          BY <1>3, <1>15, <4>1
        <4> QED
          BY <1>4, <1>6, <1>11, <3>1, <4>2
      <3>2. CASE s \in Issued
        <4>1. {t \in Ids : tokens'[t] = s} = {t \in Ids : tokens[t] = s}
          BY <1>3, <1>13, <1>15, <3>2, Constants DEF Issued
        <4> QED
          BY <1>1, <1>6, <1>13, <3>2, <4>1 DEF StoreOK
      <3> QED
        BY <1>14, <2>4, <3>1, <3>2
    <2>5. \A t \in Ids : t > minted' => tokens'[t] = NoId
      <3>1. f \in Nat /\ minted \in Nat
        BY <1>1, <1>3, Constants DEF SessionTypeOK
      <3> QED
        BY <1>1, <1>3, <1>15, <3>1 DEF StoreOK
    <2> QED
      BY <2>1, <2>2, <2>3, <2>4, <2>5 DEF StoreOK
  <1>17. ActivityOK'
    <2>1. q.at <= clock
      BY <1>2 DEF RequestOK
    <2> QED
      BY <1>1, <1>11, <1>13, <1>14, <2>1 DEF ActivityOK
  <1>18. UnlapsedWithinLimit'
    <2> DEFINE countedThen == {s \in Issued' \ lapsed' : sessions'[s].revoked = "no"}
    <2>1. countedThen \subseteq (live \ evicted) \cup {f}
      <3> SUFFICES ASSUME NEW s \in countedThen, s # f PROVE s \in live \ evicted
        OBVIOUS
      <3>1. s \in Issued /\ s \notin evicted
        BY <1>12, <1>14
      <3>2. sessions'[s] = sessions[s]
        BY <1>10, <3>1 DEF Issued
      <3> QED
        BY <1>6, <3>1, <3>2
    <2>2. IsFiniteSet(live \ evicted)
      <3>1. live \subseteq Ids
        BY <1>8 DEF Issued
      <3> QED
        BY <3>1, Constants, FS_Subset
    <2>3. /\ IsFiniteSet((live \ evicted) \cup {f})
          /\ Cardinality((live \ evicted) \cup {f}) <= Cardinality(live \ evicted) + 1
      <3>1. PICK rest : rest = live \ evicted
        OBVIOUS
      <3>2. /\ IsFiniteSet(rest \cup {f})
            /\ \/ Cardinality(rest \cup {f}) = Cardinality(rest)
               \/ Cardinality(rest \cup {f}) = Cardinality(rest) + 1
        BY <2>2, <3>1, FS_AddElement
      <3> QED
        BY <1>7, <3>1, <3>2
    <2>4. /\ IsFiniteSet(countedThen)
          /\ Cardinality(countedThen) <= Cardinality((live \ evicted) \cup {f})
      BY <2>1, <2>3, FS_Subset
    <2>5. Cardinality(countedThen) \in Nat /\ Cardinality((live \ evicted) \cup {f}) \in Nat
      BY <2>3, <2>4, FS_CardinalityType
    <2>6. Cardinality(countedThen) <= MaxConcurrent
      <3> HIDE DEF countedThen
      <3> QED
        BY <1>7, <2>3, <2>4, <2>5, Constants
    <2> QED
      BY <2>6 DEF UnlapsedWithinLimit
  <1>19. \A s \in Ids : Forward(s)
    <2> SUFFICES ASSUME NEW s \in Ids PROVE Forward(s)
      OBVIOUS
    <2>1. sessions[s].revoked # "no" => sessions'[s] = sessions[s]
      <3>1. sessions[f].revoked = "no"
        BY <1>4 DEF NoSession
      <3> QED
        BY <1>7, <1>8, <1>10, <3>1
    <2>2. s \in Issued => sessions'[s].activeAt >= sessions[s].activeAt
      <3>1. s \in Issued => sessions[s].activeAt \in Nat
        BY <1>1, SessionRows, InSession, Constants
      <3> QED
        BY <1>13, <3>1
    <2> QED
      BY <2>1, <2>2 DEF Forward
  <1>20. sessions' \in [Ids -> Session \cup {NoSession}] /\ lapsed' \in SUBSET Ids
    <2>1. \A s \in Ids : sessions'[s] \in Session \cup {NoSession}
      BY <1>1, <1>10, <1>11, <1>12 DEF SessionTypeOK
    <2>2. lapsed' \subseteq Ids
      BY <1>1, <1>6 DEF SessionTypeOK, Issued
    <2> QED
      BY <1>5, <2>1, <2>2
  <1> QED
    BY <1>1, <1>2, <1>3, <1>6, <1>13, <1>15, <1>16, <1>17, <1>18, <1>19, <1>20, Constants
       DEF Effect, q, f, SessionTypeOK

LEMMA RotateEffect ==
    ASSUME IInv, NEW r \in Requests, InFlight(r), requests[r].stage = "running",
           Rotate(r), UNCHANGED <<clock, minted>>
    PROVE  Effect(requests[r])
  <1> DEFINE q == requests[r]
             f == q.fresh
             g == q.given
             s == tokens[g]
  <1>1. SessionTypeOK /\ StoreOK /\ ActivityOK
    BY DEF IInv
  <1>2. q \in Request /\ RequestOK(q) /\ q.operation = "refresh" /\ Mints(q) /\ q.at \in Time
    BY InRequest DEF IInv, RequestsOK, InFlight, Rotate, Mints
  <1>3. /\ consumed' = consumed \cup {g} /\ lapsed' = lapsed
        /\ sessions' = [sessions EXCEPT ![s] = Rotated(sessions[s], f, q.at)]
        /\ tokens' = [tokens EXCEPT ![f] = s]
    BY DEF Rotate, Claimed
  <1>4. g \notin consumed /\ Live(sessions[s], q.at) /\ sessions[s].token = g
    BY DEF Rotate, Redeemable
  <1>5. f \in Ids /\ f <= minted /\ tokens[f] = NoId
    BY <1>2, InRequest DEF RequestOK
  <1>6. g \in Ids /\ s # NoId /\ s \in Issued /\ sessions[s].activeAt <= q.at
    BY <1>1, <1>2, <1>4, InRequest DEF RequestOK, StoreOK
  <1> HIDE DEF q, f, g
  <1>7. s \in Ids /\ sessions[s] \in Session /\ sessions[s].revoked = "no"
    BY <1>1, <1>4, <1>6, SessionRows DEF Live
  <1>8. f \notin Issued /\ f \notin consumed /\ f # g /\ f # s
    BY <1>1, <1>5, <1>6, Constants DEF StoreOK
  <1>9. /\ \A u \in Ids \ {s} : sessions'[u] = sessions[u]
        /\ sessions'[s] = Rotated(sessions[s], f, q.at)
    BY <1>1, <1>3, <1>7 DEF SessionTypeOK
  <1>10. /\ sessions'[s] \in Session /\ sessions'[s].activeAt = q.at
         /\ sessions'[s].token = f /\ sessions'[s].revoked = "no" /\ sessions'[s] # NoSession
    BY <1>2, <1>5, <1>7, <1>9, RotatedIs
  <1>11. /\ tokens'[f] = s /\ \A t \in Ids \ {f} : tokens'[t] = tokens[t]
         /\ tokens' \in [Ids -> Ids \cup {NoId}]
    BY <1>1, <1>3, <1>5, <1>7 DEF SessionTypeOK
  <1>12. sessions' \in [Ids -> Session \cup {NoSession}]
    BY <1>1, <1>3, <1>9, <1>10 DEF SessionTypeOK
  <1> HIDE DEF s
  <1>13. Issued' = Issued
    BY <1>6, <1>9, <1>10 DEF Issued
  <1>14. StoreOK'
    <2>1. \A u \in Issued' : tokens'[u] = u
      BY <1>1, <1>8, <1>11, <1>13 DEF StoreOK, Issued
    <2>2. \A t \in Ids : tokens'[t] # NoId => tokens'[t] \in Issued'
      BY <1>1, <1>6, <1>11, <1>13 DEF StoreOK
    <2>3. \A t \in consumed' : tokens'[t] # NoId
      <3>1. tokens[g] # NoId
        BY <1>6 DEF s
      <3> QED
        BY <1>1, <1>3, <1>6, <1>8, <1>11, <3>1 DEF StoreOK, SessionTypeOK
    <2>4. ASSUME NEW u \in Issued'
          PROVE  {t \in Ids : tokens'[t] = u} \ consumed' = {sessions'[u].token}
      <3>1. {t \in Ids : tokens[t] = u} \ consumed = {sessions[u].token} /\ u \in Ids
        BY <1>1, <1>13, <2>4 DEF StoreOK, Issued
      <3>2. CASE u = s
        <4>1. {t \in Ids : tokens'[t] = s} = {t \in Ids : tokens[t] = s} \cup {f}
          BY <1>5, <1>11
        <4>2. {t \in Ids : tokens[t] = s} \ consumed = {g}
          BY <1>4, <3>1, <3>2
        <4> QED
          BY <1>3, <1>8, <1>10, <3>2, <4>1, <4>2
      <3>3. CASE u # s
        <4>1. {t \in Ids : tokens'[t] = u} = {t \in Ids : tokens[t] = u}
          BY <1>5, <1>7, <1>11, <3>1, <3>3, Constants
        <4>2. g \notin {t \in Ids : tokens[t] = u}
          BY <3>3 DEF s
        <4> QED
          BY <1>3, <1>9, <3>1, <3>3, <4>1, <4>2
      <3> QED
        BY <3>2, <3>3
    <2>5. \A t \in Ids : t > minted' => tokens'[t] = NoId
      <3>1. f \in Nat /\ minted \in Nat
        BY <1>1, <1>5, Constants DEF SessionTypeOK
      <3> QED
        BY <1>1, <1>5, <1>11, <3>1, Constants DEF StoreOK
    <2> QED
      BY <2>1, <2>2, <2>3, <2>4, <2>5 DEF StoreOK
  <1>15. ActivityOK'
    <2>1. q.at <= clock
      BY <1>2 DEF RequestOK
    <2> QED
      BY <1>1, <1>9, <1>10, <1>13, <2>1 DEF ActivityOK, Issued
  <1>16. UnlapsedWithinLimit'
    BY <1>3, <1>6, <1>7, <1>9, <1>13, LimitKept
  <1>17. \A u \in Ids : Forward(u)
    <2> SUFFICES ASSUME NEW u \in Ids PROVE Forward(u)
      OBVIOUS
    <2>1. sessions[u].revoked # "no" => sessions'[u] = sessions[u]
      BY <1>7, <1>9
    <2>2. u \in Issued => sessions'[u].activeAt >= sessions[u].activeAt
      <3>1. u \in Issued => sessions[u].activeAt \in Nat
        BY <1>1, SessionRows, InSession, Constants
      <3>2. q.at \in Nat
        BY <1>2, Constants
      <3>3. u \in Issued => sessions[u].activeAt >= sessions[u].activeAt
        BY <3>1
      <3>4. u = s => sessions'[u].activeAt >= sessions[u].activeAt
        BY <1>6, <1>10, <3>1, <3>2
      <3> QED
        BY <1>9, <3>3, <3>4
    <2> QED
      BY <2>1, <2>2 DEF Forward
  <1>18. tokens'[f] = tokens[g] /\ tokens'[f] # NoId
    BY <1>6, <1>11 DEF s
  <1>19. consumed' \in SUBSET Ids /\ lapsed' \in SUBSET Ids
    BY <1>1, <1>3, <1>6 DEF SessionTypeOK
  <1>20. \A u \in Issued :
            \/ sessions'[u].token = sessions[u].token
               /\ sessions'[u].activeAt = sessions[u].activeAt
            \/ Mints(q) /\ sessions'[u].token = f
    BY <1>2, <1>9, <1>10 DEF Issued
  <1> QED
    BY <1>2, <1>3, <1>4, <1>5, <1>11, <1>12, <1>14, <1>15, <1>16, <1>17, <1>18, <1>19, <1>20
       DEF Effect, q, f, g

LEMMA RevokeEffect ==
    ASSUME IInv, NEW r \in Requests, InFlight(r), requests[r].stage = "running",
           Revoke(r), UNCHANGED <<clock, minted>>
    PROVE  Effect(requests[r])
  <1> DEFINE q == requests[r]
  <1>1. SessionTypeOK /\ StoreOK /\ ActivityOK
    BY DEF IInv
  <1>2. q \in Request /\ q.operation \in {"logout", "logout all"} /\ ~Mints(q) /\ q.at \in Time
    BY InRequest DEF InFlight, Revoke, Mints
  <1>3. tokens' = tokens /\ consumed' = consumed /\ lapsed' = lapsed
    BY DEF Revoke
  <1>4. sessions' = [s \in Ids |-> IF s \in Targets(r) THEN Revoked(sessions[s], "logout", q.at)
                                                      ELSE sessions[s]]
    BY DEF Revoke
  <1>5. \A s \in Targets(r) \cap Ids :
            s \in Issued /\ sessions[s] \in Session /\ sessions[s].revoked = "no"
    BY <1>1, SessionRows DEF Targets, Live, Issued
  <1> HIDE DEF q
  <1>6. \A s \in Ids \ Targets(r) : sessions'[s] = sessions[s]
    BY <1>4
  <1>7. \A s \in Targets(r) \cap Ids :
            /\ sessions'[s] \in Session /\ sessions'[s].activeAt = sessions[s].activeAt
            /\ sessions'[s].token = sessions[s].token /\ sessions'[s].revoked = "logout"
            /\ sessions'[s] # NoSession
    <2> SUFFICES ASSUME NEW s \in Targets(r) \cap Ids
                 PROVE  /\ sessions'[s] \in Session
                        /\ sessions'[s].activeAt = sessions[s].activeAt
                        /\ sessions'[s].token = sessions[s].token
                        /\ sessions'[s].revoked = "logout"
                        /\ sessions'[s] # NoSession
      OBVIOUS
    <2>1. sessions'[s] = Revoked(sessions[s], "logout", q.at)
      BY <1>4
    <2>2. PICK x \in Session : x = sessions[s]
      BY <1>5
    <2>3. q.at \in Time
      BY <1>2
    <2> QED
      BY <2>1, <2>2, <2>3, RevokedIs
  <1>8. Issued' = Issued
    BY <1>5, <1>6, <1>7 DEF Issued
  <1>9. \A s \in Ids : /\ sessions'[s].activeAt = sessions[s].activeAt
                       /\ sessions'[s].token = sessions[s].token
    BY <1>6, <1>7
  <1>10. sessions' \in [Ids -> Session \cup {NoSession}]
    <2>1. \A s \in Ids : sessions'[s] \in Session \cup {NoSession}
      BY <1>1, <1>6, <1>7 DEF SessionTypeOK
    <2> QED
      BY <1>4, <2>1
  <1>11. StoreOK'
    BY <1>1, <1>3, <1>8, <1>9 DEF StoreOK, Issued
  <1>12. ActivityOK'
    BY <1>1, <1>8, <1>9 DEF ActivityOK, Issued
  <1>13. UnlapsedWithinLimit'
    BY <1>3, <1>6, <1>7, <1>8, LimitKept
  <1>14. \A s \in Ids : Forward(s)
    <2> SUFFICES ASSUME NEW s \in Ids PROVE Forward(s)
      OBVIOUS
    <2>1. sessions[s].revoked # "no" => sessions'[s] = sessions[s]
      BY <1>5, <1>6
    <2>2. s \in Issued => sessions'[s].activeAt >= sessions[s].activeAt
      <3>1. s \in Issued => sessions[s].activeAt \in Nat
        BY <1>1, SessionRows, InSession, Constants
      <3> QED
        BY <1>9, <3>1
    <2> QED
      BY <2>1, <2>2 DEF Forward
  <1> QED
    BY <1>1, <1>2, <1>3, <1>9, <1>10, <1>11, <1>12, <1>13, <1>14
       DEF Effect, q, SessionTypeOK, Issued, Mints

LEMMA TransactionEffect ==
    ASSUME IInv, NEW r \in Requests, requests[r].stage = "running",
           Transaction(r), UNCHANGED <<clock, minted>>
    PROVE  InFlight(r) /\ Effect(requests[r])
  <1>1. InFlight(r)
    BY RequestTypes DEF IInv
  <1> QED
    BY <1>1, IssueEffect, RotateEffect, RevokeEffect DEF Transaction

-----------------------------------------------------------------------------
(* The operations that a step does not concern.                            *)

Others(r) == {p \in Request : \E o \in Requests \ {r} : p = requests[o]}

\* A request before a step of another one.
LEMMA OtherOK ==
    ASSUME IInv, NEW r \in Requests, NEW p \in Others(r)
    PROVE  /\ RequestOK(p)
           /\ InFlight(r) /\ Mints(p) /\ Mints(requests[r]) => p.fresh # requests[r].fresh
           /\ InFlight(r) /\ Spent(p) /\ Spent(requests[r]) => p.given # requests[r].given
  <1>1. PICK o \in Requests \ {r} : p = requests[o]
    BY DEF Others
  <1>2. InFlight(o)
    BY <1>1 DEF InFlight, Others
  <1> QED
    BY <1>1, <1>2 DEF IInv, RequestsOK, PairsOK

\* A step changes one request to v, and every request is still right.
LEMMA Assembled ==
    ASSUME IInv, NEW r \in Requests, NEW CONSTANT v,
           requests' = [requests EXCEPT ![r] = v],
           \A p \in Others(r) : RequestOK(p)' /\ (Spent(p)' => Spent(p)),
           v \in Request => RequestOK(v)',
           v \in Request => \A p \in Others(r) :
               /\ Mints(p) /\ Mints(v) => p.fresh # v.fresh
               /\ Spent(p)' /\ Spent(v)' => p.given # v.given
    PROVE  RequestsOK' /\ PairsOK'
  <1>1. /\ \A o \in Requests \ {r} : requests'[o] = requests[o]
        /\ requests'[r] = v
    BY DEF IInv, SessionTypeOK
  <1>2. \A o \in Requests \ {r} : requests'[o] \in Request => requests'[o] \in Others(r)
    BY <1>1 DEF Others
  <1>3. RequestsOK'
    <2> SUFFICES ASSUME NEW o \in Requests, requests'[o] \in Request
                 PROVE  RequestOK(requests[o])'
      BY DEF RequestsOK, InFlight
    <2>1. PICK p : p = requests'[o]
      OBVIOUS
    <2>2. RequestOK(p)'
      BY <1>1, <1>2, <2>1
    <2> QED
      BY <2>1, <2>2 DEF RequestOK, Mints, Spent
  <1>4. PairsOK'
    <2> SUFFICES ASSUME NEW a \in Requests, NEW b \in Requests, a # b,
                        requests'[a] \in Request, requests'[b] \in Request
                 PROVE  /\ Mints(requests'[a]) /\ Mints(requests'[b])
                              => requests'[a].fresh # requests'[b].fresh
                        /\ Spent(requests[a])' /\ Spent(requests[b])'
                              => requests'[a].given # requests'[b].given
      BY DEF PairsOK, InFlight, Mints
    <2>1. PICK p \in Request, q \in Request : p = requests'[a] /\ q = requests'[b]
      OBVIOUS
    <2>2. /\ Mints(p) /\ Mints(q) => p.fresh # q.fresh
          /\ Spent(p)' /\ Spent(q)' => p.given # q.given
      <3>1. CASE a = r
        BY <1>1, <1>2, <2>1, <3>1
      <3>2. CASE b = r
        BY <1>1, <1>2, <2>1, <3>2
      <3>3. CASE a # r /\ b # r
        <4>1. p = requests[a] /\ q = requests[b] /\ p \in Others(r) /\ q \in Others(r)
          BY <1>1, <1>2, <2>1, <3>3
        <4>2. InFlight(a) /\ InFlight(b)
          BY <4>1 DEF InFlight
        <4>3. /\ Mints(p) /\ Mints(q) => p.fresh # q.fresh
              /\ Spent(p) /\ Spent(q) => p.given # q.given
          BY <4>1, <4>2 DEF IInv, PairsOK
        <4> QED
          BY <4>1, <4>3
      <3> QED
        BY <3>1, <3>2, <3>3
    <2>3. (Spent(p)' <=> Spent(requests[a])') /\ (Spent(q)' <=> Spent(requests[b])')
      BY <2>1 DEF Spent
    <2> QED
      BY <2>1, <2>2, <2>3
  <1> QED
    BY <1>3, <1>4

\* While the store and the answers stay as they are.
LEMMA QuietOthers ==
    ASSUME IInv, NEW r \in Requests, UNCHANGED <<storeVars, answers>>,
           clock' = clock \/ clock' = clock + 1, minted' = minted \/ minted' = minted + 1
    PROVE  \A p \in Others(r) : RequestOK(p)' /\ (Spent(p)' <=> Spent(p))
  <1> SUFFICES ASSUME NEW p \in Others(r)
               PROVE  RequestOK(p)' /\ (Spent(p)' <=> Spent(p))
    OBVIOUS
  <1>1. RequestOK(p) /\ p \in Request
    BY OtherOK DEF Others
  <1>2. Spent(p)' <=> Spent(p)
    BY DEF Spent, storeVars
  <1>3. /\ tokens' = tokens /\ sessions' = sessions /\ consumed' = consumed
        /\ answers' = answers
    BY DEF storeVars
  <1>4. p.at <= clock'
    <2>1. p.at \in Nat /\ clock \in Nat /\ p.at <= clock
      BY <1>1, Numbers DEF RequestOK, IInv
    <2> QED
      BY <2>1
  <1>5. Mints(p) => p.fresh <= minted'
    <2>1. p.fresh \in Nat /\ minted \in Nat
      BY <1>1, Numbers DEF IInv
    <2> QED
      BY <1>1, <2>1 DEF RequestOK
  <1>6. RequestOK(p)'
    BY <1>1, <1>2, <1>3, <1>4, <1>5 DEF RequestOK, Mints
  <1> QED
    BY <1>2, <1>6

LEMMA QuietStore ==
    ASSUME IInv, UNCHANGED <<storeVars, answers>>,
           clock' = clock \/ clock' = clock + 1, minted' = minted \/ minted' = minted + 1
    PROVE  StoreOK' /\ ActivityOK' /\ AnswersOK' /\ UnlapsedWithinLimit'
  <1>1. SessionTypeOK /\ StoreOK /\ ActivityOK /\ AnswersOK /\ UnlapsedWithinLimit
    BY DEF IInv
  <1>2. /\ tokens' = tokens /\ sessions' = sessions /\ consumed' = consumed
        /\ answers' = answers /\ lapsed' = lapsed
    BY DEF storeVars
  <1>3. Issued' = Issued
    BY <1>2 DEF Issued
  <1>4. StoreOK'
    <2>1. \A t \in Ids : t > minted' => t > minted
      BY <1>1, Constants DEF SessionTypeOK
    <2> QED
      BY <1>1, <1>2, <1>3, <2>1 DEF StoreOK
  <1>5. ActivityOK'
    <2>1. \A s \in Issued : sessions[s].activeAt \in Nat
      BY <1>1, SessionRows, InSession, Constants
    <2>2. clock \in Nat
      BY <1>1, Constants DEF SessionTypeOK
    <2> QED
      BY <1>1, <1>2, <1>3, <2>1, <2>2 DEF ActivityOK
  <1>6. AnswersOK' /\ UnlapsedWithinLimit'
    BY <1>1, <1>2, <1>3 DEF AnswersOK, UnlapsedWithinLimit
  <1> QED
    BY <1>4, <1>5, <1>6

-----------------------------------------------------------------------------
(* The steps of an operation that leave the store alone.                   *)

\* A step that only replaces the request of one operation.
LEMMA QuietStep ==
    ASSUME IInv, NEW r \in Requests, NEW CONSTANT v,
           requests' = [requests EXCEPT ![r] = v],
           v \in Request \cup {Idle, Served},
           UNCHANGED <<clock, storeVars, answers>>,
           minted' = minted \/ (minted < MaxIds /\ minted' = minted + 1),
           v \in Request => RequestOK(v)',
           v \in Request => \A p \in Others(r) :
               /\ Mints(p) /\ Mints(v) => p.fresh # v.fresh
               /\ Spent(p) /\ Spent(v) => p.given # v.given
    PROVE  IInv'
  <1>1. StoreOK' /\ ActivityOK' /\ AnswersOK' /\ UnlapsedWithinLimit'
    BY QuietStore
  <1>2. \A p \in Others(r) : RequestOK(p)' /\ (Spent(p)' <=> Spent(p))
    BY QuietOthers
  <1>3. Spent(v)' <=> Spent(v)
    BY DEF Spent, storeVars
  <1>4. RequestsOK' /\ PairsOK'
    BY <1>2, <1>3, Assembled
  <1>5. SessionTypeOK'
    BY Constants DEF IInv, SessionTypeOK, storeVars
  <1> QED
    BY <1>1, <1>4, <1>5 DEF IInv

\* An identifier not minted yet is nobody's.
LEMMA MintIsNew ==
    ASSUME IInv, Mint
    PROVE  /\ minted' \in Ids /\ minted < minted' /\ tokens[minted'] = NoId
           /\ \A a \in answers : a.fresh # minted'
           /\ \A r \in Requests : \A p \in Others(r) : Mints(p) => p.fresh # minted'
  <1>1. minted \in Nat /\ minted' = minted + 1 /\ minted < MaxIds /\ MaxIds \in Nat
    BY Constants DEF IInv, SessionTypeOK, Mint
  <1>2. minted' \in Ids /\ minted' > minted
    BY <1>1 DEF Ids
  <1>3. tokens[minted'] = NoId
    BY <1>2 DEF IInv, StoreOK
  <1>4. \A a \in answers : a.fresh # minted'
    BY <1>3 DEF IInv, AnswersOK
  <1>5. \A r \in Requests : \A p \in Others(r) : Mints(p) => p.fresh # minted'
    <2> SUFFICES ASSUME NEW r \in Requests, NEW p \in Others(r), Mints(p)
                 PROVE  p.fresh # minted'
      OBVIOUS
    <2>1. RequestOK(p) /\ p \in Request
      BY OtherOK DEF Others
    <2>2. p.fresh <= minted /\ p.fresh \in Nat
      BY <2>1, Numbers DEF RequestOK, IInv
    <2> QED
      BY <1>1, <2>2
  <1> QED
    BY <1>1, <1>2, <1>3, <1>4, <1>5

LEMMA BeginStep ==
    ASSUME IInv, NEW r \in Requests,
           BeginLogin(r) \/ BeginRefresh(r) \/ BeginLogout(r) \/ BeginLogoutAll(r)
    PROVE  IInv'
  <1>1. SessionTypeOK /\ clock \in Time /\ clock \in Nat
    BY Constants DEF IInv, SessionTypeOK
  <1>2. CASE BeginLogin(r)
    <2>1. Mint /\ Begin(r, "login", NoId, minted')
      BY <1>2 DEF BeginLogin
    <2>2. PICK v : v = [operation |-> "login", at |-> clock, given |-> NoId,
                        fresh |-> minted', stage |-> "running"]
      OBVIOUS
    <2>3. v \in Request /\ Mints(v) /\ ~Spent(v)
      BY <1>1, <2>1, <2>2, MintIsNew DEF Request, Mints, Spent
    <2>4. requests' = [requests EXCEPT ![r] = v] /\ UNCHANGED <<clock, storeVars, answers>>
      BY <2>1, <2>2 DEF Begin
    <2>5. RequestOK(v)'
      <3>1. tokens' = tokens /\ answers' = answers /\ clock' = clock
        BY <2>4 DEF storeVars
      <3>2. minted' \in Nat /\ minted' # NoId
        BY <2>1, MintIsNew, Constants
      <3> QED
        BY <1>1, <2>1, <2>2, <3>1, <3>2, MintIsNew DEF RequestOK, Mints, Spent
    <2> QED
      BY <2>1, <2>2, <2>3, <2>4, <2>5, MintIsNew, QuietStep DEF Mint
  <1>3. CASE BeginRefresh(r)
    <2>1. PICK t \in Held : Mint /\ Begin(r, "refresh", t, minted')
      BY <1>3 DEF BeginRefresh
    <2>2. t \in Ids /\ tokens[t] # NoId
      BY <1>1 DEF Held, IInv, AnswersOK, SessionTypeOK, Answer
    <2>3. PICK v : v = [operation |-> "refresh", at |-> clock, given |-> t,
                        fresh |-> minted', stage |-> "running"]
      OBVIOUS
    <2>4. v \in Request /\ Mints(v) /\ ~Spent(v)
      BY <1>1, <2>1, <2>2, <2>3, MintIsNew DEF Request, Mints, Spent
    <2>5. requests' = [requests EXCEPT ![r] = v] /\ UNCHANGED <<clock, storeVars, answers>>
      BY <2>1, <2>3 DEF Begin
    <2>6. RequestOK(v)'
      <3>1. /\ tokens' = tokens /\ answers' = answers /\ clock' = clock
            /\ sessions' = sessions
        BY <2>5 DEF storeVars
      <3>2. minted' \in Nat /\ minted' # NoId /\ t # NoId
        BY <2>1, <2>2, MintIsNew, Constants
      <3>3. sessions[tokens[t]].activeAt <= clock
        BY <2>2 DEF IInv, StoreOK, ActivityOK
      <3> QED
        BY <1>1, <2>1, <2>2, <2>3, <3>1, <3>2, <3>3, MintIsNew DEF RequestOK, Mints, Spent
    <2> QED
      BY <2>1, <2>3, <2>4, <2>5, <2>6, MintIsNew, QuietStep DEF Mint
  <1>4. CASE BeginLogout(r) \/ BeginLogoutAll(r)
    <2>1. PICK v \in Request : /\ requests' = [requests EXCEPT ![r] = v]
                               /\ v.at = clock /\ v.operation \in {"logout", "logout all"}
      <3>1. CASE BeginLogout(r)
        <4>1. PICK s \in Issued : Begin(r, "logout", s, NoId)
          BY <3>1 DEF BeginLogout
        <4>2. s \in Ids
          BY DEF Issued
        <4>3. [operation |-> "logout", at |-> clock, given |-> s, fresh |-> NoId,
               stage |-> "running"] \in Request
          BY <1>1, <4>2 DEF Request
        <4> QED
          BY <4>1, <4>3 DEF Begin
      <3>2. CASE BeginLogoutAll(r)
        <4>1. [operation |-> "logout all", at |-> clock, given |-> NoId, fresh |-> NoId,
               stage |-> "running"] \in Request
          BY <1>1 DEF Request
        <4> QED
          BY <3>2, <4>1 DEF BeginLogoutAll, Begin
      <3> QED
        BY <1>4, <3>1, <3>2
    <2>2. /\ UNCHANGED <<clock, storeVars, answers>> /\ clock' = clock
          /\ minted' = minted \/ (minted < MaxIds /\ minted' = minted + 1)
      BY <1>4 DEF BeginLogout, BeginLogoutAll, Begin
    <2>3. ~Mints(v) /\ ~Spent(v)
      BY <2>1 DEF Mints, Spent
    <2>4. RequestOK(v)'
      <3>1. v.at <= clock'
        <4>1. v.at = clock /\ clock' = clock
          BY <2>1, <2>2
        <4> QED
          BY <1>1, <4>1
      <3>2. v.operation \notin {"login", "refresh"}
        BY <2>1
      <3> QED
        BY <3>1, <3>2 DEF RequestOK, Mints, Spent
    <2> QED
      BY <2>1, <2>2, <2>3, <2>4, QuietStep
  <1> QED
    BY <1>2, <1>3, <1>4

LEMMA LoseStep ==
    ASSUME IInv, NEW r \in Requests, LoseCommit(r)
    PROVE  IInv'
  <1>1. PICK q : q = requests[r]
    OBVIOUS
  <1>2. q \in Request /\ q.stage = "running" /\ RequestOK(q)
    BY <1>1, RequestTypes DEF LoseCommit, IInv, RequestsOK, InFlight
  <1>3. PICK v : v = [q EXCEPT !.stage = "unsure"]
    OBVIOUS
  <1>4. /\ v \in Request /\ v.operation = q.operation /\ v.at = q.at /\ v.given = q.given
        /\ v.fresh = q.fresh /\ v.stage = "unsure"
    BY <1>2, <1>3 DEF Request
  <1>5. /\ requests' = [requests EXCEPT ![r] = v]
        /\ UNCHANGED <<clock, storeVars, answers>> /\ clock' = clock /\ minted' = minted
        /\ minted' = minted \/ (minted < MaxIds /\ minted' = minted + 1)
    BY <1>1, <1>3 DEF LoseCommit, Unsure
  <1>6. ~Spent(v)
    BY <1>2, <1>4 DEF Spent, RequestOK, Mints
  <1>7. RequestOK(v)'
    BY <1>2, <1>4, <1>5, <1>6 DEF RequestOK, Mints, Spent, storeVars
  <1>8. \A p \in Others(r) : Mints(p) /\ Mints(v) => p.fresh # v.fresh
    BY <1>1, <1>2, <1>4, OtherOK DEF Mints, InFlight
  <1> QED
    BY <1>4, <1>5, <1>6, <1>7, <1>8, QuietStep

LEMMA FailStep ==
    ASSUME IInv, NEW r \in Requests, Fail(r)
    PROVE  IInv'
  <1>1. /\ requests' = [requests EXCEPT ![r] = Idle]
        /\ UNCHANGED <<clock, storeVars, answers>> /\ clock' = clock /\ minted' = minted
        /\ minted' = minted \/ (minted < MaxIds /\ minted' = minted + 1)
    BY DEF Fail
  <1>2. Idle \notin Request
    BY InRequest
  <1> QED
    BY <1>1, <1>2, QuietStep

LEMMA TickStep ==
    ASSUME IInv, Tick
    PROVE  IInv'
  <1>1. /\ clock' = clock + 1 /\ clock < MaxTime
        /\ UNCHANGED <<minted, storeVars, requests, answers>>
    BY DEF Tick
  <1>2. StoreOK' /\ ActivityOK' /\ AnswersOK' /\ UnlapsedWithinLimit'
    BY <1>1, QuietStore
  <1>3. SessionTypeOK'
    BY <1>1, Constants DEF IInv, SessionTypeOK, storeVars, Time
  <1>4. RequestsOK'
    <2> SUFFICES ASSUME NEW r \in Requests, requests[r] \in Request
                 PROVE  RequestOK(requests[r])'
      BY <1>1 DEF RequestsOK, InFlight
    <2>1. PICK q \in Request : q = requests[r]
      OBVIOUS
    <2>2. RequestOK(q)
      BY <2>1 DEF IInv, RequestsOK, InFlight
    <2>3. q.at <= clock'
      BY <1>1, <2>2, Numbers DEF RequestOK, IInv
    <2>4. requests'[r] = q
      BY <1>1, <2>1
    <2> QED
      BY <1>1, <2>2, <2>3, <2>4 DEF RequestOK, Mints, Spent, storeVars
  <1>5. PairsOK'
    BY <1>1 DEF IInv, PairsOK, InFlight, Mints, Spent, storeVars
  <1> QED
    BY <1>2, <1>3, <1>4, <1>5 DEF IInv

-----------------------------------------------------------------------------
(* The steps that commit or answer.                                        *)

\* What a commit leaves of the requests of others, and what it may have answered with.
LEMMA OthersKept ==
    ASSUME IInv, NEW r \in Requests, NEW q \in Request, q = requests[r], q.stage = "running",
           Effect(q), clock' = clock, minted' = minted,
           \A a \in answers' : a \in answers \/ (Mints(q) /\ a.given = q.given /\ a.fresh = q.fresh)
    PROVE  \A p \in Others(r) : /\ RequestOK(p)'
                                /\ Spent(p)' => Spent(p) /\ p.given \in consumed
  <1> SUFFICES ASSUME NEW p \in Others(r)
               PROVE  RequestOK(p)' /\ (Spent(p)' => Spent(p) /\ p.given \in consumed)
    OBVIOUS
  <1>1. /\ p \in Request /\ RequestOK(p) /\ RequestOK(q)
        /\ Mints(p) /\ Mints(q) => p.fresh # q.fresh
    BY OtherOK DEF Others, IInv, RequestsOK, InFlight
  <1>2. /\ p.fresh \in Ids \cup {NoId} /\ p.given \in Ids \cup {NoId}
        /\ q.fresh \in Ids \cup {NoId} /\ q.given \in Ids \cup {NoId}
        /\ q.operation \in {"login", "refresh", "logout", "logout all"}
    BY <1>1, InRequest
  <1>3. Mints(p) => tokens'[p.fresh] = tokens[p.fresh]
    <2> SUFFICES ASSUME Mints(p) PROVE tokens'[p.fresh] = tokens[p.fresh]
      OBVIOUS
    <2>1. p.fresh \in Ids
      BY <1>1, <1>2 DEF RequestOK
    <2> QED
      BY <1>1, <2>1 DEF Effect
  <1>4. p.operation = "refresh" => tokens'[p.given] = tokens[p.given]
    BY <1>1, <1>2 DEF RequestOK, Effect
  <1>5. Spent(p)' => Spent(p) /\ p.given \in consumed
    BY <1>1, <1>3 DEF Spent, Mints, RequestOK
  <1>6. Mints(p) => \A a \in answers' : a.fresh # p.fresh
    BY <1>1 DEF RequestOK
  <1>7. Spent(p)' => \A a \in answers' : a.given # p.given
    <2> SUFFICES ASSUME Spent(p)', NEW a \in answers' PROVE a.given # p.given
      BY <1>5
    <2>1. p.given \in consumed /\ p.given # NoId /\ \A x \in answers : x.given # p.given
      BY <1>1, <1>5 DEF RequestOK, Spent
    <2>2. Mints(q) => q.given # p.given
      BY <1>1, <2>1 DEF RequestOK, Mints, Effect
    <2> QED
      BY <2>1, <2>2
  <1>8. p.operation = "refresh" =>
           (sessions'[tokens'[p.given]].token = p.given
               => sessions'[tokens'[p.given]].activeAt <= p.at)
    <2> SUFFICES ASSUME p.operation = "refresh",
                        sessions'[tokens[p.given]].token = p.given
                 PROVE  sessions'[tokens[p.given]].activeAt <= p.at
      BY <1>4
    <2>1. tokens[p.given] # NoId /\ p.given # NoId /\ tokens[p.given] \in Issued
      BY <1>1, <1>2 DEF RequestOK, IInv, StoreOK
    <2>2. Mints(q) => q.fresh # p.given
      BY <1>1, <2>1 DEF RequestOK
    <2> QED
      BY <1>1, <2>1, <2>2 DEF Effect, RequestOK
  <1>9. Spent(p)' => p.given \in consumed' /\ tokens'[p.fresh] = tokens'[p.given]
    <2> SUFFICES ASSUME Spent(p)'
                 PROVE  p.given \in consumed' /\ tokens'[p.fresh] = tokens'[p.given]
      OBVIOUS
    <2>1. Spent(p) /\ p.given \in consumed /\ Mints(p) /\ p.operation = "refresh"
      BY <1>5 DEF Spent, Mints
    <2> QED
      BY <1>1, <1>3, <1>4, <2>1 DEF RequestOK, Effect
  <1>10. RequestOK(p)'
    <2>1. p.at <= clock'
      BY <1>1 DEF RequestOK
    <2>2. Mints(p) => p.fresh # NoId /\ p.fresh <= minted'
      BY <1>1 DEF RequestOK
    <2>3. Mints(p) => (p.stage = "running" => tokens'[p.fresh] = NoId)
      BY <1>1, <1>3 DEF RequestOK
    <2>4. /\ p.operation = "login" => p.given = NoId
          /\ p.operation = "refresh" => p.given # NoId /\ tokens'[p.given] # NoId
      BY <1>1, <1>4 DEF RequestOK
    <2> QED
      BY <1>6, <1>7, <1>8, <1>9, <2>1, <2>2, <2>3, <2>4 DEF RequestOK, Mints, Spent
  <1> QED
    BY <1>5, <1>10

\* A commit keeps what is known of the answers.
LEMMA AnswersKept ==
    ASSUME IInv, NEW q \in Request, Effect(q)
    PROVE  \A a \in answers :
               /\ tokens'[a.fresh] # NoId
               /\ a.given # NoId =>
                     /\ tokens'[a.fresh] = tokens'[a.given]
                     /\ a.given \in consumed /\ a.given \in consumed'
  <1> SUFFICES ASSUME NEW a \in answers
               PROVE  /\ tokens'[a.fresh] # NoId
                      /\ a.given # NoId =>
                            /\ tokens'[a.fresh] = tokens'[a.given]
                            /\ a.given \in consumed /\ a.given \in consumed'
    OBVIOUS
  <1>1. a.fresh \in Ids /\ a.given \in Ids \cup {NoId}
    BY DEF IInv, SessionTypeOK, Answer
  <1>2. /\ tokens[a.fresh] # NoId
        /\ a.given # NoId => tokens[a.fresh] = tokens[a.given] /\ a.given \in consumed
    BY DEF IInv, AnswersOK
  <1>3. tokens'[a.fresh] = tokens[a.fresh]
    BY <1>1, <1>2 DEF Effect
  <1>4. a.given # NoId => tokens'[a.given] = tokens[a.given]
    BY <1>1, <1>2 DEF Effect
  <1>5. consumed \subseteq consumed'
    BY DEF Effect
  <1> QED
    BY <1>2, <1>3, <1>4, <1>5

LEMMA CommitStep ==
    ASSUME IInv, NEW r \in Requests, Commit(r)
    PROVE  IInv'
  <1>1. InFlight(r) /\ Effect(requests[r])
    BY TransactionEffect DEF Commit
  <1>2. PICK q \in Request : q = requests[r]
    BY <1>1 DEF InFlight
  <1>3. Effect(q) /\ q.stage = "running" /\ RequestOK(q)
    BY <1>1, <1>2 DEF Commit, IInv, RequestsOK
  <1>4. /\ clock' = clock /\ minted' = minted
        /\ requests' = [requests EXCEPT ![r] = Served]
        /\ answers' = IF Mints(q) THEN answers \cup {[given |-> q.given, fresh |-> q.fresh]}
                                  ELSE answers
    BY <1>2 DEF Commit, Succeed, Mints
  <1>5. \A a \in answers' :
            a \in answers \/ (Mints(q) /\ a = [given |-> q.given, fresh |-> q.fresh])
    BY <1>4
  <1>6. \A p \in Others(r) : RequestOK(p)' /\ (Spent(p)' => Spent(p))
    BY <1>2, <1>3, <1>4, <1>5, OthersKept
  <1>7. RequestsOK' /\ PairsOK'
    <2>1. Served \notin Request
      BY InRequest
    <2> QED
      BY <1>4, <1>6, <2>1, Assembled
  <1>8. /\ q.given \in Ids \cup {NoId}
        /\ Mints(q) => q.fresh \in Ids
    BY <1>3, InRequest DEF RequestOK
  <1>9. AnswersOK'
    <2>1. \A a \in answers :
             /\ tokens'[a.fresh] # NoId
             /\ a.given # NoId => /\ tokens'[a.fresh] = tokens'[a.given]
                                  /\ a.given \in consumed /\ a.given \in consumed'
      BY <1>3, AnswersKept
    <2>2. Mints(q) => tokens'[q.fresh] # NoId
      BY <1>3 DEF Effect
    <2>3. Mints(q) /\ q.given # NoId =>
             tokens'[q.fresh] = tokens'[q.given] /\ q.given \in consumed' /\ q.given \notin consumed
      <3> SUFFICES ASSUME Mints(q), q.given # NoId
                   PROVE  /\ tokens'[q.fresh] = tokens'[q.given]
                          /\ q.given \in consumed' /\ q.given \notin consumed
        OBVIOUS
      <3>1. q.operation = "refresh"
        BY <1>3 DEF Mints, RequestOK
      <3>2. tokens[q.given] # NoId
        BY <1>3, <3>1 DEF RequestOK
      <3> QED
        BY <1>3, <1>8, <3>1, <3>2 DEF Effect
    <2>4. \A a \in answers' :
             /\ tokens'[a.fresh] # NoId
             /\ a.given # NoId => tokens'[a.fresh] = tokens'[a.given] /\ a.given \in consumed'
      BY <1>5, <2>1, <2>2, <2>3
    <2>5. \A a, b \in answers' : a.given # NoId /\ a.given = b.given => a = b
      <3>1. \A a, b \in answers : a.given # NoId /\ a.given = b.given => a = b
        BY DEF IInv, AnswersOK
      <3> QED
        BY <1>5, <2>1, <2>3, <3>1
    <2> QED
      BY <2>4, <2>5 DEF AnswersOK
  <1>10. SessionTypeOK'
    <2>1. answers' \in SUBSET Answer
      BY <1>4, <1>8 DEF IInv, SessionTypeOK, Answer
    <2> QED
      BY <1>3, <1>4, <2>1 DEF IInv, SessionTypeOK, Effect
  <1> QED
    BY <1>3, <1>7, <1>9, <1>10 DEF IInv, Effect

LEMMA CommitUnseenStep ==
    ASSUME IInv, NEW r \in Requests, CommitUnseen(r)
    PROVE  IInv'
  <1>1. InFlight(r) /\ Effect(requests[r])
    BY TransactionEffect DEF CommitUnseen
  <1>2. PICK q \in Request : q = requests[r]
    BY <1>1 DEF InFlight
  <1>3. Effect(q) /\ q.stage = "running" /\ RequestOK(q)
    BY <1>1, <1>2 DEF CommitUnseen, IInv, RequestsOK
  <1>4. PICK v : v = [q EXCEPT !.stage = "unsure"]
    OBVIOUS
  <1>5. /\ v \in Request /\ v.operation = q.operation /\ v.at = q.at /\ v.given = q.given
        /\ v.fresh = q.fresh /\ v.stage = "unsure"
    BY <1>4 DEF Request
  <1>6. /\ clock' = clock /\ minted' = minted /\ answers' = answers
        /\ requests' = [requests EXCEPT ![r] = v]
    BY <1>2, <1>4 DEF CommitUnseen, Unsure
  <1>7. \A p \in Others(r) : RequestOK(p)' /\ (Spent(p)' => Spent(p) /\ p.given \in consumed)
    BY <1>2, <1>3, <1>6, OthersKept
  <1>8. AnswersOK'
    <2>1. \A a \in answers :
             /\ tokens'[a.fresh] # NoId
             /\ a.given # NoId => /\ tokens'[a.fresh] = tokens'[a.given]
                                  /\ a.given \in consumed /\ a.given \in consumed'
      BY <1>3, AnswersKept
    <2>2. \A a, b \in answers : a.given # NoId /\ a.given = b.given => a = b
      BY DEF IInv, AnswersOK
    <2> QED
      BY <1>6, <2>1, <2>2 DEF AnswersOK
  <1>9. Mints(v) => /\ v.fresh # NoId /\ v.fresh <= minted'
                    /\ \A a \in answers' : a.fresh # v.fresh
    BY <1>3, <1>5, <1>6 DEF RequestOK, Mints
  <1>10. v.operation = "refresh" =>
            /\ v.given # NoId /\ tokens'[v.given] # NoId
            /\ sessions'[tokens'[v.given]].token # v.given
            /\ v.given \in consumed' /\ tokens'[v.fresh] = tokens'[v.given]
            /\ \A a \in answers' : a.given # v.given
    <2> SUFFICES ASSUME q.operation = "refresh"
                 PROVE  /\ q.given # NoId /\ tokens'[q.given] # NoId
                        /\ sessions'[tokens'[q.given]].token # q.given
                        /\ q.given \in consumed' /\ tokens'[q.fresh] = tokens'[q.given]
                        /\ \A a \in answers : a.given # q.given
      BY <1>5, <1>6
    <2>1. q.given # NoId /\ tokens[q.given] # NoId /\ q.given \in Ids
      BY <1>3, InRequest DEF RequestOK
    <2>2. tokens'[q.given] = tokens[q.given] /\ q.given \notin consumed /\ q.given \in consumed'
          /\ tokens'[q.fresh] = tokens[q.given]
      BY <1>3, <2>1 DEF Effect
    <2>3. tokens'[q.given] \in Issued'
      BY <1>3, <2>1, <2>2 DEF Effect, StoreOK
    <2>4. sessions'[tokens'[q.given]].token \notin consumed'
      BY <1>3, <2>3 DEF Effect, StoreOK
    <2>5. \A a \in answers : a.given # q.given
      BY <2>1, <2>2 DEF IInv, AnswersOK
    <2> QED
      BY <2>1, <2>2, <2>4, <2>5
  <1>11. RequestOK(v)'
    <2>1. v.at <= clock' /\ (v.operation = "login" => v.given = NoId)
      BY <1>3, <1>5, <1>6 DEF RequestOK
    <2> QED
      BY <1>5, <1>9, <1>10, <2>1 DEF RequestOK, Mints, Spent
  <1>12. \A p \in Others(r) :
            /\ Mints(p) /\ Mints(v) => p.fresh # v.fresh
            /\ Spent(p)' /\ Spent(v)' => p.given # v.given
    <2> SUFFICES ASSUME NEW p \in Others(r)
                 PROVE  /\ Mints(p) /\ Mints(v) => p.fresh # v.fresh
                        /\ Spent(p)' /\ Spent(v)' => p.given # v.given
      OBVIOUS
    <2>1. Mints(p) /\ Mints(v) => p.fresh # v.fresh
      BY <1>1, <1>2, <1>5, OtherOK DEF Mints
    <2>2. Spent(v)' => v.given \notin consumed
      BY <1>3, <1>5 DEF Spent, Effect
    <2> QED
      BY <1>7, <2>1, <2>2
  <1>13. RequestsOK' /\ PairsOK'
    BY <1>6, <1>7, <1>11, <1>12, Assembled
  <1>14. SessionTypeOK'
    BY <1>3, <1>5, <1>6 DEF IInv, SessionTypeOK, Effect
  <1> QED
    BY <1>3, <1>8, <1>13, <1>14 DEF IInv, Effect

\* What the lookup finds is what this operation has written.
LEMMA FoundIsOwn ==
    ASSUME IInv, NEW r \in Requests, NEW q \in Request, q = requests[r], q.stage = "unsure",
           Mints(q), Found(q)
    PROVE  /\ tokens[q.fresh] # NoId
           /\ q.given # NoId => Spent(q)
  <1>1. RequestOK(q)
    BY DEF IInv, RequestsOK, InFlight
  <1>2. q.fresh \in Ids /\ q.at \in Time
    BY <1>1, InRequest DEF RequestOK
  <1>3. CASE q.operation = "login"
    <2>1. sessions[q.fresh] = NewSession(q.fresh, q.at)
      BY <1>3 DEF Found
    <2>2. q.fresh \in Issued
      BY <1>2, <2>1, NewSessionIs DEF Issued
    <2>3. tokens[q.fresh] = q.fresh /\ q.fresh # NoId
      BY <1>2, <2>2, Constants DEF IInv, StoreOK
    <2> QED
      BY <1>1, <1>3, <2>3 DEF RequestOK
  <1>4. CASE q.operation = "refresh"
    <2>1. FoundRotation(q)
      BY <1>4 DEF Found
    <2>2. tokens[q.fresh] = tokens[q.given]
      BY <2>1 DEF FoundRotation
    <2>3. tokens[q.given] # NoId
      BY <1>1, <1>4 DEF RequestOK
    <2> QED
      BY <1>4, <2>2, <2>3 DEF Spent
  <1> QED
    BY <1>3, <1>4 DEF Mints

LEMMA ReconcileStep ==
    ASSUME IInv, NEW r \in Requests, Reconcile(r)
    PROVE  IInv'
  <1>1. InFlight(r)
    BY RequestTypes DEF Reconcile, IInv
  <1>2. PICK q \in Request : q = requests[r]
    BY <1>1 DEF InFlight
  <1>3. q.stage = "unsure" /\ Found(q) /\ RequestOK(q)
    BY <1>1, <1>2 DEF Reconcile, IInv, RequestsOK
  <1>4. /\ clock' = clock /\ minted' = minted
        /\ tokens' = tokens /\ sessions' = sessions /\ consumed' = consumed /\ lapsed' = lapsed
        /\ requests' = [requests EXCEPT ![r] = Served]
        /\ answers' = IF Mints(q) THEN answers \cup {[given |-> q.given, fresh |-> q.fresh]}
                                  ELSE answers
    BY <1>2 DEF Reconcile, Succeed, Mints, storeVars
  <1>5. \A a \in answers' :
            a \in answers \/ (Mints(q) /\ a = [given |-> q.given, fresh |-> q.fresh])
    BY <1>4
  <1>6. Mints(q) => tokens[q.fresh] # NoId /\ (q.given # NoId => Spent(q))
    BY <1>2, <1>3, FoundIsOwn
  <1>7. \A p \in Others(r) : RequestOK(p)' /\ (Spent(p)' => Spent(p))
    <2> SUFFICES ASSUME NEW p \in Others(r)
                 PROVE  RequestOK(p)' /\ (Spent(p)' => Spent(p))
      OBVIOUS
    <2>1. /\ p \in Request /\ RequestOK(p)
          /\ Mints(p) /\ Mints(q) => p.fresh # q.fresh
          /\ Spent(p) /\ Spent(q) => p.given # q.given
      BY <1>1, <1>2, OtherOK DEF Others
    <2>2. Spent(p)' <=> Spent(p)
      BY <1>4 DEF Spent
    <2>3. Mints(p) => \A a \in answers' : a.fresh # p.fresh
      BY <1>5, <2>1 DEF RequestOK
    <2>4. Spent(p) => \A a \in answers' : a.given # p.given
      <3> SUFFICES ASSUME Spent(p), NEW a \in answers' PROVE a.given # p.given
        OBVIOUS
      <3>1. p.given # NoId /\ \A x \in answers : x.given # p.given
        BY <2>1 DEF RequestOK, Spent
      <3>2. Mints(q) => q.given # p.given
        BY <1>6, <2>1, <3>1
      <3> QED
        BY <1>5, <3>1, <3>2
    <2>5. RequestOK(p)'
      BY <1>4, <2>1, <2>2, <2>3, <2>4 DEF RequestOK, Mints, Spent
    <2> QED
      BY <2>2, <2>5
  <1>8. RequestsOK' /\ PairsOK'
    <2>1. Served \notin Request
      BY InRequest
    <2> QED
      BY <1>4, <1>7, <2>1, Assembled
  <1>9. Mints(q) /\ q.given # NoId =>
            /\ tokens[q.fresh] = tokens[q.given] /\ q.given \in consumed
            /\ \A a \in answers : a.given # q.given
    BY <1>3, <1>6 DEF RequestOK
  <1>10. AnswersOK'
    <2>1. \A a \in answers :
             /\ tokens[a.fresh] # NoId
             /\ a.given # NoId => tokens[a.fresh] = tokens[a.given] /\ a.given \in consumed
      BY DEF IInv, AnswersOK
    <2>2. \A a, b \in answers : a.given # NoId /\ a.given = b.given => a = b
      BY DEF IInv, AnswersOK
    <2>3. \A a \in answers' :
             /\ tokens[a.fresh] # NoId
             /\ a.given # NoId => tokens[a.fresh] = tokens[a.given] /\ a.given \in consumed
      BY <1>5, <1>6, <1>9, <2>1
    <2>4. \A a, b \in answers' : a.given # NoId /\ a.given = b.given => a = b
      BY <1>5, <1>9, <2>2
    <2> QED
      BY <1>4, <2>3, <2>4 DEF AnswersOK
  <1>11. Issued' = Issued
    BY <1>4 DEF Issued
  <1>12. StoreOK' /\ ActivityOK' /\ UnlapsedWithinLimit'
    BY <1>4, <1>11 DEF IInv, StoreOK, ActivityOK, UnlapsedWithinLimit
  <1>13. SessionTypeOK'
    <2>1. q.given \in Ids \cup {NoId} /\ (Mints(q) => q.fresh \in Ids)
      BY <1>3, InRequest DEF RequestOK
    <2>2. answers' \in SUBSET Answer
      BY <1>4, <2>1 DEF IInv, SessionTypeOK, Answer
    <2> QED
      BY <1>4, <2>2 DEF IInv, SessionTypeOK
  <1> QED
    BY <1>8, <1>10, <1>12, <1>13 DEF IInv

-----------------------------------------------------------------------------
(* The theorems.                                                           *)

LEMMA InitHolds == SessionInit => IInv
  <1> SUFFICES ASSUME SessionInit PROVE IInv
    OBVIOUS
  <1>1. Issued = {} /\ Issued \ lapsed = {}
    BY DEF SessionInit, Issued
  <1>2. SessionTypeOK
    BY Constants DEF SessionInit, SessionTypeOK, Time
  <1>3. StoreOK
    BY <1>1 DEF StoreOK, SessionInit
  <1>4. ActivityOK /\ AnswersOK
    BY <1>1 DEF ActivityOK, AnswersOK, SessionInit
  <1>5. RequestsOK /\ PairsOK
    <2>1. \A r \in Requests : ~InFlight(r)
      <3>1. Idle \notin Request
        BY InRequest
      <3> QED
        BY <3>1 DEF SessionInit, InFlight
    <2> QED
      BY <2>1 DEF RequestsOK, PairsOK
  <1>6. UnlapsedWithinLimit
    <2>1. {s \in Issued \ lapsed : sessions[s].revoked = "no"} = {}
      BY <1>1
    <2> QED
      BY <2>1, FS_EmptySet, Constants DEF UnlapsedWithinLimit
  <1> QED
    BY <1>2, <1>3, <1>4, <1>5, <1>6 DEF IInv

LEMMA NextHolds == IInv /\ [SessionNext]_sessionVars => IInv'
  <1> SUFFICES ASSUME IInv, [SessionNext]_sessionVars PROVE IInv'
    OBVIOUS
  <1>1. CASE UNCHANGED sessionVars
    BY <1>1 DEF sessionVars, IInv, SessionTypeOK, StoreOK, ActivityOK, RequestsOK, RequestOK,
                PairsOK, AnswersOK, UnlapsedWithinLimit, Issued, InFlight, Mints, Spent
  <1>2. CASE Tick
    BY <1>2, TickStep
  <1>3. ASSUME NEW r \in Requests,
               \/ BeginLogin(r) \/ BeginRefresh(r) \/ BeginLogout(r) \/ BeginLogoutAll(r)
               \/ Commit(r) \/ CommitUnseen(r) \/ LoseCommit(r) \/ Fail(r) \/ Reconcile(r)
        PROVE  IInv'
    BY <1>3, BeginStep, CommitStep, CommitUnseenStep, LoseStep, FailStep, ReconcileStep
  <1> QED
    BY <1>1, <1>2, <1>3 DEF SessionNext

LEMMA Invariance == SessionSpec => []IInv
  BY InitHolds, NextHolds, PTL DEF SessionSpec

\* Every state of the sessions' tables and of the operations in flight is of its type: what the
\* store reads back is what it can have written.
THEOREM TypeCorrect == SessionSpec => []SessionTypeOK
  <1>1. IInv => SessionTypeOK
    BY DEF IInv
  <1> QED
    BY <1>1, Invariance, PTL

\* Of a session's refresh tokens one can be spent, and no token is answered for twice, however
\* many operations are in flight and whichever commits are lost or in doubt.
THEOREM TokensAreSpentOnceHolds == SessionSpec => []TokensAreSpentOnce
  <1>1. IInv => TokensAreSpentOnce
    BY DEF IInv, StoreOK, AnswersOK, TokensAreSpentOnce
  <1> QED
    BY <1>1, Invariance, PTL

\* A login leaves no more sessions that count than the policy allows, for every limit.
THEOREM UnlapsedWithinLimitHolds == SessionSpec => []UnlapsedWithinLimit
  <1>1. IInv => UnlapsedWithinLimit
    BY DEF IInv
  <1> QED
    BY <1>1, Invariance, PTL

\* A revoked session never changes and no session's last activity moves back: a refresh reads
\* the clock after its client has got the token it presents.
THEOREM SessionsMoveForwardHolds == SessionSpec => SessionsMoveForward
  <1> DEFINE A == \A s \in Ids :
                     /\ sessions[s].revoked # "no" => sessions'[s] = sessions[s]
                     /\ s \in Issued => sessions'[s].activeAt >= sessions[s].activeAt
  <1>1. ASSUME IInv, [SessionNext]_sessionVars PROVE A
    <2>1. ASSUME sessions' = sessions PROVE A
      <3>1. \A s \in Issued : sessions[s].activeAt \in Nat
        BY <1>1, SessionRows, InSession, Constants DEF IInv
      <3>2. \A s \in Issued : sessions[s].activeAt >= sessions[s].activeAt
        BY <3>1
      <3> QED
        BY <2>1, <3>2
    <2>2. ASSUME NEW r \in Requests, Commit(r) \/ CommitUnseen(r) PROVE A
      <3>1. Effect(requests[r])
        BY <1>1, <2>2, TransactionEffect DEF Commit, CommitUnseen
      <3> QED
        BY <3>1 DEF Effect, Forward
    <2>3. ASSUME NEW r \in Requests,
                 \/ BeginLogin(r) \/ BeginRefresh(r) \/ BeginLogout(r) \/ BeginLogoutAll(r)
                 \/ LoseCommit(r) \/ Fail(r) \/ Reconcile(r)
          PROVE  sessions' = sessions
      BY <2>3 DEF BeginLogin, BeginRefresh, BeginLogout, BeginLogoutAll, Begin, LoseCommit,
                  Fail, Reconcile, storeVars
    <2>4. ASSUME Tick \/ UNCHANGED sessionVars PROVE sessions' = sessions
      BY <2>4 DEF Tick, sessionVars, storeVars
    <2> QED
      BY <1>1, <2>1, <2>2, <2>3, <2>4 DEF SessionNext
  <1>2. IInv /\ [SessionNext]_sessionVars => [A]_sessionVars
    BY <1>1
  <1>3. SessionSpec => [][A]_sessionVars
    BY <1>2, Invariance, PTL DEF SessionSpec
  <1> QED
    BY <1>3 DEF SessionsMoveForward
=============================================================================
