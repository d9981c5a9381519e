------------------------ MODULE LoginChallengesProofs ------------------------
(***************************************************************************)
(* Proofs about LoginChallenges for every set of requests and challenges,  *)
(* every threshold and every limit of attempts.                            *)
(*                                                                         *)
(* A bound on what overlapping logins overrun needs the logins that can    *)
(* still overrun it to be counted with what they have already done:        *)
(* GuessesOK does so for the wrong passwords, MissesOK for the wrong       *)
(* codes.  ProofsOK follows a code from its issue to the session.          *)
(***************************************************************************)
EXTENDS LoginChallenges, TLAPS, FiniteSetTheorems

Checked == {r \in Requests : At(r, "checked")}
Missing(c) == {r \in Requests : At(r, "miss") /\ Of(r) = c}

(* Outside a lockout the row counts the guesses; while it lasts, those of  *)
(* the logins that had passed the check come on top.                       *)
GuessesOK ==
    /\ lockout # None /\ lockout.until # "none" => lockout.failures = 0
    /\ ~ forgotten /\ ~ Locked => guesses = Counted
    /\ ~ forgotten /\ Locked =>
          guesses + Cardinality(Checked) < MaxFailures + Cardinality(Requests)

MissesOK ==
    channel = "sms" => \A c \in Challenges :
        challenges[c].failed + Cardinality(Missing(c)) < MaxAttempts + Cardinality(Requests)

Bound == {"weigh", "offer", "prove", "miss", "spend", "mark", "admit", "admitted"}

(* A login works with a challenge that has been issued.                    *)
IssuedOK ==
    /\ offer # None => challenges[offer.challenge].state # "unissued"
    /\ \A r \in Requests : requests[r].stage \in Bound =>
          Of(r) \in Challenges /\ challenges[Of(r)].state # "unissued"

Uses(r, c) == requests[r].stage \in {"spend", "mark", "admit"} /\ Of(r) = c

(* One that is open has been used up by nobody, and one that is not shared *)
(* is in the hands of one login, or has let it in.                         *)
ProofsOK ==
    \A c \in Challenges :
        /\ challenges[c].state \in {"unissued", "open"} =>
              /\ admitted[c] = 0
              /\ \A r \in Requests : Uses(r, c) => At(r, "spend")
        /\ c \notin shared =>
              /\ admitted[c] <= 1
              /\ \A r \in Requests : Uses(r, c) =>
                    admitted[c] = 0 /\ \A q \in Requests : Uses(q, c) => q = r

IInv == LoginTypeOK /\ GuessesOK /\ MissesOK /\ IssuedOK /\ ProofsOK

-----------------------------------------------------------------------------
(* Sets of requests and their sizes.                                       *)

LEMMA Sizes ==
    /\ Cardinality(Requests) \in Nat
    /\ \A S \in SUBSET Requests :
          /\ IsFiniteSet(S) /\ Cardinality(S) \in Nat
          /\ Cardinality(S) <= Cardinality(Requests)
          /\ \A r \in S : Cardinality(S \ {r}) = Cardinality(S) - 1
  <1>1. IsFiniteSet(Requests) /\ Cardinality(Requests) \in Nat
    BY LoginAssumption, FS_CardinalityType
  <1>2. ASSUME NEW S \in SUBSET Requests
        PROVE  /\ IsFiniteSet(S) /\ Cardinality(S) \in Nat
               /\ Cardinality(S) <= Cardinality(Requests)
               /\ \A r \in S : Cardinality(S \ {r}) = Cardinality(S) - 1
    <2>1. IsFiniteSet(S) /\ Cardinality(S) <= Cardinality(Requests)
      BY <1>1, FS_Subset
    <2>2. Cardinality(S) \in Nat
      BY <2>1, FS_CardinalityType
    <2>3. \A r \in S : Cardinality(S \ {r}) = Cardinality(S) - 1
      BY <2>1, FS_RemoveElement
    <2> QED
      BY <2>1, <2>2, <2>3
  <1> QED
    BY <1>1, <1>2

LEMMA Fewer ==
    ASSUME NEW S \in SUBSET Requests, NEW T \in SUBSET S
    PROVE  Cardinality(T) <= Cardinality(S)
  BY Sizes, FS_Subset

(* A request that takes a step leaves the others as they are.              *)
LEMMA Moves ==
    ASSUME LoginTypeOK, NEW r \in Requests, NEW q \in Request \cup {Idle},
           requests' = [requests EXCEPT ![r] = q]
    PROVE  /\ requests' \in [Requests -> Request \cup {Idle}]
           /\ requests'[r] = q
           /\ \A s \in Requests : s # r => requests'[s] = requests[s]
  BY DEF LoginTypeOK

-----------------------------------------------------------------------------
(* Types.                                                                  *)

Stages == {"forget", "checked", "weigh", "clear", "issue", "offer",
           "prove", "miss", "spend", "mark", "admit", "admitted"}

LEMMA EnterFacts ==
    ASSUME LoginTypeOK, NEW r \in Requests, NEW stage \in Stages,
           NEW c \in Challenges \cup {None}, Enter(r, stage, c)
    PROVE  /\ requests' \in [Requests -> Request \cup {Idle}]
           /\ requests'[r].stage = stage /\ requests'[r].challenge = c
           /\ \A s \in Requests : s # r => requests'[s] = requests[s]
  BY DEF LoginTypeOK, Enter, Request, Stages

LEMMA FinishFacts ==
    ASSUME LoginTypeOK, NEW r \in Requests, Finish(r)
    PROVE  /\ requests' \in [Requests -> Request \cup {Idle}]
           /\ requests'[r].stage = "idle"
           /\ \A s \in Requests : s # r => requests'[s] = requests[s]
  BY DEF LoginTypeOK, Finish, Idle

LEMMA CounterFacts ==
    ASSUME LoginTypeOK
    PROVE  /\ Counted \in Nat /\ Counted < MaxFailures
           /\ AfterFailure \in Lockout
  <1>1. Counted \in Nat /\ Counted < MaxFailures
    BY LoginAssumption DEF LoginTypeOK, Counted, Lockout
  <1>2. CASE Locked
    BY <1>1, <1>2 DEF LoginTypeOK, AfterFailure, Locked
  <1>3. CASE ~ Locked
    BY <1>1, <1>3, LoginAssumption DEF AfterFailure, Lockout
  <1> QED
    BY <1>1, <1>2, <1>3

(* What a step does to the requests: one enters a stage with a challenge   *)
(* that is issued or its own, or ends, or all stay.                        *)
LEMMA TypePreserved ==
    ASSUME LoginTypeOK, IssuedOK, LoginNext
    PROVE  LoginTypeOK'
  <1> USE DEF LoginTypeOK
  <1>1. ASSUME NEW r \in Requests, Look(r) \/ Fail(r) \/ Abandon(r) \/ Forget(r) \/ ClearFailures(r)
        PROVE  LoginTypeOK'
    <2>1. requests' \in [Requests -> Request \cup {Idle}]
      <3>1. CASE Finish(r)
        BY <3>1, FinishFacts
      <3>2. CASE Enter(r, "forget", None) \/ Enter(r, "checked", None)
        BY <3>2, EnterFacts DEF Stages
      <3> QED
        BY <1>1, <3>1, <3>2 DEF Look, Fail, Abandon, Forget, ClearFailures
    <2>2. lockout' \in Lockout \cup {None} /\ guesses' \in Nat /\ forgotten' \in BOOLEAN
      <3>1. CASE Look(r) \/ Abandon(r)
        BY <3>1 DEF Look, Abandon, lockVars
      <3>2. CASE Fail(r)
        BY <3>2, CounterFacts DEF Fail
      <3>3. CASE Forget(r)
        <4>1. lockout' = None /\ guesses' \in Nat
          BY <3>3 DEF Forget
        <4>2. forgotten' \in BOOLEAN
          BY <3>3 DEF Forget
        <4> QED
          BY <4>1, <4>2
      <3>4. CASE ClearFailures(r)
        BY <3>4 DEF ClearFailures
      <3> QED
        BY <1>1, <3>1, <3>2, <3>3, <3>4
    <2>3. UNCHANGED <<channel, codeVars>>
      BY <1>1 DEF Look, Fail, Abandon, Forget, ClearFailures
    <2> QED
      BY <2>1, <2>2, <2>3 DEF codeVars
  <1>2. CASE EndLockout \/ EndWindow
    <2>1. lockout \in Lockout
      BY <1>2 DEF EndLockout, EndWindow, Locked
    <2>2. lockout' \in Lockout /\ guesses' = 0
      BY <1>2, <2>1 DEF EndLockout, EndWindow, Lockout
    <2>3. UNCHANGED <<channel, forgotten, codeVars, requests>>
      BY <1>2 DEF EndLockout, EndWindow
    <2> QED
      BY <2>2, <2>3 DEF codeVars
  <1>3. ASSUME NEW r \in Requests, WithoutCode(r) \/ Weigh(r) \/ ClearOffer(r) \/ SetOffer(r) \/ WithCode(r)
        PROVE  LoginTypeOK'
    <2>1. requests[r].stage = "offer" => Of(r) \in Challenges
      BY DEF IssuedOK, Bound
    <2>2. offer # None => offer.challenge \in Challenges
      OBVIOUS
    <2>3. requests' \in [Requests -> Request \cup {Idle}]
      <3>1. CASE Finish(r)
        BY <3>1, FinishFacts
      <3>2. CASE Enter(r, "issue", None) \/ Enter(r, "clear", None)
        BY <3>2, EnterFacts DEF Stages
      <3>3. CASE offer # None /\ (Enter(r, "weigh", offer.challenge) \/ Enter(r, "prove", offer.challenge))
        BY <2>2, <3>3, EnterFacts DEF Stages
      <3> QED
        BY <1>3, <3>1, <3>2, <3>3 DEF WithoutCode, Weigh, ClearOffer, SetOffer, WithCode
    <2>4. offer' \in [challenge: Challenges, consumed: BOOLEAN] \cup {None}
      <3>1. CASE SetOffer(r)
        <4>1. offer' = [challenge |-> Of(r), consumed |-> FALSE] /\ Of(r) \in Challenges
          BY <2>1, <3>1 DEF SetOffer, At
        <4> QED
          BY <4>1
      <3>2. CASE ~ SetOffer(r)
        BY <1>3, <3>2 DEF WithoutCode, Weigh, ClearOffer, WithCode, codeVars
      <3> QED
        BY <3>1, <3>2
    <2>5. UNCHANGED <<channel, lockVars, challenges, admitted, shared>>
      BY <1>3 DEF WithoutCode, Weigh, ClearOffer, SetOffer, WithCode, codeVars
    <2> QED
      BY <2>3, <2>4, <2>5 DEF lockVars
  <1>4. ASSUME NEW r \in Requests, NEW c \in Challenges, IssueCode(r, c)
        PROVE  LoginTypeOK'
    <2>1. requests' \in [Requests -> Request \cup {Idle}]
      BY <1>4, EnterFacts DEF IssueCode, Stages
    <2>2. challenges' \in [Challenges -> Challenge]
      BY <1>4 DEF IssueCode, Challenge
    <2> QED
      BY <1>4, <2>1, <2>2 DEF IssueCode, lockVars
  <1>5. ASSUME NEW r \in Requests, ReadCode(r) \/ Miss(r) \/ Spend(r) \/ Mark(r) \/ Admit(r)
        PROVE  LoginTypeOK'
    <2>1. Of(r) \in Challenges
      BY <1>5 DEF IssuedOK, Bound, At, ReadCode, Miss, Spend, Mark, Admit
    <2>2. requests' \in [Requests -> Request \cup {Idle}]
      <3>1. CASE Finish(r)
        BY <3>1, FinishFacts
      <3>2. CASE \E stage \in Stages : Enter(r, stage, Of(r))
        BY <2>1, <3>2, EnterFacts
      <3> QED
        BY <1>5, <3>1, <3>2 DEF ReadCode, Miss, Spend, Mark, Admit, Stages
    <2>3. challenges' \in [Challenges -> Challenge]
      BY <1>5, <2>1 DEF ReadCode, Miss, Spend, Mark, Admit, Challenge
    <2>4. offer' \in [challenge: Challenges, consumed: BOOLEAN] \cup {None}
      BY <1>5 DEF ReadCode, Miss, Spend, Mark, Admit
    <2>6. admitted' \in [Challenges -> Nat]
      BY <1>5, <2>1 DEF ReadCode, Miss, Spend, Mark, Admit
    <2>7. shared' \in SUBSET Challenges
      <3>1. shared' \in {shared, shared \cup {Of(r)}}
        BY <1>5 DEF ReadCode, Miss, Spend, Mark, Admit
      <3> QED
        BY <2>1, <3>1
    <2>5. UNCHANGED <<channel, lockVars>>
      BY <1>5 DEF ReadCode, Miss, Spend, Mark, Admit
    <2> QED
      BY <2>2, <2>3, <2>4, <2>5, <2>6, <2>7 DEF lockVars
  <1>6. ASSUME NEW c \in Challenges, Expire(c)
        PROVE  LoginTypeOK'
    BY <1>6 DEF Expire, Challenge, lockVars
  <1> QED
    BY <1>1, <1>2, <1>3, <1>4, <1>5, <1>6 DEF LoginNext

-----------------------------------------------------------------------------
(* The lockout.                                                            *)

(* Steps that leave the lockout alone and let no login past the check.     *)
LEMMA GuessesKept ==
    ASSUME LoginTypeOK, GuessesOK, UNCHANGED lockVars, Locked => Checked' \subseteq Checked
    PROVE  GuessesOK'
  <1>1. Locked' = Locked /\ Counted' = Counted
    BY DEF lockVars, Locked, Counted
  <1>2. Locked => Cardinality(Checked') <= Cardinality(Checked)
    BY Fewer DEF Checked
  <1>3. Locked => Cardinality(Checked) \in Nat /\ Cardinality(Checked') \in Nat
    <2>1. Checked \in SUBSET Requests
      BY DEF Checked
    <2> QED
      BY <2>1, Sizes
  <1> QED
    BY <1>1, <1>2, <1>3, Sizes, LoginAssumption DEF GuessesOK, lockVars, LoginTypeOK

(* A step of one request leaves the other requests past the check.         *)
LEMMA CheckedAfter ==
    ASSUME LoginTypeOK, NEW r \in Requests, NEW stage,
           requests'[r].stage = stage,
           \A s \in Requests : s # r => requests'[s] = requests[s]
    PROVE  Checked' = IF stage = "checked" THEN Checked \cup {r} ELSE Checked \ {r}
  BY DEF Checked, At

LEMMA GuessesPreserved ==
    ASSUME LoginTypeOK, IssuedOK, GuessesOK, LoginNext
    PROVE  GuessesOK'
  <1>1. Checked \in SUBSET Requests /\ Cardinality(Checked) \in Nat
        /\ Cardinality(Checked) <= Cardinality(Requests) /\ Cardinality(Requests) \in Nat
    BY Sizes DEF Checked
  <1>2. ASSUME NEW r \in Requests, Fail(r)
        PROVE  GuessesOK'
    <2>1. r \in Checked /\ Checked' = Checked \ {r}
      <3>1. requests'[r].stage = "idle" /\ \A s \in Requests : s # r => requests'[s] = requests[s]
        BY <1>2, FinishFacts DEF Fail
      <3> QED
        BY <1>2, <3>1, CheckedAfter DEF Fail, Checked
    <2>2. Cardinality(Checked') = Cardinality(Checked) - 1
      BY <1>1, <2>1, Sizes
    <2>3. guesses \in Nat /\ guesses' = guesses + 1 /\ lockout' = AfterFailure /\ UNCHANGED forgotten
      BY <1>2 DEF Fail, LoginTypeOK
    <2>4. Counted \in Nat /\ Counted < MaxFailures /\ MaxFailures \in Nat
      BY CounterFacts, LoginAssumption
    <2>5. CASE Locked
      <3>1. lockout' = lockout
        BY <2>3, <2>5 DEF AfterFailure
      <3> QED
        BY <1>1, <2>2, <2>3, <2>4, <2>5, <3>1 DEF GuessesOK, Locked
    <2>6. CASE ~ Locked /\ Counted + 1 < MaxFailures
      <3>1. lockout' = [failures |-> Counted + 1, fresh |-> TRUE, until |-> "none"] /\ lockout' # None
        BY <2>3, <2>4, <2>6, NoneAssumption, CounterFacts DEF AfterFailure, Lockout
      <3>2. ~ Locked' /\ Counted' = Counted + 1 /\ lockout'.until = "none"
        BY <3>1 DEF Locked, Counted
      <3> QED
        BY <2>3, <2>6, <3>2 DEF GuessesOK
    <2>7. CASE ~ Locked /\ ~ (Counted + 1 < MaxFailures)
      <3>1. lockout' = [failures |-> 0, fresh |-> TRUE, until |-> "ahead"] /\ lockout' # None
        BY <2>3, <2>4, <2>7, NoneAssumption, CounterFacts DEF AfterFailure, Lockout
      <3>2. Locked' /\ lockout'.failures = 0
        BY <3>1 DEF Locked
      <3>3. ~ forgotten => guesses' = MaxFailures
        BY <2>3, <2>4, <2>7 DEF GuessesOK
      <3> QED
        BY <1>1, <2>2, <2>3, <2>4, <3>2, <3>3 DEF GuessesOK
    <2> QED
      BY <2>5, <2>6, <2>7
  <1>3. ASSUME NEW r \in Requests, Forget(r)
        PROVE  GuessesOK'
    <2>1. lockout' = None /\ ~ Locked' /\ Counted' = 0
      BY <1>3 DEF Forget, Locked, Counted
    <2>2. ~ forgotten' => guesses' = 0
      <3>1. CASE Lapsed
        BY <1>3, <3>1 DEF Forget
      <3>2. CASE lockout = None
        BY <1>3, <3>2 DEF Forget, Lapsed, GuessesOK, Locked, Counted
      <3>3. CASE lockout # None /\ ~ Lapsed
        BY <1>3, <3>3 DEF Forget
      <3> QED
        BY <3>1, <3>2, <3>3
    <2> QED
      BY <2>1, <2>2 DEF GuessesOK
  <1>4. ASSUME NEW r \in Requests, ClearFailures(r)
        PROVE  GuessesOK'
    BY <1>4 DEF ClearFailures, GuessesOK, Locked, Counted
  <1>5. CASE EndLockout
    <2>1. lockout' = [lockout EXCEPT !.until = "past"] /\ guesses' = 0 /\ lockout \in Lockout
      BY <1>5 DEF EndLockout, Locked, LoginTypeOK
    <2>2. lockout'.until = "past" /\ lockout'.failures = 0
      BY <1>5, <2>1 DEF Lockout, GuessesOK, EndLockout, Locked
    <2>3. ~ Locked' /\ Counted' = 0
      BY <2>2 DEF Locked, Counted
    <2> QED
      BY <2>1, <2>2, <2>3 DEF GuessesOK
  <1>6. CASE EndWindow
    <2>1. lockout' = [lockout EXCEPT !.fresh = FALSE] /\ guesses' = 0 /\ lockout \in Lockout
          /\ lockout.failures > 0 /\ lockout # None
      BY <1>6 DEF EndWindow, LoginTypeOK
    <2>2. lockout.until = "none"
      BY <2>1 DEF Lockout, GuessesOK
    <2>3. lockout'.until = "none" /\ lockout'.fresh = FALSE
      BY <2>1, <2>2 DEF Lockout
    <2>4. ~ Locked' /\ Counted' = 0
      BY <2>3 DEF Locked, Counted
    <2> QED
      BY <2>1, <2>3, <2>4 DEF GuessesOK
  <1>7. ASSUME NEW r \in Requests, NEW stage, stage # "checked",
               requests'[r].stage = stage, UNCHANGED lockVars,
               \A s \in Requests : s # r => requests'[s] = requests[s]
        PROVE  GuessesOK'
    BY <1>7, CheckedAfter, GuessesKept
  <1>8. ASSUME NEW r \in Requests, Look(r)
        PROVE  GuessesOK'
    BY <1>8, GuessesKept DEF Look
  <1>9. ASSUME NEW r \in Requests,
               \/ Abandon(r) \/ WithoutCode(r) \/ Weigh(r) \/ ClearOffer(r) \/ SetOffer(r)
               \/ WithCode(r) \/ ReadCode(r) \/ Miss(r) \/ Spend(r) \/ Mark(r) \/ Admit(r)
               \/ \E c \in Challenges : IssueCode(r, c)
        PROVE  GuessesOK'
    <2>1. UNCHANGED lockVars
      BY <1>9 DEF Abandon, WithoutCode, Weigh, ClearOffer, SetOffer, WithCode, ReadCode, Miss,
                  Spend, Mark, Admit, IssueCode
    <2>2. \A c \in Challenges : c \in Challenges \cup {None}
      OBVIOUS
    <2>3. requests[r].stage \in Bound => Of(r) \in Challenges
      BY DEF IssuedOK
    <2>4. CASE Finish(r)
      BY <1>7, <2>1, <2>4, FinishFacts
    <2>5. CASE \E stage \in Stages \ {"checked"}, c \in Challenges \cup {None} : Enter(r, stage, c)
      <3>1. PICK stage \in Stages \ {"checked"}, c \in Challenges \cup {None} : Enter(r, stage, c)
        BY <2>5
      <3>2. requests'[r].stage = stage /\ \A s \in Requests : s # r => requests'[s] = requests[s]
        BY <3>1, EnterFacts
      <3> QED
        BY <1>7, <2>1, <3>1, <3>2
    <2>6. Finish(r) \/ \E stage \in Stages \ {"checked"}, c \in Challenges \cup {None} : Enter(r, stage, c)
      <3>1. CASE Abandon(r) \/ Weigh(r) \/ SetOffer(r) \/ Miss(r) \/ ClearOffer(r)
        BY <3>1 DEF Abandon, Weigh, SetOffer, Miss, ClearOffer, Stages
      <3>2. CASE WithoutCode(r) \/ WithCode(r)
        BY <3>2 DEF WithoutCode, WithCode, Stages, LoginTypeOK
      <3>3. CASE ReadCode(r) \/ Spend(r) \/ Mark(r) \/ Admit(r)
        BY <2>3, <3>3 DEF ReadCode, Spend, Mark, Admit, Stages, Bound, At
      <3>4. CASE \E c \in Challenges : IssueCode(r, c)
        BY <3>4 DEF IssueCode, Stages
      <3> QED
        BY <1>9, <3>1, <3>2, <3>3, <3>4
    <2> QED
      BY <2>4, <2>5, <2>6
  <1>10. ASSUME NEW c \in Challenges, Expire(c)
         PROVE  GuessesOK'
    BY <1>10, GuessesKept DEF Expire, Checked, At
  <1> QED
    BY <1>2, <1>3, <1>4, <1>5, <1>6, <1>8, <1>9, <1>10 DEF LoginNext

(* What a step of a request makes of the requests: it ends, or enters a    *)
(* stage, with its own challenge, the one offered or the one it issues.    *)
LEMMA Progress ==
    ASSUME LoginTypeOK, IssuedOK, NEW r \in Requests,
           \/ WithoutCode(r) \/ Weigh(r) \/ ClearOffer(r) \/ SetOffer(r) \/ WithCode(r)
           \/ Spend(r) \/ Mark(r) \/ Admit(r) \/ Abandon(r) \/ Look(r) \/ Forget(r)
           \/ Fail(r) \/ ClearFailures(r) \/ Miss(r)
    PROVE  /\ \A s \in Requests : s # r => requests'[s] = requests[s]
           /\ \/ requests'[r].stage = "idle"
              \/ /\ requests'[r].stage \in {"forget", "checked", "clear", "issue"}
              \/ /\ requests'[r].stage \in {"weigh", "prove"} /\ offer # None
                 /\ Of(r)' = offer.challenge /\ UNCHANGED offer
              \/ /\ requests'[r].stage \in {"mark", "admit", "admitted"}
                 /\ Of(r) \in Challenges /\ Of(r)' = Of(r)
                 /\ requests[r].stage \in Bound
  <1>1. CASE Finish(r)
    BY <1>1, FinishFacts
  <1>2. ASSUME NEW stage \in {"forget", "checked", "clear", "issue"}, Enter(r, stage, None)
        PROVE  /\ \A s \in Requests : s # r => requests'[s] = requests[s]
               /\ requests'[r].stage = stage
    BY <1>2, EnterFacts DEF Stages
  <1>3. ASSUME NEW stage \in {"weigh", "prove"}, offer # None, Enter(r, stage, offer.challenge)
        PROVE  /\ \A s \in Requests : s # r => requests'[s] = requests[s]
               /\ requests'[r].stage = stage /\ requests'[r].challenge = offer.challenge
    <2>1. offer.challenge \in Challenges
      BY <1>3 DEF LoginTypeOK
    <2> QED
      BY <1>3, <2>1, EnterFacts DEF Stages
  <1>4. ASSUME NEW stage \in {"mark", "admit", "admitted"}, requests[r].stage \in Bound,
               Enter(r, stage, Of(r))
        PROVE  /\ \A s \in Requests : s # r => requests'[s] = requests[s]
               /\ requests'[r].stage = stage /\ requests'[r].challenge = Of(r)
               /\ Of(r) \in Challenges
    <2>1. Of(r) \in Challenges
      BY <1>4 DEF IssuedOK
    <2> QED
      BY <1>4, <2>1, EnterFacts DEF Stages
  <1>5. CASE Abandon(r) \/ Fail(r) \/ ClearFailures(r) \/ Miss(r) \/ SetOffer(r)
    BY <1>1, <1>5 DEF Abandon, Fail, ClearFailures, Miss, SetOffer
  <1>6. CASE Weigh(r) \/ ClearOffer(r) \/ Look(r) \/ Forget(r)
    BY <1>1, <1>2, <1>6 DEF Weigh, ClearOffer, Look, Forget
  <1>7. CASE WithoutCode(r) \/ WithCode(r)
    BY <1>2, <1>3, <1>7 DEF WithoutCode, WithCode, codeVars, Of
  <1>8. CASE Spend(r) \/ Mark(r) \/ Admit(r)
    BY <1>4, <1>8 DEF Spend, Mark, Admit, At, Bound, Of
  <1> QED
    BY <1>5, <1>6, <1>7, <1>8

LEMMA CodeFacts ==
    ASSUME LoginTypeOK, IssuedOK, NEW r \in Requests, ReadCode(r)
    PROVE  /\ Of(r) \in Challenges /\ Of(r)' = Of(r)
           /\ requests'[r].stage \in {"miss", "spend"}
           /\ \A s \in Requests : s # r => requests'[s] = requests[s]
  <1>1. Of(r) \in Challenges
    BY DEF IssuedOK, ReadCode, At, Bound
  <1> QED
    BY <1>1, EnterFacts DEF ReadCode, Stages, Of

LEMMA IssueFacts ==
    ASSUME LoginTypeOK, NEW r \in Requests, NEW c \in Challenges, IssueCode(r, c)
    PROVE  /\ requests'[r].stage = "offer" /\ Of(r)' = c
           /\ \A s \in Requests : s # r => requests'[s] = requests[s]
           /\ \A d \in Challenges :
                 /\ challenges'[d].failed = challenges[d].failed
                 /\ challenges'[d].state =
                       IF d = c THEN "open"
                       ELSE IF challenges[d].state = "unissued" THEN "unissued" ELSE "consumed"
  BY EnterFacts DEF IssueCode, Stages, Of, LoginTypeOK, Challenge

-----------------------------------------------------------------------------
(* The codes.                                                              *)

LEMMA MissesKept ==
    ASSUME LoginTypeOK, MissesOK, UNCHANGED channel,
           \A c \in Challenges : /\ challenges'[c].failed = challenges[c].failed
                                 /\ Missing(c)' \subseteq Missing(c)
    PROVE  MissesOK'
  <1> SUFFICES ASSUME channel = "sms", NEW c \in Challenges
               PROVE  challenges[c].failed + Cardinality(Missing(c)')
                         < MaxAttempts + Cardinality(Requests)
    BY DEF MissesOK
  <1>1. Missing(c) \in SUBSET Requests /\ Missing(c)' \in SUBSET Missing(c)
    BY DEF Missing
  <1>2. /\ Cardinality(Missing(c)') \in Nat /\ Cardinality(Missing(c)) \in Nat
        /\ Cardinality(Missing(c)') <= Cardinality(Missing(c)) /\ Cardinality(Requests) \in Nat
    BY <1>1, Fewer, Sizes
  <1>3. challenges[c].failed \in Nat /\ MaxAttempts \in Nat
    BY LoginAssumption DEF LoginTypeOK, Challenge
  <1> QED
    BY <1>2, <1>3 DEF MissesOK

LEMMA MissesPreserved ==
    ASSUME LoginTypeOK, IssuedOK, MissesOK, LoginNext
    PROVE  MissesOK'
  <1>1. ASSUME NEW r \in Requests, ReadCode(r)
        PROVE  MissesOK'
    <2>1. UNCHANGED <<channel, challenges>> /\ (channel = "sms" => challenges[Of(r)].failed < MaxAttempts)
      BY <1>1 DEF ReadCode, Valid, Usable, Limited
    <2>2. \A c \in Challenges : c # Of(r) => Missing(c)' = Missing(c)
      BY <1>1, CodeFacts DEF Missing, At, Of, ReadCode
    <2> SUFFICES ASSUME channel = "sms", NEW c \in Challenges
                 PROVE  challenges[c].failed + Cardinality(Missing(c)')
                           < MaxAttempts + Cardinality(Requests)
      BY <2>1 DEF MissesOK
    <2>3. CASE c = Of(r)
      <3>1. Missing(c)' \in SUBSET Requests
        BY DEF Missing
      <3>2. Cardinality(Missing(c)') <= Cardinality(Requests) /\ Cardinality(Missing(c)') \in Nat
            /\ Cardinality(Requests) \in Nat
        BY <3>1, Sizes
      <3>3. challenges[c].failed \in Nat /\ MaxAttempts \in Nat
        BY LoginAssumption DEF LoginTypeOK, Challenge
      <3> QED
        BY <2>1, <2>3, <3>2, <3>3
    <2>4. CASE c # Of(r)
      BY <2>2, <2>4 DEF MissesOK
    <2> QED
      BY <2>3, <2>4
  <1>2. ASSUME NEW r \in Requests, Miss(r)
        PROVE  MissesOK'
    <2>1. Of(r) \in Challenges /\ requests[r].stage = "miss"
      BY <1>2 DEF IssuedOK, Miss, At, Bound
    <2>2. UNCHANGED channel /\ \A c \in Challenges : challenges'[c].failed =
              IF c = Of(r) THEN challenges[c].failed + 1 ELSE challenges[c].failed
      BY <1>2, <2>1 DEF Miss, LoginTypeOK, Challenge
    <2>3. requests'[r].stage = "idle" /\ \A s \in Requests : s # r => requests'[s] = requests[s]
      BY <1>2, FinishFacts DEF Miss
    <2>4. \A c \in Challenges : Missing(c)' = IF c = Of(r) THEN Missing(c) \ {r} ELSE Missing(c)
      BY <2>1, <2>3 DEF Missing, At, Of
    <2> SUFFICES ASSUME channel = "sms", NEW c \in Challenges
                 PROVE  challenges'[c].failed + Cardinality(Missing(c)')
                           < MaxAttempts + Cardinality(Requests)
      BY <2>2 DEF MissesOK
    <2>5. CASE c = Of(r)
      <3>1. Missing(c) \in SUBSET Requests /\ r \in Missing(c)
        BY <2>1, <2>5 DEF Missing, At
      <3>2. Cardinality(Missing(c)') = Cardinality(Missing(c)) - 1 /\ Cardinality(Missing(c)) \in Nat
        BY <2>4, <2>5, <3>1, Sizes
      <3>3. challenges[c].failed \in Nat
        BY DEF LoginTypeOK, Challenge
      <3> QED
        BY <2>2, <2>5, <3>2, <3>3, Sizes, LoginAssumption DEF MissesOK
    <2>6. CASE c # Of(r)
      BY <2>2, <2>4, <2>6 DEF MissesOK
    <2> QED
      BY <2>5, <2>6
  <1>3. ASSUME NEW r \in Requests, NEW c \in Challenges, IssueCode(r, c)
        PROVE  MissesOK'
    <2>1. \A d \in Challenges : Missing(d)' \subseteq Missing(d)
      BY <1>3, IssueFacts DEF Missing, At, Of
    <2> QED
      BY <1>3, <2>1, IssueFacts, MissesKept DEF IssueCode
  <1>4. ASSUME NEW r \in Requests,
               \/ WithoutCode(r) \/ Weigh(r) \/ ClearOffer(r) \/ SetOffer(r) \/ WithCode(r)
               \/ Spend(r) \/ Mark(r) \/ Admit(r) \/ Abandon(r) \/ Look(r) \/ Forget(r)
               \/ Fail(r) \/ ClearFailures(r)
        PROVE  MissesOK'
    <2>1. UNCHANGED channel
      BY <1>4 DEF WithoutCode, Weigh, ClearOffer, SetOffer, WithCode, Spend, Mark, Admit, Abandon,
                  Look, Forget, Fail, ClearFailures
    <2>2. \A c \in Challenges : challenges'[c].failed = challenges[c].failed
      BY <1>4 DEF WithoutCode, Weigh, ClearOffer, SetOffer, WithCode, Spend, Mark, Admit, Abandon,
                  Look, Forget, Fail, ClearFailures, codeVars, LoginTypeOK, Challenge
    <2>3. requests'[r].stage # "miss" /\ \A s \in Requests : s # r => requests'[s] = requests[s]
      BY <1>4, Progress
    <2>4. \A c \in Challenges : Missing(c)' \subseteq Missing(c)
      BY <2>3 DEF Missing, At, Of
    <2> QED
      BY <2>1, <2>2, <2>4, MissesKept
  <1>5. CASE EndLockout \/ EndWindow
    BY <1>5, MissesKept DEF EndLockout, EndWindow, codeVars, Missing, At, Of
  <1>6. ASSUME NEW c \in Challenges, Expire(c)
        PROVE  MissesOK'
    <2>1. \A d \in Challenges : challenges'[d].failed = challenges[d].failed
      BY <1>6 DEF Expire, LoginTypeOK, Challenge
    <2> QED
      BY <1>6, <2>1, MissesKept DEF Expire, Missing, At, Of
  <1> QED
    BY <1>1, <1>2, <1>3, <1>4, <1>5, <1>6 DEF LoginNext

(* A challenge once issued stays so, and one in no state but open is not   *)
(* opened again.                                                           *)
LEMMA StatesMoveOn ==
    ASSUME LoginTypeOK, IssuedOK, LoginNext, NEW d \in Challenges
    PROVE  /\ challenges[d].state # "unissued" => challenges'[d].state # "unissued"
           /\ challenges[d].state \notin {"unissued", "open"} =>
                 challenges'[d].state \notin {"unissued", "open"}
  <1> USE DEF LoginTypeOK, Challenge
  <1>1. CASE UNCHANGED challenges
    BY <1>1
  <1>2. ASSUME NEW r \in Requests, NEW c \in Challenges, IssueCode(r, c)
        PROVE  /\ challenges[d].state # "unissued" => challenges'[d].state # "unissued"
               /\ challenges[d].state \notin {"unissued", "open"} =>
                     challenges'[d].state \notin {"unissued", "open"}
    BY <1>2, IssueFacts DEF IssueCode
  <1>3. ASSUME NEW r \in Requests, Miss(r)
        PROVE  challenges'[d].state = challenges[d].state
    BY <1>3 DEF Miss
  <1>4. ASSUME NEW r \in Requests, Spend(r)
        PROVE  challenges'[d].state \in {challenges[d].state, "consumed"}
    BY <1>4 DEF Spend
  <1>5. ASSUME NEW c \in Challenges, Expire(c)
        PROVE  challenges'[d].state = challenges[d].state \/ challenges'[d].state = "expired"
    BY <1>5 DEF Expire
  <1>6. ASSUME NEW r \in Requests,
               \/ WithoutCode(r) \/ Weigh(r) \/ ClearOffer(r) \/ SetOffer(r) \/ WithCode(r)
               \/ Mark(r) \/ Admit(r) \/ Abandon(r) \/ Look(r) \/ Forget(r)
               \/ Fail(r) \/ ClearFailures(r) \/ ReadCode(r)
        PROVE  UNCHANGED challenges
    BY <1>6 DEF WithoutCode, Weigh, ClearOffer, SetOffer, WithCode, Mark, Admit, Abandon, Look,
                Forget, Fail, ClearFailures, ReadCode, codeVars
  <1>7. CASE EndLockout \/ EndWindow
    BY <1>1, <1>7 DEF EndLockout, EndWindow, codeVars
  <1> QED
    BY <1>1, <1>2, <1>3, <1>4, <1>5, <1>6, <1>7 DEF LoginNext

LEMMA IssuedPreserved ==
    ASSUME LoginTypeOK, IssuedOK, LoginNext
    PROVE  IssuedOK'
  <1>1. \A d \in Challenges : challenges[d].state # "unissued" => challenges'[d].state # "unissued"
    BY StatesMoveOn
  <1> DEFINE Good(q) == q.stage \in Bound =>
                           q.challenge \in Challenges /\ challenges'[q.challenge].state # "unissued"
  <1>2. \A r \in Requests : Good(requests[r])
    BY <1>1 DEF IssuedOK, Of
  <1>3. offer # None => offer.challenge \in Challenges /\ challenges'[offer.challenge].state # "unissued"
    BY <1>1 DEF IssuedOK, LoginTypeOK
  <1>4. (offer # None => challenges[offer.challenge].state # "unissued")'
    <2>1. \/ UNCHANGED offer \/ offer' = None
          \/ offer # None /\ offer' = [offer EXCEPT !.consumed = TRUE]
          \/ \E r \in Requests : At(r, "offer") /\ offer' = [challenge |-> Of(r), consumed |-> FALSE]
      BY DEF LoginNext, Look, Forget, Fail, EndLockout, EndWindow, WithoutCode, Weigh, ClearOffer,
             IssueCode, SetOffer, WithCode, ReadCode, Miss, Spend, Mark, Admit, ClearFailures,
             Abandon, Expire, codeVars
    <2>2. CASE UNCHANGED offer
      BY <1>3, <2>2
    <2>3. CASE offer # None /\ offer' = [offer EXCEPT !.consumed = TRUE]
      BY <1>3, <2>3 DEF LoginTypeOK
    <2>4. ASSUME NEW r \in Requests, At(r, "offer"), offer' = [challenge |-> Of(r), consumed |-> FALSE]
          PROVE  challenges'[offer'.challenge].state # "unissued"
      BY <1>2, <2>4 DEF At, Of, Bound
    <2> QED
      BY <2>1, <2>2, <2>3, <2>4
  <1>5. \A r \in Requests : Good(requests'[r])
    <2>1. CASE UNCHANGED requests
      BY <1>2, <2>1
    <2>2. ASSUME NEW r \in Requests, NEW c \in Challenges, IssueCode(r, c)
          PROVE  \A s \in Requests : Good(requests'[s])
      <3>1. challenges'[c].state = "open" /\ requests'[r].challenge = c
        BY <2>2, IssueFacts DEF Of
      <3> QED
        BY <1>2, <2>2, <3>1, IssueFacts
    <2>3. ASSUME NEW r \in Requests, ReadCode(r)
          PROVE  \A s \in Requests : Good(requests'[s])
      <3>1. Good(requests'[r])
        BY <1>2, <2>3, CodeFacts DEF ReadCode, At, Of, Bound
      <3> QED
        BY <1>2, <2>3, <3>1, CodeFacts
    <2>4. ASSUME NEW r \in Requests,
                 \/ WithoutCode(r) \/ Weigh(r) \/ ClearOffer(r) \/ SetOffer(r) \/ WithCode(r)
                 \/ Spend(r) \/ Mark(r) \/ Admit(r) \/ Abandon(r) \/ Look(r) \/ Forget(r)
                 \/ Fail(r) \/ ClearFailures(r) \/ Miss(r)
          PROVE  \A s \in Requests : Good(requests'[s])
      <3>1. Good(requests'[r])
        BY <1>2, <1>3, <2>4, Progress DEF Of, Bound
      <3> QED
        BY <1>2, <2>4, <3>1, Progress
    <2> QED
      BY <2>1, <2>2, <2>3, <2>4 DEF LoginNext, EndLockout, EndWindow, Expire
  <1> QED
    BY <1>4, <1>5 DEF IssuedOK, Of

LEMMA ProofsPreserved ==
    ASSUME LoginTypeOK, IssuedOK, ProofsOK, LoginNext
    PROVE  ProofsOK'
  <1> DEFINE ProofOK(d) ==
        /\ challenges[d].state \in {"unissued", "open"} =>
              /\ admitted[d] = 0
              /\ \A r \in Requests : Uses(r, d) => At(r, "spend")
        /\ d \notin shared =>
              /\ admitted[d] <= 1
              /\ \A r \in Requests : Uses(r, d) =>
                    admitted[d] = 0 /\ \A q \in Requests : Uses(q, d) => q = r
  <1> SUFFICES ASSUME NEW d \in Challenges
               PROVE  ProofOK(d)'
    BY DEF ProofsOK
  <1>0. ProofOK(d)
    BY DEF ProofsOK
  <1>1. challenges[d].state \notin {"unissued", "open"} => challenges'[d].state \notin {"unissued", "open"}
    BY StatesMoveOn
  <1>2. ASSUME UNCHANGED <<admitted, shared>>, \A s \in Requests : Uses(s, d)' => Uses(s, d) /\ UNCHANGED requests[s]
        PROVE  ProofOK(d)'
    BY <1>0, <1>1, <1>2 DEF At
  <1>3. ASSUME NEW r \in Requests, ReadCode(r)
        PROVE  ProofOK(d)'
    <2>1. /\ Valid(Of(r)) /\ UNCHANGED <<challenges, admitted>> /\ Of(r) \in Challenges /\ Of(r)' = Of(r)
          /\ \A s \in Requests : s # r => requests'[s] = requests[s]
          /\ At(r, "prove")
      BY <1>3, CodeFacts DEF ReadCode
    <2>2. CASE d # Of(r) \/ requests'[r].stage = "miss"
      <3>1. \A s \in Requests : Uses(s, d)' => Uses(s, d) /\ UNCHANGED requests[s]
        BY <2>1, <2>2 DEF Uses, Of
      <3>2. d \notin shared' => d \notin shared
        BY <1>3 DEF ReadCode
      <3> QED
        BY <1>0, <2>1, <3>1, <3>2 DEF At
    <2>3. CASE d = Of(r) /\ requests'[r].stage = "spend"
      <3>1. challenges[d].state = "open" /\ admitted[d] = 0
            /\ \A s \in Requests : Uses(s, d) => At(s, "spend")
        BY <1>0, <2>1, <2>3 DEF Valid, Usable
      <3>2. \A s \in Requests : Uses(s, d)' => s = r \/ Uses(s, d)
        BY <2>1 DEF Uses, Of
      <3>3. \A s \in Requests : Uses(s, d)' => At(s, "spend")'
        BY <2>1, <2>3, <3>1, <3>2 DEF At, Uses, Of
      <3>4. d \notin shared' => \A s \in Requests : ~ Uses(s, d)
        <4>1. shared' = IF Contended(d) THEN shared \cup {d} ELSE shared
          BY <1>3, <2>1, <2>3, EnterFacts DEF ReadCode, Stages
        <4> QED
          BY <3>1, <4>1 DEF Contended, Uses
      <3> QED
        BY <2>1, <3>1, <3>2, <3>3, <3>4
    <2> QED
      BY <1>3, <2>2, <2>3, CodeFacts
  <1>4. ASSUME NEW r \in Requests, Spend(r) \/ Mark(r)
        PROVE  ProofOK(d)'
    <2>1. /\ Of(r) \in Challenges /\ requests[r].stage \in {"spend", "mark"} /\ UNCHANGED <<admitted, shared>>
          /\ Of(r)' = Of(r) /\ requests'[r].stage \in {"mark", "admit"}
          /\ \A s \in Requests : s # r => requests'[s] = requests[s]
      BY <1>4, Progress, EnterFacts DEF Spend, Mark, At, IssuedOK, Bound, Stages, Of
    <2>2. \A s \in Requests : Uses(s, d)' <=> Uses(s, d)
      BY <2>1 DEF Uses, Of
    <2>3. CASE d = Of(r)
      <3>1. challenges'[d].state \notin {"unissued", "open"}
        <4>1. CASE Spend(r)
          BY <2>3, <4>1 DEF Spend, LoginTypeOK, Challenge
        <4>2. CASE Mark(r)
          <5>1. Uses(r, d) /\ ~ At(r, "spend")
            BY <2>3, <4>2 DEF Mark, At, Uses
          <5> QED
            BY <1>0, <1>1, <5>1
        <4> QED
          BY <1>4, <4>1, <4>2
      <3> QED
        BY <1>0, <2>1, <2>2, <3>1
    <2>4. CASE d # Of(r)
      <3>1. \A s \in Requests : Uses(s, d)' => Uses(s, d) /\ UNCHANGED requests[s]
        BY <2>1, <2>4 DEF Uses, Of
      <3> QED
        BY <1>2, <2>1, <3>1
    <2> QED
      BY <2>3, <2>4
  <1>5. ASSUME NEW r \in Requests, Admit(r)
        PROVE  ProofOK(d)'
    <2>1. /\ Of(r) \in Challenges /\ requests[r].stage = "admit" /\ UNCHANGED <<challenges, shared>>
          /\ requests'[r].stage = "admitted"
          /\ \A s \in Requests : s # r => requests'[s] = requests[s]
          /\ admitted' = [admitted EXCEPT ![Of(r)] = @ + 1]
      BY <1>5, EnterFacts DEF Admit, At, IssuedOK, Bound, Stages, Of
    <2>2. \A s \in Requests : Uses(s, d)' => Uses(s, d) /\ s # r /\ UNCHANGED requests[s]
      BY <2>1 DEF Uses, Of
    <2>3. CASE d = Of(r)
      <3>1. Uses(r, d) /\ ~ At(r, "spend")
        BY <2>1, <2>3 DEF Uses, At
      <3>2. challenges'[d].state \notin {"unissued", "open"}
        BY <1>0, <1>1, <3>1
      <3>3. d \notin shared => admitted'[d] = 1
        BY <1>0, <2>1, <2>3, <3>1 DEF LoginTypeOK
      <3> QED
        BY <1>0, <2>1, <2>2, <3>1, <3>2, <3>3
    <2>4. CASE d # Of(r)
      <3>1. admitted'[d] = admitted[d]
        BY <2>1, <2>4 DEF LoginTypeOK
      <3> QED
        BY <1>0, <1>1, <2>1, <2>2, <3>1 DEF At
    <2> QED
      BY <2>3, <2>4
  <1>6. ASSUME NEW r \in Requests, NEW c \in Challenges, IssueCode(r, c)
        PROVE  ProofOK(d)'
    <2>1. \A s \in Requests : Uses(s, d)' => Uses(s, d) /\ UNCHANGED requests[s]
      BY <1>6, IssueFacts DEF Uses, Of
    <2> QED
      BY <1>2, <1>6, <2>1 DEF IssueCode
  <1>7. ASSUME NEW r \in Requests,
               \/ WithoutCode(r) \/ Weigh(r) \/ ClearOffer(r) \/ SetOffer(r) \/ WithCode(r)
               \/ Abandon(r) \/ Look(r) \/ Forget(r) \/ Fail(r) \/ ClearFailures(r) \/ Miss(r)
        PROVE  ProofOK(d)'
    <2>1. UNCHANGED <<admitted, shared>>
      BY <1>7 DEF WithoutCode, Weigh, ClearOffer, SetOffer, WithCode, Abandon, Look, Forget, Fail,
                  ClearFailures, Miss, codeVars
    <2>2. requests'[r].stage \notin {"spend", "mark", "admit"}
      <3>1. \/ Finish(r)
            \/ \E stage \in {"forget", "checked", "clear", "issue", "weigh", "prove"},
                  c \in Challenges \cup {None} : Enter(r, stage, c)
        BY <1>7 DEF WithoutCode, Weigh, ClearOffer, SetOffer, WithCode, Abandon, Look, Forget,
                    Fail, ClearFailures, Miss, LoginTypeOK
      <3> QED
        BY <3>1, FinishFacts, EnterFacts DEF Stages
    <2>3. \A s \in Requests : s # r => requests'[s] = requests[s]
      BY <1>7, Progress
    <2>4. \A s \in Requests : Uses(s, d)' => Uses(s, d) /\ UNCHANGED requests[s]
      BY <2>2, <2>3 DEF Uses, Of
    <2> QED
      BY <1>2, <2>1, <2>4
  <1>8. CASE EndLockout \/ EndWindow \/ \E c \in Challenges : Expire(c)
    BY <1>2, <1>8 DEF EndLockout, EndWindow, Expire, codeVars, Uses, Of
  <1> QED
    BY <1>3, <1>4, <1>5, <1>6, <1>7, <1>8 DEF LoginNext

-----------------------------------------------------------------------------

LEMMA Init == LoginInit => IInv
  <1> SUFFICES ASSUME LoginInit PROVE IInv
    OBVIOUS
  <1> USE DEF LoginInit
  <1>1. LoginTypeOK
    BY DEF LoginTypeOK, Challenge
  <1>2. GuessesOK
    BY DEF GuessesOK, Locked, Counted
  <1>3. MissesOK
    <2> SUFFICES ASSUME NEW c \in Challenges
                 PROVE  challenges[c].failed + Cardinality(Missing(c))
                           < MaxAttempts + Cardinality(Requests)
      BY DEF MissesOK
    <2>1. Missing(c) = {}
      BY DEF Missing, At, Idle
    <2>2. Cardinality(Missing(c)) = 0
      BY <2>1, FS_EmptySet
    <2> QED
      BY <2>2, Sizes, LoginAssumption
  <1>4. IssuedOK
    BY DEF IssuedOK, Idle, Bound
  <1>5. ProofsOK
    BY DEF ProofsOK, Uses, Idle
  <1> QED
    BY <1>1, <1>2, <1>3, <1>4, <1>5 DEF IInv

LEMMA NextPreserves ==
    ASSUME IInv, [LoginNext]_loginVars
    PROVE  IInv'
  <1>1. CASE LoginNext
    BY <1>1, TypePreserved, GuessesPreserved, MissesPreserved, IssuedPreserved, ProofsPreserved DEF IInv
  <1>2. CASE UNCHANGED loginVars
    <2> USE <1>2 DEF IInv, loginVars, lockVars, codeVars
    <2>1. LoginTypeOK'
      BY DEF LoginTypeOK
    <2>2. GuessesOK'
      BY DEF GuessesOK, Locked, Counted, Checked, At
    <2>3. MissesOK'
      BY DEF MissesOK, Missing, At, Of
    <2>4. IssuedOK'
      BY DEF IssuedOK, Of
    <2>5. ProofsOK'
      BY DEF ProofsOK, Uses, At, Of
    <2> QED
      BY <2>1, <2>2, <2>3, <2>4, <2>5
  <1> QED
    BY <1>1, <1>2

(* The strengthened invariant is inductive.                                *)
THEOREM Inductive == LoginSpec => []IInv
  BY Init, NextPreserves, PTL DEF LoginSpec

(* Every variable keeps its type.                                          *)
THEOREM TypeCorrect == LoginSpec => []LoginTypeOK
  <1>1. IInv => LoginTypeOK
    BY DEF IInv
  <1> QED
    BY <1>1, Inductive, PTL

(* register_failed_attempt: overlapping logins guess at most once each     *)
(* beyond the threshold, but where a lockout row is forgotten.             *)
THEOREM GuessesAreLimitedHolds == LoginSpec => []GuessesAreLimited
  <1>1. IInv => GuessesAreLimited
    <2> SUFFICES ASSUME IInv, ~ forgotten
                 PROVE  guesses < MaxFailures + Cardinality(Requests)
      BY DEF GuessesAreLimited
    <2>1. guesses \in Nat /\ MaxFailures \in Nat /\ Cardinality(Requests) \in Nat
      BY Sizes, LoginAssumption DEF IInv, LoginTypeOK
    <2>2. CASE Locked
      <3>1. Checked \in SUBSET Requests
        BY DEF Checked
      <3>2. Cardinality(Checked) \in Nat
        BY <3>1, Sizes
      <3> QED
        BY <2>1, <2>2, <3>2 DEF IInv, GuessesOK
    <2>3. CASE ~ Locked
      BY <2>1, <2>3, CounterFacts DEF IInv, GuessesOK
    <2> QED
      BY <2>2, <2>3
  <1> QED
    BY <1>1, Inductive, PTL

(* _validate_and_consume_step_up_proof: a code lets one login in, but      *)
(* where two have found it right before either used it up.                 *)
THEOREM ProofAdmitsOnceHolds == LoginSpec => []ProofAdmitsOnce
  <1>1. IInv => ProofAdmitsOnce
    BY DEF IInv, ProofsOK, ProofAdmitsOnce
  <1> QED
    BY <1>1, Inductive, PTL

(* _validate_and_consume_phone_step_up: each login in flight can overrun   *)
(* the limit of wrong codes by one, whatever the number of logins.         *)
THEOREM CodesOverrunHolds == LoginSpec => []CodesOverrun
  <1>1. IInv => CodesOverrun
    <2> SUFFICES ASSUME IInv, channel = "sms", NEW c \in Challenges
                 PROVE  challenges[c].failed < MaxAttempts + Cardinality(Requests)
      BY DEF CodesOverrun
    <2>1. Missing(c) \in SUBSET Requests
      BY DEF Missing
    <2>2. Cardinality(Missing(c)) \in Nat /\ challenges[c].failed \in Nat
          /\ MaxAttempts \in Nat /\ Cardinality(Requests) \in Nat
      BY <2>1, Sizes, LoginAssumption DEF IInv, LoginTypeOK, Challenge
    <2> QED
      BY <2>2 DEF IInv, MissesOK
  <1> QED
    BY <1>1, Inductive, PTL

(* Wrong passwords and wrong codes stay within their limits and one for    *)
(* each login in flight (register_failed_attempt,                          *)
(* increment_failed_attempt_count).                                        *)
THEOREM LimitsHoldAlways == LoginSpec => []LimitsHold
  <1>1. GuessesAreLimited /\ CodesOverrun => LimitsHold
    BY DEF LimitsHold
  <1> QED
    BY <1>1, GuessesAreLimitedHolds, CodesOverrunHolds, PTL

=============================================================================
