-------------------------- MODULE ProcessingProofs --------------------------
(***************************************************************************)
(* Proofs about ProcessingWork and ProcessingDelivery for every set of     *)
(* items, workers and relays, every budget, lease length, delay and publish *)
(* limit, and for both values of FailureRowUnpacks.                        *)
(***************************************************************************)
EXTENDS ProcessingDelivery, TLAPS, SequenceTheorems, WellFoundedInduction, FiniteSetTheorems

-----------------------------------------------------------------------------
(***************************************************************************)
(* ProcessingWork.  Its invariants are not inductive by themselves: that a *)
(* late commit cannot pass the fence needs the fence to count the attempts *)
(* and every lease to name an attempt of its own, and that retry_count stays *)
(* below max_attempts needs it to stay below the number of attempts.  RowOK *)
(* says the first for one row and its history, LeasesOK the second.        *)
(***************************************************************************)

RowOK(r, o, h) ==
    /\ r.fence = Len(h)
    /\ Len(h) <= MaxAttempts + r.manualRecoveries
    /\ r.retryCount < MaxAttempts
    /\ \A n \in DOMAIN h :
          /\ h[n].fence = n
          /\ h[n].state = "running" => r.state = "leased" /\ n = Len(h)
          /\ h[n].state = "succeeded" => r.state = "succeeded" /\ n = Len(h)
    /\ r.state = "queued" =>
          /\ o.state = "queued"
          /\ r.retryCount <= Len(h)
          /\ Len(h) < MaxAttempts + r.manualRecoveries
    /\ r.state = "leased" =>
          /\ o.state = "running"
          /\ r.retryCount < Len(h)
          /\ r.current = Len(h)
          /\ h[Len(h)].state = "running"
    /\ r.state # "leased" => r.current = 0
    /\ r.state = "succeeded" =>
          /\ o.state = "succeeded"
          /\ Len(h) > 0
          /\ h[Len(h)].state = "succeeded"
    /\ o.result = IF r.state = "succeeded" THEN Len(h) ELSE 0
    /\ r.state \in {"failed", "dead_letter"} => o.state = "failed"

RowsOK == \A i \in Items : RowOK(work[i], op[i], attempts[i])

(* Every lease in a worker's hands is of an attempt no other worker holds. *)
LeasesOK ==
    /\ \A w \in Workers : Holds(w) =>
          /\ lease[w].attempt \in DOMAIN attempts[lease[w].item]
          /\ lease[w].fence = lease[w].attempt
    /\ \A v, w \in Workers :
          v # w /\ Holds(v) /\ Holds(w) /\ lease[v].item = lease[w].item =>
             lease[v].attempt # lease[w].attempt

IInv == TypeOK /\ RowsOK /\ LeasesOK

-----------------------------------------------------------------------------
(* Histories.                                                              *)

Ended == {"succeeded", "failed"}

(* Ending an attempt rewrites only that entry, and nothing but its state.  *)
LEMMA EndAttempt ==
    ASSUME NEW h \in Seq(Attempt), NEW n \in DOMAIN h,
           NEW s \in Ended
    PROVE  LET g == [h EXCEPT ![n].state = s]
           IN  /\ g \in Seq(Attempt)
               /\ Len(g) = Len(h) /\ DOMAIN g = DOMAIN h
               /\ \A k \in DOMAIN h : g[k].fence = h[k].fence
               /\ \A k \in DOMAIN h : g[k].state = IF k = n THEN s ELSE h[k].state
  <1> DEFINE e == [h[n] EXCEPT !.state = s]
             g == [h EXCEPT ![n] = e]
  <1>1. h[n] \in Attempt /\ \A k \in DOMAIN h : h[k] \in Attempt
    BY ElementOfSeq, LenProperties
  <1>2. e \in Attempt /\ e.fence = h[n].fence /\ e.state = s
    BY <1>1 DEF Attempt, Ended
  <1>3. g \in Seq(Attempt) /\ Len(g) = Len(h) /\ DOMAIN g = DOMAIN h
    BY <1>2, ExceptSeq, LenProperties
  <1>4. \A k \in DOMAIN h : g[k] = IF k = n THEN e ELSE h[k]
    BY LenProperties
  <1> HIDE DEF e
  <1> QED
    BY <1>2, <1>3, <1>4 DEF e

(* A checkpoint rewrites only the sequence of its attempt.                 *)
LEMMA WriteCheckpoint ==
    ASSUME NEW h \in Seq(Attempt), NEW n \in DOMAIN h, NEW c \in Nat
    PROVE  LET g == [h EXCEPT ![n].checkpoint = c]
           IN  /\ g \in Seq(Attempt)
               /\ Len(g) = Len(h) /\ DOMAIN g = DOMAIN h
               /\ \A k \in DOMAIN h : g[k].fence = h[k].fence /\ g[k].state = h[k].state
  <1> DEFINE e == [h[n] EXCEPT !.checkpoint = c]
             g == [h EXCEPT ![n] = e]
  <1>1. h[n] \in Attempt
    BY ElementOfSeq, LenProperties
  <1>2. e \in Attempt /\ e.fence = h[n].fence /\ e.state = h[n].state
    BY <1>1 DEF Attempt
  <1>3. g \in Seq(Attempt) /\ Len(g) = Len(h) /\ DOMAIN g = DOMAIN h
    BY <1>2, ExceptSeq, LenProperties
  <1>4. \A k \in DOMAIN h : g[k] = IF k = n THEN e ELSE h[k]
    BY LenProperties
  <1> HIDE DEF e
  <1> QED
    BY <1>2, <1>3, <1>4 DEF e

(* A claim appends one running attempt.                                    *)
LEMMA NewAttempt ==
    ASSUME NEW h \in Seq(Attempt), NEW t \in Nat
    PROVE  LET g == Append(h, [state |-> "running", fence |-> t, checkpoint |-> 0])
           IN  /\ g \in Seq(Attempt)
               /\ Len(g) = Len(h) + 1
               /\ DOMAIN g = DOMAIN h \cup {Len(h) + 1}
               /\ \A k \in DOMAIN h : g[k] = h[k]
               /\ g[Len(h) + 1] = [state |-> "running", fence |-> t, checkpoint |-> 0]
  BY DEF Attempt

-----------------------------------------------------------------------------
(* Rows.                                                                   *)

Failure == {"lease_expired", "retryable", "permanent"}

(* Writing a column with a value of its type leaves a well-typed row.      *)
LEMMA Columns ==
    ASSUME NEW r \in Work
    PROVE  /\ \A v \in WorkState : [r EXCEPT !.state = v] \in Work
           /\ \A v \in Nat : [r EXCEPT !.fence = v] \in Work
           /\ \A v \in Nat : [r EXCEPT !.current = v] \in Work
           /\ \A v \in 0..LeaseTicks : [r EXCEPT !.leaseLeft = v] \in Work
           /\ \A v \in 0..MaxDelay : [r EXCEPT !.wait = v] \in Work
           /\ \A v \in NotStarted..(MaxElapsed + 1) : [r EXCEPT !.elapsed = v] \in Work
           /\ \A v \in Nat : [r EXCEPT !.retryCount = v] \in Work
           /\ \A v \in Nat : [r EXCEPT !.manualRecoveries = v] \in Work
           /\ \A v \in Failure \cup {"none"} : [r EXCEPT !.category = v] \in Work
  BY DEF Work, Failure

(* What releasing and requeueing a row do to its columns.                  *)
LEMMA ReleasedRow ==
    ASSUME NEW r \in Work, NEW s \in WorkState, NEW c \in Failure \cup {"none"}
    PROVE  LET q == Released(r, s, c)
           IN  /\ q \in Work
               /\ q.state = s /\ q.current = 0 /\ q.fence = r.fence
               /\ q.retryCount = r.retryCount /\ q.manualRecoveries = r.manualRecoveries
  <1> DEFINE p1 == [r EXCEPT !.state = s]
             p2 == [p1 EXCEPT !.category = c]
             p3 == [p2 EXCEPT !.current = 0]
             p4 == [p3 EXCEPT !.leaseLeft = 0]
  <1>0. 0 \in 0..LeaseTicks
    BY ConstantsAssumption
  <1>1. p1 \in Work
    BY Columns
  <1>2. p2 \in Work
    <2> HIDE DEF p1
    <2> QED BY <1>1, Columns
  <1>3. p3 \in Work
    <2> HIDE DEF p2
    <2> QED BY <1>2, Columns
  <1>4. p4 \in Work
    <2> HIDE DEF p3
    <2> QED BY <1>0, <1>3, Columns
  <1>5. Released(r, s, c) = p4
    BY DEF Released
  <1>6. /\ p4.state = s /\ p4.current = 0 /\ p4.fence = r.fence
        /\ p4.retryCount = r.retryCount /\ p4.manualRecoveries = r.manualRecoveries
    BY DEF Work
  <1> HIDE DEF p4
  <1> QED
    BY <1>4, <1>5, <1>6

LEMMA RequeuedRow ==
    ASSUME NEW r \in Work, NEW d \in 0..MaxDelay, NEW c \in Failure
    PROVE  LET q == Requeued(r, d, c)
           IN  /\ q \in Work
               /\ q.state = "queued" /\ q.current = 0 /\ q.fence = r.fence
               /\ q.retryCount = r.retryCount + 1 /\ q.manualRecoveries = r.manualRecoveries
  <1> DEFINE p == Released(r, "queued", c)
             p1 == [p EXCEPT !.wait = d]
             p2 == [p1 EXCEPT !.retryCount = @ + 1]
  <1>1. /\ p \in Work
        /\ p.state = "queued" /\ p.current = 0 /\ p.fence = r.fence
        /\ p.retryCount = r.retryCount /\ p.manualRecoveries = r.manualRecoveries
    BY ReleasedRow DEF WorkState
  <1>2. Requeued(r, d, c) = p2
    BY DEF Requeued
  <1> HIDE DEF p
  <1>3. p1 \in Work
    BY <1>1, Columns
  <1>4. p2 \in Work
    <2>1. p1.retryCount + 1 \in Nat
      BY <1>3 DEF Work
    <2> HIDE DEF p1
    <2> QED BY <2>1, <1>3, Columns
  <1>5. /\ p2.state = "queued" /\ p2.current = 0 /\ p2.fence = r.fence
        /\ p2.retryCount = r.retryCount + 1 /\ p2.manualRecoveries = r.manualRecoveries
    BY <1>1 DEF Work
  <1> HIDE DEF p2
  <1> QED
    BY <1>2, <1>4, <1>5
(* Ending the attempt of a leased row within its budget requeues it.       *)
LEMMA RequeueRow ==
    ASSUME NEW r \in Work, NEW o \in Operation, NEW h \in Seq(Attempt),
           RowOK(r, o, h), r.state = "leased", r.current < MaxAttempts,
           NEW d \in 0..MaxDelay, NEW c \in Failure
    PROVE  /\ Requeued(r, d, c) \in Work
           /\ [h EXCEPT ![r.current].state = "failed"] \in Seq(Attempt)
           /\ RowOK(Requeued(r, d, c), [o EXCEPT !.state = "queued"],
                    [h EXCEPT ![r.current].state = "failed"])
  <1> DEFINE g == [h EXCEPT ![r.current].state = "failed"]
             q == Requeued(r, d, c)
  <1>0. /\ Len(h) \in Nat /\ DOMAIN h = 1..Len(h)
        /\ MaxAttempts \in Nat
    BY LenProperties, ConstantsAssumption
  <1>1. r.current \in DOMAIN h /\ r.current = Len(h)
    BY <1>0 DEF RowOK, Work
  <1>2. /\ g \in Seq(Attempt)
        /\ Len(g) = Len(h) /\ DOMAIN g = DOMAIN h
        /\ \A k \in DOMAIN h : g[k].fence = h[k].fence
        /\ \A k \in DOMAIN h : g[k].state = IF k = r.current THEN "failed" ELSE h[k].state
    BY <1>1, EndAttempt DEF Ended
  <1>3. /\ q \in Work /\ q.state = "queued" /\ q.current = 0 /\ q.fence = r.fence
        /\ q.retryCount = r.retryCount + 1 /\ q.manualRecoveries = r.manualRecoveries
    BY RequeuedRow
  <1> DEFINE p == [o EXCEPT !.state = "queued"]
  <1>4. p.state = "queued" /\ p.result = o.result
    BY DEF Operation
  <1>5. r.retryCount \in Nat /\ r.manualRecoveries \in Nat
    BY DEF Work
  <1> HIDE DEF g, q, p
  <1>6. \A n \in DOMAIN g : g[n].fence = n /\ g[n].state \notin {"running", "succeeded"}
    BY <1>0, <1>1, <1>2 DEF RowOK
  <1>7. RowOK(q, p, g)
    BY <1>0, <1>1, <1>2, <1>3, <1>4, <1>5, <1>6 DEF RowOK
  <1> QED
    BY <1>2, <1>3, <1>7 DEF g, q, p

(* Ending it for good releases the row into the matching settled state.    *)
LEMMA SettleRow ==
    ASSUME NEW r \in Work, NEW o \in Operation, NEW h \in Seq(Attempt),
           RowOK(r, o, h), r.state = "leased",
           NEW s \in {"succeeded", "failed", "dead_letter"},
           NEW e \in Ended, (s = "succeeded") <=> (e = "succeeded"),
           NEW c \in Failure \cup {"none"},
           NEW p \in Operation,
           s = "succeeded" => p = [state |-> "succeeded", result |-> r.current],
           s # "succeeded" => p = [o EXCEPT !.state = "failed"]
    PROVE  /\ Released(r, s, c) \in Work
           /\ [h EXCEPT ![r.current].state = e] \in Seq(Attempt)
           /\ RowOK(Released(r, s, c), p, [h EXCEPT ![r.current].state = e])
  <1> DEFINE g == [h EXCEPT ![r.current].state = e]
             q == Released(r, s, c)
  <1>0. /\ Len(h) \in Nat /\ DOMAIN h = 1..Len(h)
        /\ r.retryCount \in Nat /\ r.manualRecoveries \in Nat
    BY LenProperties DEF Work
  <1>1. r.current \in DOMAIN h /\ r.current = Len(h)
    BY <1>0 DEF RowOK
  <1>2. /\ g \in Seq(Attempt)
        /\ Len(g) = Len(h) /\ DOMAIN g = DOMAIN h
        /\ \A k \in DOMAIN h : g[k].fence = h[k].fence
        /\ \A k \in DOMAIN h : g[k].state = IF k = r.current THEN e ELSE h[k].state
    BY <1>1, EndAttempt
  <1>3. /\ q \in Work /\ q.state = s /\ q.current = 0 /\ q.fence = r.fence
        /\ q.retryCount = r.retryCount /\ q.manualRecoveries = r.manualRecoveries
    <2>1. s \in WorkState
      BY DEF WorkState
    <2> QED
      BY <2>1, ReleasedRow
  <1>4. /\ p.state = IF s = "succeeded" THEN "succeeded" ELSE "failed"
        /\ p.result = IF s = "succeeded" THEN r.current ELSE o.result
    BY DEF Operation
  <1> HIDE DEF g, q
  <1>5. \A n \in DOMAIN g :
           /\ g[n].fence = n
           /\ g[n].state # "running"
           /\ g[n].state = "succeeded" => s = "succeeded" /\ n = Len(g)
    BY <1>0, <1>1, <1>2 DEF RowOK, Ended
  <1>6. RowOK(q, p, g)
    BY <1>0, <1>1, <1>2, <1>3, <1>4, <1>5 DEF RowOK, Ended
  <1> QED
    BY <1>2, <1>3, <1>6 DEF g, q

(* What a claim does to the columns of the row.                            *)
LEMMA ClaimedRow ==
    ASSUME NEW r \in Work, NEW n \in Nat
    PROVE  LET q == Leased(r, n, r.fence + 1)
           IN  /\ q \in Work
               /\ q.state = "leased" /\ q.fence = r.fence + 1 /\ q.current = n
               /\ q.retryCount = r.retryCount /\ q.manualRecoveries = r.manualRecoveries
  <1> DEFINE p1 == [r EXCEPT !.state = "leased"]
             p2 == [p1 EXCEPT !.fence = r.fence + 1]
             p3 == [p2 EXCEPT !.current = n]
             p4 == [p3 EXCEPT !.leaseLeft = LeaseTicks]
             started == IF r.elapsed = NotStarted THEN 0 ELSE r.elapsed
             p5 == [p4 EXCEPT !.elapsed = started]
             q == Leased(r, n, r.fence + 1)
  <1>0. LeaseTicks \in 0..LeaseTicks /\ MaxElapsed \in Nat
    BY ConstantsAssumption
  <1>1. p1 \in Work
    BY Columns DEF WorkState
  <1>2. p2 \in Work
    <2>1. r.fence + 1 \in Nat
      BY DEF Work
    <2> HIDE DEF p1
    <2> QED BY <1>1, <2>1, Columns
  <1>3. p3 \in Work
    <2> HIDE DEF p2
    <2> QED BY <1>2, Columns
  <1>4. p4 \in Work
    <2> HIDE DEF p3
    <2> QED BY <1>0, <1>3, Columns
  <1>5. p5 \in Work
    <2>1. started \in NotStarted..(MaxElapsed + 1)
      BY <1>0 DEF Work, NotStarted
    <2> HIDE DEF p4, started
    <2> QED BY <1>4, <2>1, Columns
  <1>6. q = p5
    BY DEF Leased
  <1>7. /\ p5.state = "leased" /\ p5.fence = r.fence + 1 /\ p5.current = n
        /\ p5.retryCount = r.retryCount /\ p5.manualRecoveries = r.manualRecoveries
    BY DEF Work
  <1> HIDE DEF p5
  <1> QED
    BY <1>5, <1>6, <1>7

(* A claim of a queued row keeps it within its budget.                     *)
LEMMA ClaimRow ==
    ASSUME NEW r \in Work, NEW o \in Operation, NEW h \in Seq(Attempt),
           RowOK(r, o, h), r.state = "queued"
    PROVE  LET q == Leased(r, Len(h) + 1, r.fence + 1)
               g == Append(h, [state |-> "running", fence |-> r.fence + 1, checkpoint |-> 0])
           IN  /\ q \in Work
               /\ g \in Seq(Attempt)
               /\ RowOK(q, [o EXCEPT !.state = "running"], g)
  <1> DEFINE q == Leased(r, Len(h) + 1, r.fence + 1)
             g == Append(h, [state |-> "running", fence |-> r.fence + 1, checkpoint |-> 0])
  <1>1. /\ Len(h) \in Nat /\ DOMAIN h = 1..Len(h)
        /\ MaxAttempts \in Nat
    BY LenProperties, ConstantsAssumption
  <1>2. /\ q \in Work
        /\ q.state = "leased" /\ q.fence = r.fence + 1 /\ q.current = Len(h) + 1
        /\ q.retryCount = r.retryCount /\ q.manualRecoveries = r.manualRecoveries
    <2>1. Len(h) + 1 \in Nat
      BY <1>1
    <2> QED
      BY <2>1, ClaimedRow
  <1>3. /\ g \in Seq(Attempt)
        /\ Len(g) = Len(h) + 1
        /\ DOMAIN g = DOMAIN h \cup {Len(h) + 1}
        /\ \A k \in DOMAIN h : g[k] = h[k]
        /\ g[Len(h) + 1] = [state |-> "running", fence |-> r.fence + 1, checkpoint |-> 0]
    <2>1. r.fence + 1 \in Nat
      BY DEF Work
    <2> QED
      BY <2>1, NewAttempt
  <1> DEFINE p == [o EXCEPT !.state = "running"]
  <1>4. /\ p.state = "running" /\ p.result = o.result
        /\ r.retryCount \in Nat /\ r.manualRecoveries \in Nat
    BY DEF Operation, Work
  <1> HIDE DEF q, g, p
  <1>5. \A n \in DOMAIN g :
           /\ g[n].fence = n
           /\ g[n].state = "running" => n = Len(g)
           /\ g[n].state # "succeeded"
    BY <1>1, <1>3 DEF RowOK
  <1>6. RowOK(q, p, g)
    BY <1>1, <1>2, <1>3, <1>4, <1>5 DEF RowOK
  <1> QED
    BY <1>2, <1>3, <1>6 DEF q, g, p

(* An operator's recovery opens the budget by one attempt.                 *)
LEMMA RecoverRow ==
    ASSUME NEW r \in Work, NEW o \in Operation, NEW h \in Seq(Attempt),
           RowOK(r, o, h), r.state = "dead_letter"
    PROVE  LET q == [r EXCEPT !.state = "queued", !.retryCount = 0, !.elapsed = NotStarted,
                              !.wait = 0, !.manualRecoveries = r.manualRecoveries + 1]
           IN  q \in Work /\ RowOK(q, [o EXCEPT !.state = "queued"], h)
  <1> DEFINE p1 == [r EXCEPT !.state = "queued"]
             p2 == [p1 EXCEPT !.retryCount = 0]
             p3 == [p2 EXCEPT !.elapsed = NotStarted]
             p4 == [p3 EXCEPT !.wait = 0]
             q == [p4 EXCEPT !.manualRecoveries = r.manualRecoveries + 1]
             p == [o EXCEPT !.state = "queued"]
  <1>0. /\ Len(h) \in Nat /\ DOMAIN h = 1..Len(h)
        /\ MaxAttempts \in Nat \ {0} /\ MaxElapsed \in Nat /\ 0 \in 0..MaxDelay
        /\ r.retryCount \in Nat /\ r.manualRecoveries \in Nat
    BY LenProperties, ConstantsAssumption DEF Work
  <1>1. p1 \in Work
    BY Columns DEF WorkState
  <1>2. p2 \in Work
    <2> HIDE DEF p1
    <2> QED BY <1>1, Columns
  <1>3. p3 \in Work
    <2>1. NotStarted \in NotStarted..(MaxElapsed + 1)
      BY <1>0 DEF NotStarted
    <2> HIDE DEF p2
    <2> QED BY <1>2, <2>1, Columns
  <1>4. p4 \in Work
    <2> HIDE DEF p3
    <2> QED BY <1>0, <1>3, Columns
  <1>5. q \in Work
    <2>1. r.manualRecoveries + 1 \in Nat
      BY <1>0
    <2> HIDE DEF p4
    <2> QED BY <1>4, <2>1, Columns
  <1>6. /\ q.state = "queued" /\ q.current = r.current /\ q.fence = r.fence
        /\ q.retryCount = 0 /\ q.manualRecoveries = r.manualRecoveries + 1
        /\ p.state = "queued" /\ p.result = o.result
    BY DEF Work, Operation
  <1> HIDE DEF q, p
  <1>7. RowOK(q, p, h)
    BY <1>0, <1>6 DEF RowOK
  <1> QED
    BY <1>5, <1>7 DEF q, p

(* Neither a renewal, nor the clock, nor a checkpoint touches what RowOK   *)
(* speaks about.                                                           *)
LEMMA SameRow ==
    ASSUME NEW r, NEW q, NEW o, NEW h, NEW g, RowOK(r, o, h),
           q.state = r.state, q.fence = r.fence, q.current = r.current,
           q.retryCount = r.retryCount, q.manualRecoveries = r.manualRecoveries,
           Len(g) = Len(h), DOMAIN g = DOMAIN h,
           Len(h) \in Nat, DOMAIN h = 1..Len(h), r.retryCount \in Nat,
           \A k \in DOMAIN h : g[k].fence = h[k].fence /\ g[k].state = h[k].state
    PROVE  RowOK(q, o, g)
  <1>1. r.state = "leased" => Len(h) \in DOMAIN h
    BY DEF RowOK
  <1>2. r.state = "succeeded" => Len(h) \in DOMAIN h
    BY DEF RowOK
  <1> QED
    BY <1>1, <1>2 DEF RowOK

LEMMA AgedRow ==
    ASSUME NEW r \in Work
    PROVE  LET q == Aged(r)
           IN  /\ q \in Work
               /\ q.state = r.state /\ q.fence = r.fence /\ q.current = r.current
               /\ q.retryCount = r.retryCount /\ q.manualRecoveries = r.manualRecoveries
  <1> DEFINE left == IF r.leaseLeft = 0 THEN 0 ELSE r.leaseLeft - 1
             wait == IF r.wait = 0 THEN 0 ELSE r.wait - 1
             age == IF r.elapsed = NotStarted \/ r.elapsed = MaxElapsed + 1
                    THEN r.elapsed ELSE r.elapsed + 1
             p1 == [r EXCEPT !.leaseLeft = left]
             p2 == [p1 EXCEPT !.wait = wait]
             q == [p2 EXCEPT !.elapsed = age]
  <1>1. LeaseTicks \in Nat /\ MaxDelay \in Nat /\ MaxElapsed \in Nat
    BY ConstantsAssumption
  <1>2. /\ left \in 0..LeaseTicks /\ wait \in 0..MaxDelay
        /\ age \in NotStarted..(MaxElapsed + 1)
    BY <1>1 DEF Work, NotStarted
  <1>3. Aged(r) = q
    BY DEF Aged
  <1> HIDE DEF left, wait, age
  <1>4. p1 \in Work
    BY <1>2, Columns
  <1>5. p2 \in Work
    <2> HIDE DEF p1
    <2> QED BY <1>2, <1>4, Columns
  <1>6. q \in Work
    <2> HIDE DEF p2
    <2> QED BY <1>2, <1>5, Columns
  <1>7. /\ q.state = r.state /\ q.fence = r.fence /\ q.current = r.current
        /\ q.retryCount = r.retryCount /\ q.manualRecoveries = r.manualRecoveries
    BY DEF Work
  <1> HIDE DEF q
  <1> QED
    BY <1>3, <1>6, <1>7

-----------------------------------------------------------------------------
(* Tables.                                                                 *)

RowTypes ==
    /\ work \in [Items -> Work]
    /\ op \in [Items -> Operation]
    /\ attempts \in [Items -> Seq(Attempt)]

OtherTypes ==
    /\ intents \in [Items -> SUBSET Intent]
    /\ deadLetters \in [Items -> SUBSET Nat]
    /\ standing \in [Items -> {"eligible", "trashed", "superseded"}]
    /\ lease \in [Workers -> Lease]

(* A transaction on one item leaves all rows right when it leaves its own  *)
(* right.                                                                  *)
LEMMA OneRow ==
    ASSUME RowTypes, RowsOK, NEW i \in Items,
           NEW q \in Work, NEW p \in Operation, NEW g \in Seq(Attempt), RowOK(q, p, g),
           work' = [work EXCEPT ![i] = q],
           op' = [op EXCEPT ![i] = p],
           attempts' = [attempts EXCEPT ![i] = g]
    PROVE  RowTypes' /\ RowsOK'
  <1>1. RowTypes'
    BY DEF RowTypes
  <1>2. ASSUME NEW j \in Items PROVE RowOK(work'[j], op'[j], attempts'[j])
    <2>1. CASE j = i
      <3>1. work'[j] = q /\ op'[j] = p /\ attempts'[j] = g
        BY <2>1 DEF RowTypes
      <3> QED
        BY <3>1
    <2>2. CASE j # i
      <3>1. work'[j] = work[j] /\ op'[j] = op[j] /\ attempts'[j] = attempts[j]
        BY <2>2 DEF RowTypes
      <3> QED
        BY <3>1 DEF RowsOK
    <2> QED
      BY <2>1, <2>2
  <1> QED
    BY <1>1, <1>2 DEF RowsOK

(* Leases stay apart while histories only grow and workers only let go.    *)
LEMMA LeasesKept ==
    ASSUME OtherTypes, LeasesOK, lease' \in [Workers -> Lease],
           \A w \in Workers : lease'[w] \in {lease[w], NoLease},
           \A i \in Items : DOMAIN attempts[i] \subseteq DOMAIN attempts'[i]
    PROVE  LeasesOK'
  <1>1. \A w \in Workers : Holds(w)' => Holds(w) /\ lease'[w] = lease[w]
    BY DEF Holds, NoLease
  <1>2. \A w \in Workers : Holds(w) => lease[w].item \in Items
    BY DEF OtherTypes, Lease, Holds
  <1> QED
    BY <1>1, <1>2 DEF LeasesOK

LEMMA DropLeaseType ==
    ASSUME OtherTypes, NEW w \in Workers, DropLease(w)
    PROVE  /\ lease' \in [Workers -> Lease]
           /\ \A v \in Workers : lease'[v] \in {lease[v], NoLease}
  <1>1. NoLease \in Lease
    BY DEF NoLease, Lease
  <1> QED
    BY <1>1 DEF DropLease, OtherTypes

(* What a worker that passes the fence knows about its item.               *)
LEMMA LiveLease ==
    ASSUME RowTypes, OtherTypes, RowsOK, NEW w \in Workers, HoldsLiveLease(w)
    PROVE  /\ lease[w].item \in Items
           /\ work[lease[w].item] \in Work
           /\ op[lease[w].item] \in Operation
           /\ attempts[lease[w].item] \in Seq(Attempt)
           /\ RowOK(work[lease[w].item], op[lease[w].item], attempts[lease[w].item])
           /\ work[lease[w].item].state = "leased"
           /\ lease[w].attempt = work[lease[w].item].current
           /\ lease[w].attempt \in DOMAIN attempts[lease[w].item]
  <1> DEFINE i == lease[w].item
  <1>1. i \in Items
    BY DEF HoldsLiveLease, Holds, OtherTypes, Lease
  <1>2. work[i] \in Work /\ op[i] \in Operation /\ attempts[i] \in Seq(Attempt)
    BY <1>1 DEF RowTypes
  <1>3. RowOK(work[i], op[i], attempts[i])
    BY <1>1 DEF RowsOK
  <1>4. work[i].state = "leased" /\ lease[w].attempt = work[i].current
    BY DEF HoldsLiveLease
  <1>5. Len(attempts[i]) \in Nat /\ DOMAIN attempts[i] = 1..Len(attempts[i])
    BY <1>2, LenProperties
  <1>6. lease[w].attempt \in DOMAIN attempts[i]
    BY <1>2, <1>3, <1>4, <1>5 DEF RowOK, Work
  <1> QED
    BY <1>1, <1>2, <1>3, <1>4, <1>6

LEMMA TypeParts == TypeOK <=> RowTypes /\ OtherTypes
  BY DEF TypeOK, RowTypes, OtherTypes

-----------------------------------------------------------------------------
(* One lemma per action: the invariant survives it.                        *)

LEMMA InitEstablishes == Init => IInv
  <1> SUFFICES ASSUME Init PROVE IInv
    OBVIOUS
  <1>0. /\ MaxAttempts \in Nat \ {0} /\ MaxElapsed \in Nat
        /\ 0 \in 0..MaxDelay /\ 0 \in 0..LeaseTicks
    BY ConstantsAssumption
  <1>1. ASSUME NEW i \in Items
        PROVE  /\ work[i] \in Work /\ op[i] \in Operation /\ attempts[i] = <<>>
               /\ RowOK(work[i], op[i], attempts[i])
    <2>1. work[i] \in Work
      BY <1>0 DEF Init, Work, WorkState, NotStarted
    <2>2. op[i] \in Operation /\ attempts[i] = <<>>
      BY DEF Init, Operation
    <2>3. /\ work[i].state = "queued" /\ work[i].fence = 0 /\ work[i].current = 0
          /\ work[i].retryCount = 0 /\ work[i].manualRecoveries = 0
          /\ op[i].state = "queued" /\ op[i].result = 0
          /\ Len(attempts[i]) = 0 /\ DOMAIN attempts[i] = {}
      BY DEF Init
    <2>4. RowOK(work[i], op[i], attempts[i])
      BY <1>0, <2>3 DEF RowOK
    <2> QED
      BY <2>1, <2>2, <2>4
  <1>2. RowTypes
    <2>1. work = [i \in Items |-> work[i]] /\ op = [i \in Items |-> op[i]]
          /\ attempts = [i \in Items |-> attempts[i]]
      BY DEF Init
    <2>2. <<>> \in Seq(Attempt)
      OBVIOUS
    <2> QED
      BY <1>1, <2>1, <2>2 DEF RowTypes
  <1>3. OtherTypes
    BY DEF Init, OtherTypes, Intent, NoLease, Lease
  <1>4. LeasesOK
    BY DEF Init, LeasesOK, Holds, NoLease
  <1> QED
    BY <1>1, <1>2, <1>3, <1>4, TypeParts DEF IInv, RowsOK

LEMMA ClaimPreserves ==
    ASSUME IInv, NEW w \in Workers, NEW i \in Items, Claim(w, i)
    PROVE  IInv'
  <1> DEFINE h == attempts[i]
             q == Leased(work[i], Len(h) + 1, work[i].fence + 1)
             p == [op[i] EXCEPT !.state = "running"]
             g == Append(h, [state |-> "running", fence |-> work[i].fence + 1,
                             checkpoint |-> 0])
  <1>0. RowTypes /\ OtherTypes /\ RowsOK /\ LeasesOK
    BY TypeParts DEF IInv
  <1>1. /\ work[i] \in Work /\ op[i] \in Operation /\ h \in Seq(Attempt)
        /\ RowOK(work[i], op[i], h) /\ work[i].state = "queued"
    BY <1>0 DEF RowTypes, RowsOK, Claim, Claimable
  <1>2. q \in Work /\ g \in Seq(Attempt) /\ RowOK(q, p, g)
    BY <1>1, ClaimRow
  <1>3. p \in Operation
    BY <1>1 DEF Operation
  <1>4. /\ work' = [work EXCEPT ![i] = q]
        /\ op' = [op EXCEPT ![i] = p]
        /\ attempts' = [attempts EXCEPT ![i] = g]
    BY DEF Claim
  <1>5. RowTypes' /\ RowsOK'
    <2> HIDE DEF q, p, g
    <2> QED
      BY <1>0, <1>2, <1>3, <1>4, OneRow
  <1>6. /\ Len(h) \in Nat /\ DOMAIN h = 1..Len(h) /\ DOMAIN g = DOMAIN h \cup {Len(h) + 1}
        /\ work[i].fence = Len(h)
    <2>1. work[i].fence + 1 \in Nat
      BY <1>1 DEF Work
    <2> QED
      BY <1>1, <2>1, LenProperties, NewAttempt DEF RowOK
  <1> DEFINE l == [item |-> i, attempt |-> Len(h) + 1, fence |-> work[i].fence + 1]
  <1>7. l \in Lease /\ lease' = [lease EXCEPT ![w] = l]
    BY <1>1, <1>6 DEF Claim, Lease, Work
  <1>8. OtherTypes'
    <2> HIDE DEF l
    <2> QED
      BY <1>0, <1>7 DEF OtherTypes, Claim
  <1>9. LeasesOK'
    <2>1. \A j \in Items : DOMAIN attempts[j] \subseteq DOMAIN attempts'[j]
      <3> HIDE DEF g
      <3> QED
        BY <1>0, <1>4, <1>6 DEF RowTypes
    <2>2. attempts'[i] = g /\ lease'[w] = l /\ \A v \in Workers \ {w} : lease'[v] = lease[v]
      <3> HIDE DEF l, g
      <3> QED
        BY <1>0, <1>4, <1>7 DEF RowTypes, OtherTypes
    <2>3. l.item = i /\ l.attempt = Len(h) + 1 /\ l.fence = Len(h) + 1
      BY <1>6
    <2>4. Len(h) + 1 \notin DOMAIN h /\ Len(h) + 1 \in DOMAIN g
      <3> HIDE DEF h, g
      <3> QED
        BY <1>6
    <2>5. \A v \in Workers : Holds(v) => lease[v].item \in Items
      BY <1>0 DEF OtherTypes, Lease, Holds
    <2> HIDE DEF l, g, h
    <2>6. ASSUME NEW v \in Workers, Holds(v)'
          PROVE  /\ lease'[v].attempt \in DOMAIN attempts'[lease'[v].item]
                 /\ lease'[v].fence = lease'[v].attempt
      <3>1. CASE v = w
        BY <2>2, <2>3, <2>4, <3>1
      <3>2. CASE v # w
        BY <1>0, <2>1, <2>2, <2>5, <2>6, <3>2 DEF LeasesOK, Holds
      <3> QED
        BY <3>1, <3>2
    <2>7. ASSUME NEW v \in Workers, v # w, Holds(v), lease[v].item = i
          PROVE  lease[v].attempt # Len(h) + 1
      BY <1>0, <2>4, <2>7 DEF LeasesOK, h
    <2>8. ASSUME NEW u \in Workers, NEW v \in Workers, u # v, Holds(u)', Holds(v)',
                 lease'[u].item = lease'[v].item
          PROVE  lease'[u].attempt # lease'[v].attempt
      <3>1. CASE u = w
        BY <2>2, <2>3, <2>7, <2>8, <3>1 DEF Holds
      <3>2. CASE v = w
        BY <2>2, <2>3, <2>7, <2>8, <3>2 DEF Holds
      <3>3. CASE u # w /\ v # w
        BY <1>0, <2>2, <2>8, <3>3 DEF LeasesOK, Holds
      <3> QED
        BY <3>1, <3>2, <3>3
    <2> QED
      BY <2>6, <2>8 DEF LeasesOK
  <1> QED
    BY <1>5, <1>8, <1>9, TypeParts DEF IInv, TypeOK, RowTypes, OtherTypes

LEMMA SettleAttemptPreserves ==
    ASSUME IInv, NEW w \in Workers, HoldsLiveLease(w), DropLease(w),
           NEW q \in Work, NEW p \in Operation, NEW e \in Ended,
           RowOK(q, p, [attempts[lease[w].item] EXCEPT ![lease[w].attempt].state = e]),
           work' = [work EXCEPT ![lease[w].item] = q],
           op' = [op EXCEPT ![lease[w].item] = p],
           attempts' = [attempts EXCEPT ![lease[w].item] =
                           [@ EXCEPT ![lease[w].attempt].state = e]],
           intents' \in [Items -> SUBSET Intent],
           deadLetters' \in [Items -> SUBSET Nat],
           standing' = standing
    PROVE  IInv'
  <1> DEFINE i == lease[w].item
             g == [attempts[i] EXCEPT ![lease[w].attempt].state = e]
  <1>0. RowTypes /\ OtherTypes /\ RowsOK /\ LeasesOK
    BY TypeParts DEF IInv
  <1>1. i \in Items /\ attempts[i] \in Seq(Attempt) /\ lease[w].attempt \in DOMAIN attempts[i]
    BY <1>0, LiveLease
  <1>2. g \in Seq(Attempt) /\ DOMAIN g = DOMAIN attempts[i]
    BY <1>1, EndAttempt
  <1>3. attempts' = [attempts EXCEPT ![i] = g]
    OBVIOUS
  <1>4. RowTypes' /\ RowsOK'
    <2> HIDE DEF g, i
    <2>1. RowOK(q, p, g) /\ work' = [work EXCEPT ![i] = q] /\ op' = [op EXCEPT ![i] = p]
      BY DEF g, i
    <2> QED
      BY <1>0, <1>1, <1>2, <1>3, <2>1, OneRow
  <1>5. /\ lease' \in [Workers -> Lease]
        /\ \A v \in Workers : lease'[v] \in {lease[v], NoLease}
    BY <1>0, DropLeaseType
  <1>6. \A j \in Items : DOMAIN attempts[j] \subseteq DOMAIN attempts'[j]
    <2> HIDE DEF g, i
    <2> QED
      BY <1>0, <1>2, <1>3 DEF RowTypes
  <1>7. LeasesOK'
    BY <1>0, <1>5, <1>6, LeasesKept
  <1>8. OtherTypes'
    BY <1>0, <1>5 DEF OtherTypes
  <1> QED
    BY <1>4, <1>7, <1>8, TypeParts DEF IInv, TypeOK, RowTypes, OtherTypes

(* A worker that only lets go of its lease.                                *)
LEMMA LetGoPreserves ==
    ASSUME IInv, NEW w \in Workers, DropLease(w),
           UNCHANGED <<work, op, attempts, intents, deadLetters, standing>>
    PROVE  IInv'
  <1>0. RowTypes /\ OtherTypes /\ RowsOK /\ LeasesOK
    BY TypeParts DEF IInv
  <1>1. /\ lease' \in [Workers -> Lease]
        /\ \A v \in Workers : lease'[v] \in {lease[v], NoLease}
    BY <1>0, DropLeaseType
  <1>2. LeasesOK'
    BY <1>0, <1>1, LeasesKept
  <1> QED
    BY <1>0, <1>1, <1>2 DEF IInv, TypeOK, RowTypes, OtherTypes, RowsOK

LEMMA CommitSuccessPreserves ==
    ASSUME IInv, NEW w \in Workers, CommitSuccess(w)
    PROVE  IInv'
  <1>0. RowTypes /\ OtherTypes /\ RowsOK
    BY TypeParts DEF IInv
  <1>1. DropLease(w)
    BY DEF CommitSuccess
  <1>2. CASE SuccessAccepted(w)
    <2> DEFINE i == lease[w].item
               n == lease[w].attempt
               q == Released(work[i], "succeeded", work[i].category)
               p == [state |-> "succeeded", result |-> n]
    <2>1. HoldsLiveLease(w)
      BY <1>2 DEF SuccessAccepted
    <2>2. /\ i \in Items /\ work[i] \in Work /\ op[i] \in Operation
          /\ attempts[i] \in Seq(Attempt)
          /\ RowOK(work[i], op[i], attempts[i]) /\ work[i].state = "leased"
          /\ n = work[i].current /\ n \in DOMAIN attempts[i]
      BY <1>0, <2>1, LiveLease
    <2>3. p \in Operation /\ work[i].category \in Failure \cup {"none"}
      BY <2>2 DEF Operation, Work, Failure
    <2>4. q \in Work /\ RowOK(q, p, [attempts[i] EXCEPT ![n].state = "succeeded"])
      BY <2>2, <2>3, SettleRow DEF Ended
    <2>5. /\ work' = [work EXCEPT ![i] = q]
          /\ op' = [op EXCEPT ![i] = p]
          /\ attempts' = [attempts EXCEPT ![i] = [@ EXCEPT ![n].state = "succeeded"]]
          /\ UNCHANGED <<intents, deadLetters, standing>>
      BY <1>2 DEF CommitSuccess
    <2> HIDE DEF q, p
    <2> QED
      BY <1>0, <1>1, <2>1, <2>3, <2>4, <2>5, SettleAttemptPreserves DEF OtherTypes, Ended
  <1>3. CASE ~SuccessAccepted(w)
    BY <1>1, <1>3, LetGoPreserves DEF CommitSuccess
  <1> QED
    BY <1>2, <1>3

LEMMA IntentAdded ==
    ASSUME OtherTypes, NEW i \in Items, NEW n \in Nat,
           NEW kind \in {"requested", "retry", "manual_recovery"}, AddIntent(i, kind, n)
    PROVE  intents' \in [Items -> SUBSET Intent]
  <1>1. [kind |-> kind, n |-> n] \in Intent
    BY DEF Intent
  <1> QED
    BY <1>1 DEF AddIntent, OtherTypes

LEMMA CommitFailurePreserves ==
    ASSUME IInv, NEW w \in Workers, NEW retryable \in BOOLEAN, CommitFailure(w, retryable)
    PROVE  IInv'
  <1> DEFINE i == lease[w].item
             n == lease[w].attempt
             c == IF retryable THEN "retryable" ELSE "permanent"
             g == [attempts[i] EXCEPT ![n].state = "failed"]
  <1>0. RowTypes /\ OtherTypes /\ RowsOK
    BY TypeParts DEF IInv
  <1>1. DropLease(w) /\ UNCHANGED standing
    BY DEF CommitFailure
  <1>2. CASE FailureRowFound(w) /\ FailureRowUnpacks
    <2>1. HoldsLiveLease(w)
      BY <1>2 DEF FailureRowFound
    <2>2. /\ i \in Items /\ work[i] \in Work /\ op[i] \in Operation
          /\ attempts[i] \in Seq(Attempt)
          /\ RowOK(work[i], op[i], attempts[i]) /\ work[i].state = "leased"
          /\ n = work[i].current /\ n \in DOMAIN attempts[i]
      BY <1>0, <2>1, LiveLease
    <2>3. /\ c \in Failure /\ c \in Failure \cup {"none"} /\ "failed" \in Ended
          /\ n \in Nat
      BY <2>2 DEF Failure, Ended, Work
    <2>4. attempts' = [attempts EXCEPT ![i] = [@ EXCEPT ![n].state = "failed"]]
      BY <1>2 DEF CommitFailure
    <2>5. CASE retryable /\ MayRetry(i)
      <3> DEFINE p == [op[i] EXCEPT !.state = "queued"]
      <3>1. PICK d \in 1..MaxDelay : work' = [work EXCEPT ![i] = Requeued(@, d, c)]
        BY <1>2, <2>5 DEF CommitFailure
      <3> DEFINE q == Requeued(work[i], d, c)
      <3>2. d \in 0..MaxDelay /\ work[i].current < MaxAttempts
        BY <2>5 DEF MayRetry
      <3>3. q \in Work /\ RowOK(q, p, g)
        BY <2>2, <2>3, <3>2, RequeueRow
      <3>4. p \in Operation
        BY <2>2 DEF Operation
      <3>5. /\ work' = [work EXCEPT ![i] = q]
            /\ op' = [op EXCEPT ![i] = p]
            /\ AddIntent(i, "retry", n)
            /\ UNCHANGED deadLetters
        BY <1>2, <2>5, <3>1 DEF CommitFailure
      <3>6. intents' \in [Items -> SUBSET Intent] /\ deadLetters' \in [Items -> SUBSET Nat]
        BY <1>0, <2>2, <2>3, <3>5, IntentAdded DEF OtherTypes
      <3> HIDE DEF q, p
      <3> QED
        BY <1>1, <2>1, <2>3, <2>4, <3>3, <3>4, <3>5, <3>6, SettleAttemptPreserves
    <2>6. CASE ~(retryable /\ MayRetry(i))
      <3> DEFINE p == [op[i] EXCEPT !.state = "failed"]
                 q == Released(work[i], "dead_letter", c)
      <3>1. p \in Operation /\ op[i].state = "running"
        BY <2>2 DEF Operation, RowOK
      <3>2. q \in Work /\ RowOK(q, p, g)
        BY <2>2, <2>3, <3>1, SettleRow DEF Ended
      <3>3. /\ work' = [work EXCEPT ![i] = q]
            /\ op' = [op EXCEPT ![i] = p]
            /\ RecordDeadLetter(i, n)
            /\ UNCHANGED intents
        BY <1>2, <2>6, <3>1 DEF CommitFailure
      <3>4. intents' \in [Items -> SUBSET Intent] /\ deadLetters' \in [Items -> SUBSET Nat]
        BY <1>0, <2>2, <2>3, <3>3 DEF OtherTypes, RecordDeadLetter
      <3> HIDE DEF q, p
      <3> QED
        BY <1>1, <2>1, <2>3, <2>4, <3>1, <3>2, <3>3, <3>4, SettleAttemptPreserves
    <2> QED
      BY <2>5, <2>6
  <1>3. CASE ~(FailureRowFound(w) /\ FailureRowUnpacks)
    BY <1>1, <1>3, LetGoPreserves DEF CommitFailure
  <1> QED
    BY <1>2, <1>3

(* Recovery treats every row of its batch by itself.                       *)
LEMMA RecoverExpiredLeasesPreserves ==
    ASSUME IInv, RecoverExpiredLeases
    PROVE  IInv'
  <1>0. RowTypes /\ OtherTypes /\ RowsOK /\ LeasesOK
    BY TypeParts DEF IInv
  <1>1. PICK batch \in SUBSET {i \in Items : LeaseExpired(i)} :
          /\ \E delay \in [batch -> 1..MaxDelay] :
                work' = [i \in Items |->
                            IF i \notin batch THEN work[i]
                            ELSE IF MayRetry(i)
                            THEN Requeued(work[i], delay[i], "lease_expired")
                            ELSE Released(work[i], "failed", "lease_expired")]
          /\ op' = [i \in Items |->
                      IF i \notin batch THEN op[i]
                      ELSE [op[i] EXCEPT !.state = OperationAfterExpiry(i)]]
          /\ attempts' = [i \in Items |->
                            IF i \notin batch THEN attempts[i]
                            ELSE [attempts[i] EXCEPT ![work[i].current].state = "failed"]]
          /\ UNCHANGED <<intents, deadLetters, standing, lease>>
    BY DEF RecoverExpiredLeases
  <1>2. PICK delay \in [batch -> 1..MaxDelay] :
          work' = [i \in Items |->
                      IF i \notin batch THEN work[i]
                      ELSE IF MayRetry(i)
                      THEN Requeued(work[i], delay[i], "lease_expired")
                      ELSE Released(work[i], "failed", "lease_expired")]
    BY <1>1
  <1>3. ASSUME NEW i \in Items
        PROVE  /\ work'[i] \in Work /\ op'[i] \in Operation /\ attempts'[i] \in Seq(Attempt)
               /\ DOMAIN attempts[i] \subseteq DOMAIN attempts'[i]
               /\ RowOK(work'[i], op'[i], attempts'[i])
    <2>1. /\ work[i] \in Work /\ op[i] \in Operation /\ attempts[i] \in Seq(Attempt)
          /\ RowOK(work[i], op[i], attempts[i])
      BY <1>0 DEF RowTypes, RowsOK
    <2>2. CASE i \notin batch
      <3>1. work'[i] = work[i] /\ op'[i] = op[i] /\ attempts'[i] = attempts[i]
        BY <1>1, <1>2, <2>2
      <3> QED
        BY <2>1, <3>1
    <2>3. CASE i \in batch
      <3> DEFINE g == [attempts[i] EXCEPT ![work[i].current].state = "failed"]
                 p == [op[i] EXCEPT !.state = OperationAfterExpiry(i)]
      <3>1. work[i].state = "leased" /\ "lease_expired" \in Failure /\ "failed" \in Ended
        BY <1>1, <2>3 DEF LeaseExpired, Failure, Ended
      <3>2. work[i].current \in DOMAIN attempts[i]
        <4>1. /\ DOMAIN attempts[i] = 1..Len(attempts[i]) /\ Len(attempts[i]) \in Nat
              /\ work[i].retryCount \in Nat
          BY <2>1, LenProperties DEF Work
        <4> QED
          BY <2>1, <3>1, <4>1 DEF RowOK
      <3>3. g \in Seq(Attempt) /\ DOMAIN g = DOMAIN attempts[i]
        BY <2>1, <3>1, <3>2, EndAttempt
      <3>4. p \in Operation
        BY <2>1 DEF Operation, OperationAfterExpiry
      <3>5. attempts'[i] = g /\ op'[i] = p
        BY <1>1, <2>3
      <3>6. CASE MayRetry(i)
        <4> DEFINE q == Requeued(work[i], delay[i], "lease_expired")
        <4>1. delay[i] \in 0..MaxDelay /\ work[i].current < MaxAttempts
          BY <2>3, <3>6 DEF MayRetry
        <4>2. work'[i] = q /\ p = [op[i] EXCEPT !.state = "queued"]
          BY <1>2, <2>3, <3>6 DEF OperationAfterExpiry
        <4>3. q \in Work /\ RowOK(q, p, g)
          BY <2>1, <3>1, <4>1, <4>2, RequeueRow
        <4> HIDE DEF p, g, q
        <4> QED
          BY <3>3, <3>4, <3>5, <4>2, <4>3
      <3>7. CASE ~MayRetry(i)
        <4> DEFINE q == Released(work[i], "failed", "lease_expired")
        <4>1. work'[i] = q /\ p = [op[i] EXCEPT !.state = "failed"]
          BY <1>2, <2>3, <3>7 DEF OperationAfterExpiry
        <4>2. q \in Work /\ RowOK(q, p, g)
          BY <2>1, <3>1, <3>4, <4>1, SettleRow
        <4> HIDE DEF p, g, q
        <4> QED
          BY <3>3, <3>4, <3>5, <4>1, <4>2
      <3> QED
        BY <3>6, <3>7
    <2> QED
      BY <2>2, <2>3
  <1>4. /\ work' = [i \in Items |-> work'[i]] /\ op' = [i \in Items |-> op'[i]]
        /\ attempts' = [i \in Items |-> attempts'[i]]
    BY <1>1, <1>2
  <1>5. RowTypes' /\ RowsOK'
    BY <1>3, <1>4 DEF RowTypes, RowsOK
  <1>6. OtherTypes' /\ lease' \in [Workers -> Lease] /\ lease' = lease
    BY <1>0, <1>1 DEF OtherTypes
  <1>7. LeasesOK'
    BY <1>0, <1>3, <1>6, LeasesKept
  <1> QED
    BY <1>5, <1>6, <1>7, TypeParts DEF IInv, TypeOK, RowTypes, OtherTypes

LEMMA HeartbeatPreserves ==
    ASSUME IInv, NEW w \in Workers, Heartbeat(w)
    PROVE  IInv'
  <1> DEFINE i == lease[w].item
             r == work[i]
             q == [r EXCEPT !.leaseLeft = LeaseTicks]
  <1>0. RowTypes /\ OtherTypes /\ RowsOK /\ LeasesOK
    BY TypeParts DEF IInv
  <1>1. /\ i \in Items /\ r \in Work /\ op[i] \in Operation /\ attempts[i] \in Seq(Attempt)
        /\ RowOK(r, op[i], attempts[i])
    BY <1>0, LiveLease DEF Heartbeat
  <1>2. q \in Work
    <2>1. LeaseTicks \in 0..LeaseTicks
      BY ConstantsAssumption
    <2> QED
      BY <1>1, <2>1, Columns
  <1>3. RowOK(q, op[i], attempts[i])
    <2>1. /\ q.state = r.state /\ q.fence = r.fence /\ q.current = r.current
          /\ q.retryCount = r.retryCount /\ q.manualRecoveries = r.manualRecoveries
          /\ r.retryCount \in Nat
      BY <1>1 DEF Work
    <2> HIDE DEF q, r, i
    <2> QED
      BY <1>1, <2>1, SameRow, LenProperties
  <1>4. work' = [work EXCEPT ![i] = q]
    BY DEF Heartbeat
  <1>5. op' = [op EXCEPT ![i] = op[i]] /\ attempts' = [attempts EXCEPT ![i] = attempts[i]]
    BY <1>0 DEF Heartbeat, RowTypes
  <1>6. RowTypes' /\ RowsOK'
    <2> HIDE DEF q, r, i
    <2> QED
      BY <1>0, <1>1, <1>2, <1>3, <1>4, <1>5, OneRow
  <1>7. OtherTypes' /\ LeasesOK'
    BY <1>0 DEF Heartbeat, OtherTypes, LeasesOK, Holds
  <1> QED
    BY <1>6, <1>7, TypeParts DEF IInv, TypeOK, RowTypes, OtherTypes

LEMMA CheckpointPreserves ==
    ASSUME IInv, NEW w \in Workers, Checkpoint(w)
    PROVE  IInv'
  <1> DEFINE i == lease[w].item
             h == attempts[i]
  <1>0. RowTypes /\ OtherTypes /\ RowsOK /\ LeasesOK
    BY TypeParts DEF IInv
  <1>1. /\ i \in Items /\ work[i] \in Work /\ op[i] \in Operation /\ h \in Seq(Attempt)
        /\ RowOK(work[i], op[i], h) /\ lease[w].attempt \in DOMAIN h
    BY <1>0, LiveLease DEF Checkpoint
  <1>2. PICK c \in 1..MaxCheckpoint :
          attempts' = [attempts EXCEPT ![i] = [@ EXCEPT ![lease[w].attempt].checkpoint = c]]
    BY DEF Checkpoint
  <1> DEFINE g == [h EXCEPT ![lease[w].attempt].checkpoint = c]
  <1>3. /\ g \in Seq(Attempt) /\ Len(g) = Len(h) /\ DOMAIN g = DOMAIN h
        /\ \A k \in DOMAIN h : g[k].fence = h[k].fence /\ g[k].state = h[k].state
    <2>1. c \in Nat
      OBVIOUS
    <2> QED
      BY <1>1, <2>1, WriteCheckpoint
  <1>4. RowOK(work[i], op[i], g)
    <2>1. work[i].retryCount \in Nat /\ Len(h) \in Nat /\ DOMAIN h = 1..Len(h)
      BY <1>1, LenProperties DEF Work
    <2> HIDE DEF g, h
    <2> QED
      BY <1>1, <1>3, <2>1, SameRow
  <1>5. attempts' = [attempts EXCEPT ![i] = g]
    BY <1>2
  <1>6. work' = [work EXCEPT ![i] = work[i]] /\ op' = [op EXCEPT ![i] = op[i]]
    BY <1>0 DEF Checkpoint, RowTypes
  <1>7. RowTypes' /\ RowsOK'
    <2> HIDE DEF g, h, i
    <2> QED
      BY <1>0, <1>1, <1>3, <1>4, <1>5, <1>6, OneRow
  <1>8. OtherTypes' /\ lease' \in [Workers -> Lease] /\ lease' = lease
    BY <1>0 DEF Checkpoint, OtherTypes
  <1>9. \A j \in Items : DOMAIN attempts[j] \subseteq DOMAIN attempts'[j]
    <2> HIDE DEF g
    <2> QED
      BY <1>0, <1>3, <1>5 DEF RowTypes
  <1>10. LeasesOK'
    BY <1>0, <1>8, <1>9, LeasesKept
  <1> QED
    BY <1>7, <1>8, <1>10, TypeParts DEF IInv, TypeOK, RowTypes, OtherTypes

LEMMA RecoverDeadLetterPreserves ==
    ASSUME IInv, NEW i \in Items, RecoverDeadLetter(i)
    PROVE  IInv'
  <1> DEFINE r == work[i]
             k == r.manualRecoveries + 1
             q == [r EXCEPT !.state = "queued", !.retryCount = 0, !.elapsed = NotStarted,
                            !.wait = 0, !.manualRecoveries = k]
             p == [op[i] EXCEPT !.state = "queued"]
  <1>0. RowTypes /\ OtherTypes /\ RowsOK /\ LeasesOK
    BY TypeParts DEF IInv
  <1>1. /\ r \in Work /\ op[i] \in Operation /\ attempts[i] \in Seq(Attempt)
        /\ RowOK(r, op[i], attempts[i]) /\ r.state = "dead_letter"
    BY <1>0 DEF RowTypes, RowsOK, RecoverDeadLetter
  <1>2. q \in Work /\ RowOK(q, p, attempts[i])
    BY <1>1, RecoverRow
  <1>3. p \in Operation /\ k \in Nat
    BY <1>1 DEF Operation, Work
  <1>4. /\ work' = [work EXCEPT ![i] = q]
        /\ op' = [op EXCEPT ![i] = p]
        /\ attempts' = [attempts EXCEPT ![i] = attempts[i]]
        /\ AddIntent(i, "manual_recovery", k)
        /\ UNCHANGED <<attempts, deadLetters, standing, lease>>
    BY <1>0 DEF RecoverDeadLetter, RowTypes
  <1>5. RowTypes' /\ RowsOK'
    <2> HIDE DEF q, p, r
    <2> QED
      BY <1>0, <1>1, <1>2, <1>3, <1>4, OneRow
  <1>6. OtherTypes'
    <2>1. intents' \in [Items -> SUBSET Intent]
      <3> HIDE DEF k
      <3> QED
        BY <1>0, <1>3, <1>4, IntentAdded
    <2> QED
      BY <1>0, <1>4, <2>1 DEF OtherTypes
  <1>7. LeasesOK'
    BY <1>0, <1>4 DEF LeasesOK, Holds
  <1> QED
    BY <1>5, <1>6, <1>7, TypeParts DEF IInv, TypeOK, RowTypes, OtherTypes

LEMMA ChangeStandingPreserves ==
    ASSUME IInv, NEW i \in Items, ChangeStanding(i)
    PROVE  IInv'
  <1>1. standing' \in [Items -> {"eligible", "trashed", "superseded"}]
    BY DEF IInv, TypeOK, ChangeStanding
  <1> QED
    BY <1>1 DEF IInv, TypeOK, RowsOK, LeasesOK, Holds, ChangeStanding

LEMMA TickPreserves ==
    ASSUME IInv, Tick
    PROVE  IInv'
  <1>0. RowTypes /\ OtherTypes /\ RowsOK /\ LeasesOK
    BY TypeParts DEF IInv
  <1>1. ASSUME NEW i \in Items
        PROVE  work'[i] \in Work /\ RowOK(work'[i], op[i], attempts[i])
    <2>1. /\ work[i] \in Work /\ attempts[i] \in Seq(Attempt)
          /\ RowOK(work[i], op[i], attempts[i])
      BY <1>0 DEF RowTypes, RowsOK
    <2>2. work'[i] = Aged(work[i])
      BY DEF Tick
    <2>3. /\ work[i].retryCount \in Nat /\ Len(attempts[i]) \in Nat
          /\ DOMAIN attempts[i] = 1..Len(attempts[i])
      BY <2>1, LenProperties DEF Work
    <2> QED
      BY <2>1, <2>2, <2>3, AgedRow, SameRow
  <1>2. work' = [i \in Items |-> work'[i]]
    BY DEF Tick
  <1>3. RowTypes' /\ RowsOK'
    BY <1>0, <1>1, <1>2 DEF RowTypes, RowsOK, Tick
  <1>4. OtherTypes' /\ LeasesOK'
    BY <1>0 DEF Tick, OtherTypes, LeasesOK, Holds
  <1> QED
    BY <1>3, <1>4, TypeParts DEF IInv, TypeOK, RowTypes, OtherTypes

LEMMA NextPreserves == IInv /\ [Next]_vars => IInv'
  <1> SUFFICES ASSUME IInv, [Next]_vars PROVE IInv'
    OBVIOUS
  <1>1. ASSUME NEW w \in Workers, WorkerStep(w) PROVE IInv'
    <2>1. CASE \E i \in Items : Claim(w, i)
      BY <2>1, ClaimPreserves
    <2>2. CASE Heartbeat(w)
      BY <2>2, HeartbeatPreserves
    <2>3. CASE Checkpoint(w)
      BY <2>3, CheckpointPreserves
    <2>4. CASE Finish(w)
      BY <2>4, CommitSuccessPreserves, CommitFailurePreserves DEF Finish
    <2>5. CASE Crash(w)
      BY <2>5, LetGoPreserves DEF Crash
    <2> QED
      BY <1>1, <2>1, <2>2, <2>3, <2>4, <2>5 DEF WorkerStep
  <1>2. CASE RecoverExpiredLeases
    BY <1>2, RecoverExpiredLeasesPreserves
  <1>3. ASSUME NEW i \in Items, RecoverDeadLetter(i) \/ ChangeStanding(i) PROVE IInv'
    BY <1>3, RecoverDeadLetterPreserves, ChangeStandingPreserves
  <1>4. CASE Tick
    BY <1>4, TickPreserves
  <1>5. CASE UNCHANGED vars
    BY <1>5 DEF vars, IInv, TypeOK, RowsOK, LeasesOK, Holds
  <1> QED
    BY <1>1, <1>2, <1>3, <1>4, <1>5 DEF Next

-----------------------------------------------------------------------------
(* Theorems.                                                               *)

(* The inductive invariant holds in every reachable state.                 *)
THEOREM Inductive == Spec => []IInv
  BY InitEstablishes, NextPreserves, PTL DEF Spec

(* Every row and every lease keeps its type; the delays, lease lengths and *)
(* ages stay within the bounds of the model.                               *)
THEOREM TypeCorrect == Spec => []TypeOK
  <1>1. IInv => TypeOK
    BY DEF IInv
  <1> QED
    BY <1>1, Inductive, PTL

(* What the invariant says of one item, with its columns typed.            *)
LEMMA ItemFacts ==
    ASSUME IInv, NEW i \in Items
    PROVE  /\ work[i].state \in WorkState /\ op[i].state \in {"queued", "running", "succeeded", "failed"}
           /\ work[i].retryCount \in Nat /\ work[i].manualRecoveries \in Nat
           /\ work[i].current \in Nat
           /\ Len(attempts[i]) \in Nat /\ DOMAIN attempts[i] = 1..Len(attempts[i])
           /\ RowOK(work[i], op[i], attempts[i])
  <1>1. work[i] \in Work /\ op[i] \in Operation /\ attempts[i] \in Seq(Attempt)
    BY DEF IInv, TypeOK
  <1>2. RowOK(work[i], op[i], attempts[i])
    BY DEF IInv, RowsOK
  <1> QED
    BY <1>1, <1>2, LenProperties DEF Work, Operation

(* claim_work_item and recover_expired_leases: an item is leased exactly   *)
(* while its newest attempt runs, and the fencing token counts attempts.   *)
THEOREM OneRunningAttemptHolds == Spec => []OneRunningAttempt
  <1>1. IInv => OneRunningAttempt
    <2> SUFFICES ASSUME IInv, NEW i \in Items
                 PROVE  /\ Running(i) = IF work[i].state = "leased" THEN {Len(attempts[i])} ELSE {}
                        /\ work[i].current = IF work[i].state = "leased" THEN Len(attempts[i]) ELSE 0
                        /\ work[i].fence = Len(attempts[i])
                        /\ \A n \in DOMAIN attempts[i] : attempts[i][n].fence = n
      BY DEF OneRunningAttempt
    <2>1. RowOK(work[i], op[i], attempts[i])
      BY ItemFacts
    <2>2. work[i].state = "leased" => Len(attempts[i]) \in DOMAIN attempts[i]
      BY <2>1, ItemFacts DEF RowOK
    <2> QED
      BY <2>1, <2>2 DEF RowOK, Running
  <1> QED
    BY <1>1, Inductive, PTL

(* heartbeat, checkpoint and both commits repeat one fence; no two workers *)
(* can pass it for the same item.                                          *)
THEOREM LiveLeaseIsExclusiveHolds == Spec => []LiveLeaseIsExclusive
  <1>1. IInv => LiveLeaseIsExclusive
    BY DEF IInv, LeasesOK, LiveLeaseIsExclusive, HoldsLiveLease
  <1> QED
    BY <1>1, Inductive, PTL

(* _commit_terminal: an operation succeeds at most once, by its newest     *)
(* attempt, whatever older attempts still try to commit.                   *)
THEOREM SuccessIsUniqueAndLastHolds == Spec => []SuccessIsUniqueAndLast
  <1>1. IInv => SuccessIsUniqueAndLast
    <2> SUFFICES ASSUME IInv, NEW i \in Items
                 PROVE  /\ \A n \in DOMAIN attempts[i] :
                             attempts[i][n].state = "succeeded" =>
                                n = Len(attempts[i]) /\ op[i].result = n
                        /\ (op[i].result # 0) =
                              (\E n \in DOMAIN attempts[i] : attempts[i][n].state = "succeeded")
                        /\ (op[i].state = "succeeded") = (op[i].result # 0)
      BY DEF SuccessIsUniqueAndLast
    <2>1. /\ RowOK(work[i], op[i], attempts[i]) /\ work[i].state \in WorkState
          /\ Len(attempts[i]) \in Nat /\ DOMAIN attempts[i] = 1..Len(attempts[i])
      BY ItemFacts
    <2>2. CASE work[i].state = "succeeded"
      <3>1. /\ op[i].result = Len(attempts[i]) /\ op[i].state = "succeeded"
            /\ Len(attempts[i]) \in DOMAIN attempts[i] /\ Len(attempts[i]) # 0
            /\ attempts[i][Len(attempts[i])].state = "succeeded"
        BY <2>1, <2>2 DEF RowOK
      <3>2. \A n \in DOMAIN attempts[i] : attempts[i][n].state = "succeeded" => n = Len(attempts[i])
        BY <2>1 DEF RowOK
      <3> QED
        BY <3>1, <3>2
    <2>3. CASE work[i].state # "succeeded"
      <3>1. op[i].result = 0 /\ op[i].state # "succeeded"
        BY <2>1, <2>3 DEF RowOK, WorkState
      <3>2. \A n \in DOMAIN attempts[i] : attempts[i][n].state # "succeeded"
        BY <2>1, <2>3 DEF RowOK
      <3> QED
        BY <3>1, <3>2
    <2> QED
      BY <2>2, <2>3
  <1> QED
    BY <1>1, Inductive, PTL

(* The operation's state, which clients poll, is a function of the work    *)
(* item's in every reachable state.                                        *)
THEOREM OperationFollowsWorkHolds == Spec => []OperationFollowsWork
  <1>1. IInv => OperationFollowsWork
    BY ItemFacts DEF OperationFollowsWork, RowOK, WorkState
  <1> QED
    BY <1>1, Inductive, PTL

(* max_attempts bounds the attempts up to one per operator recovery, and   *)
(* the CHECK retry_count < max_attempts never aborts a failing commit.     *)
THEOREM RetryBudgetHolds == Spec => []RetryBudget
  <1>1. IInv => RetryBudget
    BY ItemFacts DEF RetryBudget, RowOK
  <1> QED
    BY <1>1, Inductive, PTL

(* No two attempts of an item run and no two workers hold a live lease on  *)
(* it (claim_work_item), for any number of items and workers.              *)
THEOREM LeasesExcludeHolds == Spec => []LeasesExclude
  <1>1. OneRunningAttempt /\ LiveLeaseIsExclusive => LeasesExclude
    BY DEF LeasesExclude
  <1> QED
    BY <1>1, OneRunningAttemptHolds, LiveLeaseIsExclusiveHolds, PTL

-----------------------------------------------------------------------------
(* DispositionIsRecorded.  It is not inductive either: that dead-lettered   *)
(* work has its record must also be known of items that are not eligible,   *)
(* and that the first intent is there of items that cannot be claimed.      *)
(* The other intents are of attempts that have failed and of recoveries     *)
(* that have been made, so that a new one is never a duplicate.             *)

RetryOf(n) == [kind |-> "retry", n |-> n]
RecoveryOf(k) == [kind |-> "manual_recovery", n |-> k]

\* Of a row with history h, intents x and dead-letter records d.
Explained(r, h, x, d) ==
    /\ \A n \in d : n \in DOMAIN h /\ h[n].state = "failed"
    /\ r.state = "queued" /\ r.category = "retryable" =>
          \/ [kind |-> "retry", n |-> Len(h)] \in x
          \/ [kind |-> "manual_recovery", n |-> r.manualRecoveries] \in x
    /\ r.state = "dead_letter" => Len(h) \in d
    /\ [kind |-> "requested", n |-> 0] \in x
    /\ \A n \in Nat : RetryOf(n) \in x => n \in DOMAIN h /\ h[n].state = "failed"
    /\ \A k \in Nat : RecoveryOf(k) \in x => k <= r.manualRecoveries
    /\ r.manualRecoveries <= MaxManualRecoveries

AllExplained ==
    \A i \in Items : Explained(work[i], attempts[i], intents[i], deadLetters[i])

(* A transaction on one item.                                              *)
LEMMA OneExplained ==
    ASSUME AllExplained, NEW i \in Items,
           Explained(work'[i], attempts'[i], intents'[i], deadLetters'[i]),
           \A j \in Items \ {i} :
              /\ work'[j] = work[j] /\ attempts'[j] = attempts[j]
              /\ intents'[j] = intents[j] /\ deadLetters'[j] = deadLetters[j]
    PROVE  AllExplained'
  <1>1. ASSUME NEW j \in Items
        PROVE  Explained(work'[j], attempts'[j], intents'[j], deadLetters'[j])
    BY DEF AllExplained
  <1> QED
    BY <1>1 DEF AllExplained

(* What the statements write beside the state.                             *)
LEMMA ReleasedCategory ==
    ASSUME NEW r \in Work, NEW s \in WorkState, NEW c \in Failure \cup {"none"}
    PROVE  /\ Released(r, s, c).category = c
           /\ Released(r, s, c).state = s
           /\ Released(r, s, c).manualRecoveries = r.manualRecoveries
  BY DEF Released, Work

LEMMA RequeuedCategory ==
    ASSUME NEW r \in Work, NEW k \in 0..MaxDelay, NEW c \in Failure
    PROVE  /\ Requeued(r, k, c).category = c
           /\ Requeued(r, k, c).state = "queued"
           /\ Requeued(r, k, c).manualRecoveries = r.manualRecoveries
  BY DEF Requeued, Released, Work

LEMMA OtherCategories ==
    ASSUME NEW r \in Work
    PROVE  /\ Aged(r).category = r.category
           /\ Aged(r).state = r.state
           /\ Aged(r).manualRecoveries = r.manualRecoveries
           /\ \A n, t \in Nat : /\ Leased(r, n, t).state = "leased"
                               /\ Leased(r, n, t).manualRecoveries = r.manualRecoveries
           /\ \A v \in 0..LeaseTicks :
                 /\ [r EXCEPT !.leaseLeft = v].state = r.state
                 /\ [r EXCEPT !.leaseLeft = v].manualRecoveries = r.manualRecoveries
  BY DEF Aged, Leased, Work

(* Ending a running attempt keeps every dead-letter record explained.      *)
LEMMA EndExplained ==
    ASSUME NEW h \in Seq(Attempt), NEW n \in DOMAIN h, NEW e \in Ended,
           h[n].state = "running", NEW d,
           \A m \in d : m \in DOMAIN h /\ h[m].state = "failed"
    PROVE  \A m \in d : /\ m \in DOMAIN [h EXCEPT ![n].state = e]
                        /\ [h EXCEPT ![n].state = e][m].state = "failed"
  <1> DEFINE g == [h EXCEPT ![n].state = e]
  <1>1. DOMAIN g = DOMAIN h /\ \A k \in DOMAIN h : g[k].state = IF k = n THEN e ELSE h[k].state
    BY EndAttempt
  <1> HIDE DEF g
  <1>2. \A m \in d : m \in DOMAIN g /\ g[m].state = "failed"
    BY <1>1
  <1> QED
    BY <1>2 DEF g

(* What a worker that passes the fence knows of the attempt it ends.       *)
LEMMA LiveAttempt ==
    ASSUME IInv, NEW w \in Workers, HoldsLiveLease(w)
    PROVE  /\ lease[w].item \in Items /\ work[lease[w].item] \in Work
           /\ attempts[lease[w].item] \in Seq(Attempt)
           /\ lease[w].attempt \in DOMAIN attempts[lease[w].item]
           /\ lease[w].attempt = Len(attempts[lease[w].item])
           /\ attempts[lease[w].item][lease[w].attempt].state = "running"
  <1>1. RowTypes /\ OtherTypes /\ RowsOK
    BY TypeParts DEF IInv
  <1>2. /\ lease[w].item \in Items /\ work[lease[w].item] \in Work
        /\ attempts[lease[w].item] \in Seq(Attempt)
        /\ RowOK(work[lease[w].item], op[lease[w].item], attempts[lease[w].item])
        /\ work[lease[w].item].state = "leased"
        /\ lease[w].attempt = work[lease[w].item].current
        /\ lease[w].attempt \in DOMAIN attempts[lease[w].item]
    BY <1>1, LiveLease
  <1> QED
    BY <1>2 DEF RowOK

LEMMA SuccessExplained ==
    ASSUME IInv, AllExplained, NEW w \in Workers, CommitSuccess(w)
    PROVE  AllExplained'
  <1>1. CASE SuccessAccepted(w)
    <2> DEFINE i == lease[w].item
               n == lease[w].attempt
               g == [attempts[i] EXCEPT ![n].state = "succeeded"]
    <2>1. HoldsLiveLease(w)
      BY <1>1 DEF SuccessAccepted
    <2>2. /\ i \in Items /\ work[i] \in Work /\ attempts[i] \in Seq(Attempt)
          /\ n \in DOMAIN attempts[i] /\ attempts[i][n].state = "running"
      BY <2>1, LiveAttempt
    <2>3. Explained(work[i], attempts[i], intents[i], deadLetters[i])
      BY <2>2 DEF AllExplained
    <2>4. \A m \in deadLetters[i] : m \in DOMAIN g /\ g[m].state = "failed"
      BY <2>2, <2>3, EndExplained DEF Explained, Ended
    <2>5. /\ work' = [work EXCEPT ![i] = Released(work[i], "succeeded", work[i].category)]
          /\ attempts' = [attempts EXCEPT ![i] = g]
          /\ UNCHANGED <<intents, deadLetters>>
      BY <1>1 DEF CommitSuccess
    <2>6. /\ Released(work[i], "succeeded", work[i].category).state = "succeeded"
          /\ Released(work[i], "succeeded", work[i].category).manualRecoveries
                = work[i].manualRecoveries
      BY <2>2, ReleasedCategory DEF Work, WorkState, Failure
    <2>10. \A m \in Nat : RetryOf(m) \in intents[i] => m \in DOMAIN g /\ g[m].state = "failed"
      <3>1. PICK d : d = {m \in Nat : RetryOf(m) \in intents[i]}
        OBVIOUS
      <3>2. \A m \in d : m \in DOMAIN g /\ g[m].state = "failed"
        BY <2>2, <2>3, <3>1, EndExplained DEF Explained, Ended
      <3> QED
        BY <3>1, <3>2
    <2>7. work \in [Items -> Work] /\ attempts \in [Items -> Seq(Attempt)]
      BY DEF IInv, TypeOK
    <2> HIDE DEF i, g
    <2>8. /\ work'[i].state = "succeeded" /\ attempts'[i] = g
          /\ work'[i].manualRecoveries = work[i].manualRecoveries
      BY <2>2, <2>5, <2>6, <2>7
    <2>9. Explained(work'[i], attempts'[i], intents'[i], deadLetters'[i])
      BY <2>3, <2>4, <2>5, <2>8, <2>10 DEF Explained
    <2> QED
      BY <2>2, <2>5, <2>7, <2>9, OneExplained
  <1>2. CASE ~ SuccessAccepted(w)
    BY <1>2 DEF CommitSuccess, AllExplained
  <1> QED
    BY <1>1, <1>2

LEMMA FailureExplained ==
    ASSUME IInv, AllExplained, NEW w \in Workers, NEW retryable \in BOOLEAN,
           CommitFailure(w, retryable)
    PROVE  AllExplained'
  <1>1. CASE FailureRowFound(w) /\ FailureRowUnpacks
    <2> DEFINE i == lease[w].item
               n == lease[w].attempt
               c == IF retryable THEN "retryable" ELSE "permanent"
               g == [attempts[i] EXCEPT ![n].state = "failed"]
    <2>1. HoldsLiveLease(w)
      BY <1>1 DEF FailureRowFound
    <2>2. /\ i \in Items /\ work[i] \in Work /\ attempts[i] \in Seq(Attempt)
          /\ n \in DOMAIN attempts[i] /\ attempts[i][n].state = "running"
          /\ n = Len(attempts[i])
      BY <2>1, LiveAttempt
    <2>3. Explained(work[i], attempts[i], intents[i], deadLetters[i])
      BY <2>2 DEF AllExplained
    <2>4. \A m \in deadLetters[i] : m \in DOMAIN g /\ g[m].state = "failed"
      BY <2>2, <2>3, EndExplained DEF Explained, Ended
    <2>5. DOMAIN g = DOMAIN attempts[i] /\ Len(g) = n /\ g[n].state = "failed"
      <3>1. "failed" \in Ended
        BY DEF Ended
      <3>2. /\ Len(g) = Len(attempts[i]) /\ DOMAIN g = DOMAIN attempts[i]
            /\ \A k \in DOMAIN attempts[i] :
                  g[k].state = IF k = n THEN "failed" ELSE attempts[i][k].state
        BY <2>2, <3>1, EndAttempt
      <3> HIDE DEF g
      <3> QED
        BY <2>2, <3>2
    <2>6. attempts' = [attempts EXCEPT ![i] = g]
      BY <1>1 DEF CommitFailure
    <2>7. /\ work \in [Items -> Work] /\ attempts \in [Items -> Seq(Attempt)]
          /\ intents \in [Items -> SUBSET Intent] /\ deadLetters \in [Items -> SUBSET Nat]
      BY DEF IInv, TypeOK
    <2>8. c \in Failure
      BY DEF Failure
    <2>11. \A m \in Nat : RetryOf(m) \in intents[i] => m \in DOMAIN g /\ g[m].state = "failed"
      <3>1. PICK d : d = {m \in Nat : RetryOf(m) \in intents[i]}
        OBVIOUS
      <3>2. \A m \in d : m \in DOMAIN g /\ g[m].state = "failed"
        BY <2>2, <2>3, <3>1, EndExplained DEF Explained, Ended
      <3> QED
        BY <3>1, <3>2
    <2>9. CASE retryable /\ MayRetry(i)
      <3>1. PICK delay \in 1..MaxDelay : work' = [work EXCEPT ![i] = Requeued(@, delay, c)]
        BY <1>1, <2>9 DEF CommitFailure
      <3>2. AddIntent(i, "retry", n) /\ UNCHANGED deadLetters
        BY <1>1, <2>9 DEF CommitFailure
      <3> HIDE DEF i, g, c
      <3>3. work'[i].state = "queued" /\ work'[i].manualRecoveries = work[i].manualRecoveries
        <4>1. delay \in 0..MaxDelay
          OBVIOUS
        <4>2. /\ Requeued(work[i], delay, c).state = "queued"
              /\ Requeued(work[i], delay, c).manualRecoveries = work[i].manualRecoveries
          BY <2>2, <2>8, <4>1, RequeuedCategory
        <4> QED
          BY <2>2, <2>7, <3>1, <4>2
      <3>4. /\ attempts'[i] = g
            /\ intents'[i] = intents[i] \cup {[kind |-> "retry", n |-> n]}
        BY <2>2, <2>6, <2>7, <3>2 DEF AddIntent
      <3>6. n \in DOMAIN g
        BY <2>2, <2>5
      <3>5. Explained(work'[i], attempts'[i], intents'[i], deadLetters'[i])
        BY <2>3, <2>4, <2>5, <2>11, <3>2, <3>3, <3>4, <3>6 DEF Explained, RetryOf, RecoveryOf
      <3> QED
        BY <2>2, <2>6, <2>7, <3>1, <3>2, <3>5, OneExplained DEF AddIntent
    <2>10. CASE ~ (retryable /\ MayRetry(i))
      <3>1. /\ work' = [work EXCEPT ![i] = Released(@, "dead_letter", c)]
            /\ RecordDeadLetter(i, n) /\ UNCHANGED intents
        BY <1>1, <2>10 DEF CommitFailure
      <3> HIDE DEF i, g, c
      <3>2. work'[i].state = "dead_letter" /\ work'[i].manualRecoveries = work[i].manualRecoveries
        <4>1. /\ Released(work[i], "dead_letter", c).state = "dead_letter"
              /\ Released(work[i], "dead_letter", c).manualRecoveries = work[i].manualRecoveries
          BY <2>2, <2>8, ReleasedCategory DEF WorkState
        <4> QED
          BY <2>2, <2>7, <3>1, <4>1
      <3>3. attempts'[i] = g /\ deadLetters'[i] = deadLetters[i] \cup {n}
        BY <2>2, <2>6, <2>7, <3>1 DEF RecordDeadLetter
      <3>4. Explained(work'[i], attempts'[i], intents'[i], deadLetters'[i])
        BY <2>2, <2>3, <2>4, <2>5, <2>11, <3>1, <3>2, <3>3 DEF Explained
      <3> QED
        BY <2>2, <2>6, <2>7, <3>1, <3>4, OneExplained DEF RecordDeadLetter
    <2> QED
      BY <2>9, <2>10
  <1>2. CASE ~ (FailureRowFound(w) /\ FailureRowUnpacks)
    BY <1>2 DEF CommitFailure, AllExplained
  <1> QED
    BY <1>1, <1>2

LEMMA ExpiryExplained ==
    ASSUME IInv, AllExplained, RecoverExpiredLeases
    PROVE  AllExplained'
  <1>1. PICK batch \in SUBSET {i \in Items : LeaseExpired(i)} :
          /\ \E delay \in [batch -> 1..MaxDelay] :
                work' = [i \in Items |->
                            IF i \notin batch THEN work[i]
                            ELSE IF MayRetry(i)
                            THEN Requeued(work[i], delay[i], "lease_expired")
                            ELSE Released(work[i], "failed", "lease_expired")]
          /\ attempts' = [i \in Items |->
                            IF i \notin batch THEN attempts[i]
                            ELSE [attempts[i] EXCEPT ![work[i].current].state = "failed"]]
          /\ UNCHANGED <<intents, deadLetters>>
    BY DEF RecoverExpiredLeases
  <1>2. PICK delay \in [batch -> 1..MaxDelay] :
          work' = [i \in Items |->
                      IF i \notin batch THEN work[i]
                      ELSE IF MayRetry(i)
                      THEN Requeued(work[i], delay[i], "lease_expired")
                      ELSE Released(work[i], "failed", "lease_expired")]
    BY <1>1
  <1>3. ASSUME NEW i \in Items
        PROVE  Explained(work'[i], attempts'[i], intents'[i], deadLetters'[i])
    <2>1. /\ Explained(work[i], attempts[i], intents[i], deadLetters[i])
          /\ work[i] \in Work /\ attempts[i] \in Seq(Attempt)
          /\ RowOK(work[i], op[i], attempts[i])
      BY DEF AllExplained, IInv, TypeOK, RowsOK
    <2>2. CASE i \notin batch
      BY <1>1, <1>2, <2>1, <2>2
    <2>3. CASE i \in batch
      <3> DEFINE n == work[i].current
                 g == [attempts[i] EXCEPT ![n].state = "failed"]
      <3>1. work[i].state = "leased" /\ attempts[i][n].state = "running"
        BY <2>3 DEF LeaseExpired
      <3>2. n \in DOMAIN attempts[i]
        <4>1. /\ DOMAIN attempts[i] = 1..Len(attempts[i]) /\ Len(attempts[i]) \in Nat
              /\ work[i].retryCount \in Nat
          BY <2>1, LenProperties DEF Work
        <4> QED
          BY <2>1, <3>1, <4>1 DEF RowOK
      <3>3. \A m \in deadLetters[i] : m \in DOMAIN g /\ g[m].state = "failed"
        BY <2>1, <3>1, <3>2, EndExplained DEF Explained, Ended
      <3>6. \A m \in Nat : RetryOf(m) \in intents[i] => m \in DOMAIN g /\ g[m].state = "failed"
        <4>1. PICK d : d = {m \in Nat : RetryOf(m) \in intents[i]}
          OBVIOUS
        <4>2. \A m \in d : m \in DOMAIN g /\ g[m].state = "failed"
          BY <2>1, <3>1, <3>2, <4>1, EndExplained DEF Explained, Ended
        <4> QED
          BY <4>1, <4>2
      <3>4. /\ work'[i].category = "lease_expired"
            /\ work'[i].manualRecoveries = work[i].manualRecoveries
            /\ work'[i].state \in {"queued", "failed"}
        <4>1. "lease_expired" \in Failure /\ "failed" \in WorkState /\ delay[i] \in 0..MaxDelay
          BY <2>3 DEF Failure, WorkState
        <4>2. CASE MayRetry(i)
          BY <1>2, <2>1, <2>3, <4>1, <4>2, RequeuedCategory
        <4>3. CASE ~ MayRetry(i)
          BY <1>2, <2>1, <2>3, <4>1, <4>3, ReleasedCategory
        <4> QED
          BY <4>2, <4>3
      <3>5. attempts'[i] = g /\ intents'[i] = intents[i] /\ deadLetters'[i] = deadLetters[i]
        BY <1>1, <2>3
      <3> HIDE DEF g
      <3> QED
        BY <2>1, <3>3, <3>4, <3>5, <3>6 DEF Explained
    <2> QED
      BY <2>2, <2>3
  <1> QED
    BY <1>3 DEF AllExplained

LEMMA RecoveryExplained ==
    ASSUME IInv, AllExplained, NEW i \in Items, RecoverDeadLetter(i)
    PROVE  AllExplained'
  <1> DEFINE k == work[i].manualRecoveries + 1
  <1>1. /\ work \in [Items -> Work] /\ intents \in [Items -> SUBSET Intent]
        /\ Explained(work[i], attempts[i], intents[i], deadLetters[i])
    BY DEF IInv, TypeOK, AllExplained
  <1>2. /\ work' = [work EXCEPT ![i] = [@ EXCEPT !.state = "queued", !.retryCount = 0,
                                !.elapsed = NotStarted, !.wait = 0, !.manualRecoveries = k]]
        /\ AddIntent(i, "manual_recovery", k)
        /\ UNCHANGED <<attempts, deadLetters>>
    BY DEF RecoverDeadLetter
  <1>3. work'[i].state = "queued" /\ work'[i].manualRecoveries = k
    <2>1. work[i] \in Work
      BY <1>1
    <2> HIDE DEF k
    <2> QED
      BY <1>1, <1>2, <2>1 DEF Work
  <1>4. intents'[i] = intents[i] \cup {[kind |-> "manual_recovery", n |-> k]}
    BY <1>1, <1>2 DEF AddIntent
  <1> HIDE DEF k
  <1>5. Explained(work'[i], attempts'[i], intents'[i], deadLetters'[i])
    <2>1. k <= MaxManualRecoveries /\ k = work[i].manualRecoveries + 1 /\ work[i].manualRecoveries \in Nat
      BY <1>1, ConstantsAssumption DEF k, RecoverDeadLetter, Work
    <2>2. \A m \in Nat : RecoveryOf(m) \in intents'[i] => m <= k
      BY <1>1, <1>4, <2>1 DEF Explained, RecoveryOf
    <2>3. \A m \in Nat : RetryOf(m) \in intents'[i] => RetryOf(m) \in intents[i]
      BY <1>4 DEF RetryOf
    <2> QED
      BY <1>1, <1>2, <1>3, <1>4, <2>1, <2>2, <2>3 DEF Explained
  <1> QED
    BY <1>1, <1>2, <1>5, OneExplained DEF AddIntent

LEMMA ClaimExplained ==
    ASSUME IInv, AllExplained, NEW w \in Workers, NEW i \in Items, Claim(w, i)
    PROVE  AllExplained'
  <1>1. /\ work \in [Items -> Work] /\ attempts \in [Items -> Seq(Attempt)]
        /\ Explained(work[i], attempts[i], intents[i], deadLetters[i])
    BY DEF IInv, TypeOK, AllExplained
  <1> DEFINE h == attempts[i]
             t == work[i].fence + 1
             g == Append(h, [state |-> "running", fence |-> t, checkpoint |-> 0])
  <1>2. t \in Nat /\ Len(h) + 1 \in Nat /\ work[i] \in Work /\ h \in Seq(Attempt)
    BY <1>1, LenProperties DEF Work
  <1>3. /\ work' = [work EXCEPT ![i] = Leased(@, Len(h) + 1, t)]
        /\ attempts' = [attempts EXCEPT ![i] = g]
        /\ UNCHANGED <<intents, deadLetters>>
    BY DEF Claim
  <1>4. DOMAIN h \subseteq DOMAIN g /\ \A k \in DOMAIN h : g[k] = h[k]
    BY <1>2, NewAttempt
  <1>5. /\ Leased(work[i], Len(h) + 1, t).state = "leased"
        /\ Leased(work[i], Len(h) + 1, t).manualRecoveries = work[i].manualRecoveries
    BY <1>2, OtherCategories
  <1> HIDE DEF t, g
  <1>6. /\ work'[i].state = "leased" /\ attempts'[i] = g
        /\ work'[i].manualRecoveries = work[i].manualRecoveries
    BY <1>1, <1>3, <1>5
  <1>7. Explained(work'[i], attempts'[i], intents'[i], deadLetters'[i])
    BY <1>1, <1>3, <1>4, <1>6 DEF Explained
  <1> QED
    BY <1>1, <1>3, <1>7, OneExplained

LEMMA CheckpointExplained ==
    ASSUME IInv, AllExplained, NEW w \in Workers, Checkpoint(w)
    PROVE  AllExplained'
  <1> DEFINE i == lease[w].item
             n == lease[w].attempt
  <1>1. /\ i \in Items /\ attempts[i] \in Seq(Attempt) /\ n \in DOMAIN attempts[i]
    BY LiveAttempt DEF Checkpoint
  <1>2. PICK c \in 1..MaxCheckpoint :
          attempts' = [attempts EXCEPT ![i] = [@ EXCEPT ![n].checkpoint = c]]
    BY DEF Checkpoint
  <1> DEFINE g == [attempts[i] EXCEPT ![n].checkpoint = c]
  <1>3. /\ Len(g) = Len(attempts[i]) /\ DOMAIN g = DOMAIN attempts[i]
        /\ \A k \in DOMAIN g : g[k].state = attempts[i][k].state
    <2>1. c \in Nat
      OBVIOUS
    <2> QED
      BY <1>1, <2>1, WriteCheckpoint
  <1>4. /\ attempts \in [Items -> Seq(Attempt)]
        /\ Explained(work[i], attempts[i], intents[i], deadLetters[i])
    BY <1>1 DEF IInv, TypeOK, AllExplained
  <1>5. attempts' = [attempts EXCEPT ![i] = g] /\ UNCHANGED <<work, intents, deadLetters>>
    BY <1>2 DEF Checkpoint
  <1> HIDE DEF g, i
  <1>6. attempts'[i] = g
    BY <1>1, <1>4, <1>5
  <1>7. Explained(work'[i], attempts'[i], intents'[i], deadLetters'[i])
    BY <1>3, <1>4, <1>5, <1>6 DEF Explained
  <1> QED
    BY <1>1, <1>4, <1>5, <1>7, OneExplained

LEMMA ClockExplained ==
    ASSUME IInv, AllExplained, Tick
    PROVE  AllExplained'
  <1>1. ASSUME NEW i \in Items
        PROVE  Explained(work'[i], attempts'[i], intents'[i], deadLetters'[i])
    <2>1. work[i] \in Work /\ Explained(work[i], attempts[i], intents[i], deadLetters[i])
      BY DEF IInv, TypeOK, AllExplained
    <2>2. /\ work'[i].state = work[i].state /\ work'[i].category = work[i].category
          /\ work'[i].manualRecoveries = work[i].manualRecoveries
      BY <2>1, OtherCategories DEF Tick
    <2> QED
      BY <2>1, <2>2 DEF Explained, Tick
  <1> QED
    BY <1>1 DEF AllExplained

LEMMA HeartbeatExplained ==
    ASSUME IInv, AllExplained, NEW w \in Workers, Heartbeat(w)
    PROVE  AllExplained'
  <1> DEFINE i == lease[w].item
  <1>1. i \in Items /\ work[i] \in Work /\ work[i].state = "leased"
    BY LiveAttempt DEF Heartbeat, HoldsLiveLease
  <1>2. /\ work' = [work EXCEPT ![i] = [work[i] EXCEPT !.leaseLeft = LeaseTicks]]
        /\ UNCHANGED <<attempts, intents, deadLetters>>
    BY DEF Heartbeat
  <1>3. /\ work \in [Items -> Work]
        /\ Explained(work[i], attempts[i], intents[i], deadLetters[i])
    BY <1>1 DEF IInv, TypeOK, AllExplained
  <1>4. /\ [work[i] EXCEPT !.leaseLeft = LeaseTicks].state = "leased"
        /\ [work[i] EXCEPT !.leaseLeft = LeaseTicks].manualRecoveries = work[i].manualRecoveries
    BY <1>1 DEF Work
  <1> HIDE DEF i
  <1>5. work'[i].state = "leased" /\ work'[i].manualRecoveries = work[i].manualRecoveries
    BY <1>1, <1>2, <1>3, <1>4
  <1>6. Explained(work'[i], attempts'[i], intents'[i], deadLetters'[i])
    BY <1>2, <1>3, <1>5 DEF Explained
  <1> QED
    BY <1>1, <1>2, <1>3, <1>6, OneExplained

LEMMA StepExplained == IInv /\ AllExplained /\ [Next]_vars => AllExplained'
  <1> SUFFICES ASSUME IInv, AllExplained, [Next]_vars PROVE AllExplained'
    OBVIOUS
  <1>1. ASSUME NEW w \in Workers, WorkerStep(w) PROVE AllExplained'
    <2>1. CASE Crash(w)
      BY <2>1 DEF Crash, AllExplained
    <2> QED
      BY <1>1, <2>1, ClaimExplained, HeartbeatExplained, CheckpointExplained, SuccessExplained,
         FailureExplained DEF WorkerStep, Finish
  <1>2. ASSUME NEW i \in Items, ChangeStanding(i) PROVE AllExplained'
    BY <1>2 DEF ChangeStanding, AllExplained
  <1>3. CASE UNCHANGED vars
    BY <1>3 DEF vars, AllExplained
  <1> QED
    BY <1>1, <1>2, <1>3, ExpiryExplained, RecoveryExplained, ClockExplained DEF Next

LEMMA ExplainedInductive == Spec => []AllExplained
  <1>1. Init => AllExplained
    BY ConstantsAssumption DEF Init, AllExplained, Explained, RetryOf, RecoveryOf
  <1>2. Init => IInv
    BY InitEstablishes
  <1>3. IInv /\ [Next]_vars => IInv'
    BY NextPreserves
  <1> QED
    BY <1>1, <1>2, <1>3, StepExplained, PTL DEF Spec

(* commit_failure and recover_dead_letter leave on record what became of   *)
(* every attempt; no row is ever left for the reconciler.                  *)
THEOREM DispositionIsRecordedHolds == Spec => []DispositionIsRecorded
  <1>3. IInv /\ AllExplained => DispositionIsRecorded
    <2> SUFFICES ASSUME IInv, AllExplained, NEW i \in Items
                 PROVE  /\ \A n \in deadLetters[i] :
                             n \in DOMAIN attempts[i] /\ attempts[i][n].state = "failed"
                        /\ work[i].state = "queued" /\ work[i].category = "retryable" =>
                             \/ [kind |-> "retry", n |-> Len(attempts[i])] \in intents[i]
                             \/ [kind |-> "manual_recovery",
                                 n |-> work[i].manualRecoveries] \in intents[i]
                        /\ ~(NeedsRetrySchedule(i) \/ NeedsDeadLetterRecord(i)
                                \/ NeedsOutboxRow(i) \/ NeedsLeaseRestored(i))
      BY DEF DispositionIsRecorded
    <2>1. /\ Explained(work[i], attempts[i], intents[i], deadLetters[i])
          /\ RowOK(work[i], op[i], attempts[i])
      BY ItemFacts DEF AllExplained
    <2>2. ~ NeedsRetrySchedule(i) /\ ~ NeedsLeaseRestored(i)
      BY <2>1 DEF NeedsRetrySchedule, NeedsLeaseRestored, RowOK
    <2>3. ~ NeedsDeadLetterRecord(i) /\ ~ NeedsOutboxRow(i)
      BY <2>1 DEF NeedsDeadLetterRecord, NeedsOutboxRow, Explained
    <2> QED
      BY <2>1, <2>2, <2>3 DEF Explained
  <1> QED
    BY <1>3, ExplainedInductive, Inductive, PTL

(* Work items, operations, attempts and the records of failures agree in   *)
(* every reachable state (_commit_terminal, recover_expired_leases,        *)
(* commit_failure, recover_dead_letter).                                   *)
THEOREM TablesAgreeHolds == Spec => []TablesAgree
  <1>1. SuccessIsUniqueAndLast /\ OperationFollowsWork /\ RetryBudget /\ DispositionIsRecorded
           => TablesAgree
    BY DEF TablesAgree
  <1> QED
    BY <1>1, SuccessIsUniqueAndLastHolds, OperationFollowsWorkHolds, RetryBudgetHolds,
       DispositionIsRecordedHolds, PTL

-----------------------------------------------------------------------------
(* StaleLeaseIsHarmless.  The newest checkpoint is a greatest element, and  *)
(* it exists because checkpoints are bounded.                               *)

Less == {p \in Nat \X Nat : p[1] < p[2]}

LEMMA LessIsWellFounded == IsWellFoundedOn(Less, Nat)
  <1>1. OpToRel(<, Nat) = Less
    BY DEF OpToRel, Less
  <1> QED
    BY <1>1, NatLessThanWellFounded

(* A bounded set of numbers has a greatest element.                        *)
LEMMA Greatest ==
    ASSUME NEW T \in SUBSET Nat, NEW M \in Nat, \A t \in T : t <= M, T # {}
    PROVE  \E m \in T : \A t \in T : t <= m
  <1> DEFINE U == {n \in Nat : M - n \in T}
  <1>1. \A t \in T : t \in Int /\ M - t \in U
    <2> SUFFICES ASSUME NEW t \in T PROVE t \in Int /\ M - t \in U
      OBVIOUS
    <2>1. t \in Nat /\ t <= M
      OBVIOUS
    <2>2. M - t \in Nat /\ M - (M - t) = t
      BY <2>1
    <2> QED
      BY <2>1, <2>2
  <1>2. U \subseteq Nat /\ U # {}
    BY <1>1
  <1>3. PICK x \in U : \A y \in U : <<y, x>> \notin Less
    BY <1>2, LessIsWellFounded, WFMin
  <1>4. \A y \in U : x <= y
    <2> SUFFICES ASSUME NEW y \in U PROVE x <= y
      OBVIOUS
    <2>1. x \in Nat /\ y \in Nat /\ <<y, x>> \notin Less
      BY <1>3
    <2> QED
      BY <2>1 DEF Less
  <1>5. M - x \in T /\ x \in Nat
    OBVIOUS
  <1> HIDE DEF U
  <1> QED
    BY <1>1, <1>4, <1>5

Bounded(h) == \A n \in DOMAIN h : h[n].checkpoint <= MaxCheckpoint

\* g is a later history than h.
Grown(h, g) ==
    /\ DOMAIN h \subseteq DOMAIN g
    /\ \A n \in DOMAIN h : h[n].checkpoint <= g[n].checkpoint

Written(h) == {h[n].checkpoint : n \in DOMAIN h} \cup {0}

LEMMA CheckpointsAreNumbers ==
    ASSUME NEW h \in Seq(Attempt)
    PROVE  \A n \in DOMAIN h : h[n] \in Attempt /\ h[n].checkpoint \in Nat
  <1>1. \A n \in DOMAIN h : h[n] \in Attempt
    BY ElementOfSeq, LenProperties
  <1> QED
    BY <1>1 DEF Attempt

LEMMA GreatestWritten ==
    ASSUME NEW h \in Seq(Attempt), Bounded(h)
    PROVE  LET m == CHOOSE s \in Written(h) : \A t \in Written(h) : t <= s
           IN  m \in Written(h) /\ m \in Nat /\ \A t \in Written(h) : t <= m
  <1>1. \A n \in DOMAIN h : h[n].checkpoint \in Nat
    BY CheckpointsAreNumbers
  <1>2. Written(h) \in SUBSET Nat /\ Written(h) # {} /\ \A t \in Written(h) : t <= MaxCheckpoint
    BY <1>1, ConstantsAssumption DEF Written, Bounded
  <1>3. \E s \in Written(h) : \A t \in Written(h) : t <= s
    BY <1>2, Greatest, ConstantsAssumption
  <1> QED
    BY <1>2, <1>3

(* What is newest in a history is no newer than in a later one.            *)
LEMMA NewestGrows ==
    ASSUME NEW h \in Seq(Attempt), NEW g \in Seq(Attempt), Bounded(h), Bounded(g), Grown(h, g)
    PROVE  (CHOOSE s \in Written(g) : \A t \in Written(g) : t <= s)
              >= (CHOOSE s \in Written(h) : \A t \in Written(h) : t <= s)
  <1> DEFINE mh == CHOOSE s \in Written(h) : \A t \in Written(h) : t <= s
             mg == CHOOSE s \in Written(g) : \A t \in Written(g) : t <= s
  <1>1. mh \in Written(h) /\ mh \in Nat
    BY GreatestWritten
  <1>2. mg \in Nat /\ \A t \in Written(g) : t <= mg
    BY GreatestWritten
  <1> SUFFICES mg >= mh
    OBVIOUS
  <1> HIDE DEF mh, mg
  <1>3. CASE mh = 0
    BY <1>2, <1>3
  <1>4. CASE mh # 0
    <2>1. PICK n \in DOMAIN h : mh = h[n].checkpoint
      BY <1>1, <1>4 DEF Written
    <2>2. n \in DOMAIN g /\ g[n].checkpoint \in Nat /\ mh <= g[n].checkpoint
      BY <2>1, CheckpointsAreNumbers DEF Grown
    <2>3. g[n].checkpoint <= mg
      BY <1>2, <2>2 DEF Written
    <2> QED
      BY <1>1, <1>2, <2>2, <2>3
  <1> QED
    BY <1>3, <1>4

(* What no step may do to a history.                                       *)
Keeps(h, g) == Grown(h, g) /\ (Bounded(h) => Bounded(g))

LEMMA SameKeeps ==
    ASSUME NEW h \in Seq(Attempt)
    PROVE  Keeps(h, h)
  <1>1. \A n \in DOMAIN h : h[n].checkpoint \in Nat
    BY CheckpointsAreNumbers
  <1> QED
    BY <1>1 DEF Keeps, Grown

LEMMA EndedKeeps ==
    ASSUME NEW h \in Seq(Attempt), NEW n \in DOMAIN h, NEW s \in Ended
    PROVE  Keeps(h, [h EXCEPT ![n].state = s])
  <1> DEFINE e == [h[n] EXCEPT !.state = s]
             g == [h EXCEPT ![n] = e]
  <1>1. h[n] \in Attempt /\ \A k \in DOMAIN h : h[k].checkpoint \in Nat
    BY CheckpointsAreNumbers
  <1>2. e.checkpoint = h[n].checkpoint
    BY <1>1 DEF Attempt
  <1>3. DOMAIN g = DOMAIN h /\ \A k \in DOMAIN h : g[k] = IF k = n THEN e ELSE h[k]
    BY LenProperties
  <1> HIDE DEF e
  <1>4. \A k \in DOMAIN h : g[k].checkpoint = h[k].checkpoint
    BY <1>2, <1>3
  <1>5. Keeps(h, g)
    <2> HIDE DEF g
    <2> QED
      BY <1>1, <1>3, <1>4 DEF Keeps, Grown, Bounded
  <1> QED
    BY <1>5 DEF e

LEMMA CheckpointKeeps ==
    ASSUME NEW h \in Seq(Attempt), NEW n \in DOMAIN h, NEW c \in 1..MaxCheckpoint,
           c > h[n].checkpoint
    PROVE  Keeps(h, [h EXCEPT ![n].checkpoint = c])
  <1> DEFINE e == [h[n] EXCEPT !.checkpoint = c]
             g == [h EXCEPT ![n] = e]
  <1>1. h[n] \in Attempt /\ \A k \in DOMAIN h : h[k].checkpoint \in Nat
    BY CheckpointsAreNumbers
  <1>2. e.checkpoint = c /\ c \in Nat /\ c <= MaxCheckpoint
    BY <1>1, ConstantsAssumption DEF Attempt
  <1>3. DOMAIN g = DOMAIN h /\ \A k \in DOMAIN h : g[k] = IF k = n THEN e ELSE h[k]
    BY LenProperties
  <1> HIDE DEF e
  <1>4. \A k \in DOMAIN h : g[k].checkpoint = IF k = n THEN c ELSE h[k].checkpoint
    BY <1>2, <1>3
  <1>5. Keeps(h, g)
    <2> HIDE DEF g
    <2>1. Grown(h, g)
      BY <1>1, <1>2, <1>3, <1>4 DEF Grown
    <2>2. Bounded(h) => Bounded(g)
      BY <1>2, <1>3, <1>4 DEF Bounded
    <2> QED
      BY <2>1, <2>2 DEF Keeps
  <1> QED
    BY <1>5 DEF e

LEMMA ClaimKeeps ==
    ASSUME NEW h \in Seq(Attempt), NEW t \in Nat
    PROVE  Keeps(h, Append(h, [state |-> "running", fence |-> t, checkpoint |-> 0]))
  <1> DEFINE a == [state |-> "running", fence |-> t, checkpoint |-> 0]
             g == Append(h, a)
  <1>1. /\ DOMAIN g = DOMAIN h \cup {Len(h) + 1}
        /\ \A k \in DOMAIN h : g[k] = h[k]
        /\ g[Len(h) + 1] = a
    BY NewAttempt
  <1>2. \A k \in DOMAIN h : h[k].checkpoint \in Nat
    BY CheckpointsAreNumbers
  <1>3. a.checkpoint = 0 /\ 0 <= MaxCheckpoint
    BY ConstantsAssumption
  <1> HIDE DEF g, a
  <1>4. Keeps(h, g)
    BY <1>1, <1>2, <1>3 DEF Keeps, Grown, Bounded
  <1> QED
    BY <1>4 DEF g, a

LEMMA OneKeeps ==
    ASSUME IInv, NEW i \in Items, NEW g, Keeps(attempts[i], g),
           attempts' = [attempts EXCEPT ![i] = g]
    PROVE  \A k \in Items : Keeps(attempts[k], attempts'[k])
  <1>1. attempts \in [Items -> Seq(Attempt)]
    BY DEF IInv, TypeOK
  <1> QED
    BY <1>1, SameKeeps

LEMMA UntouchedKeeps ==
    ASSUME IInv, UNCHANGED attempts
    PROVE  \A k \in Items : Keeps(attempts[k], attempts'[k])
  BY SameKeeps DEF IInv, TypeOK

LEMMA LiveHistory ==
    ASSUME IInv, NEW w \in Workers, HoldsLiveLease(w)
    PROVE  /\ lease[w].item \in Items /\ attempts[lease[w].item] \in Seq(Attempt)
           /\ lease[w].attempt \in DOMAIN attempts[lease[w].item]
  <1>1. RowTypes /\ OtherTypes /\ RowsOK
    BY TypeParts DEF IInv
  <1> QED
    BY <1>1, LiveLease

(* No step takes an attempt or a checkpoint back.                          *)
LEMMA StepKeeps ==
    ASSUME IInv, [Next]_vars
    PROVE  \A k \in Items : Keeps(attempts[k], attempts'[k])
  <1>0. attempts \in [Items -> Seq(Attempt)] /\ work \in [Items -> Work]
    BY DEF IInv, TypeOK
  <1>1. ASSUME NEW w \in Workers, NEW i \in Items, Claim(w, i)
        PROVE  \A k \in Items : Keeps(attempts[k], attempts'[k])
    <2>1. work[i].fence + 1 \in Nat
      BY <1>0 DEF Work
    <2>2. attempts' = [attempts EXCEPT ![i] =
              Append(@, [state |-> "running", fence |-> work[i].fence + 1, checkpoint |-> 0])]
      BY <1>1 DEF Claim
    <2> QED
      BY <1>0, <2>1, <2>2, ClaimKeeps, OneKeeps
  <1>2. ASSUME NEW w \in Workers, Checkpoint(w)
        PROVE  \A k \in Items : Keeps(attempts[k], attempts'[k])
    <2>1. PICK c \in 1..MaxCheckpoint :
              /\ c > attempts[lease[w].item][lease[w].attempt].checkpoint
              /\ attempts' = [attempts EXCEPT ![lease[w].item] =
                                [@ EXCEPT ![lease[w].attempt].checkpoint = c]]
      BY <1>2 DEF Checkpoint, NewerCheckpoint
    <2>2. HoldsLiveLease(w)
      BY <1>2 DEF Checkpoint
    <2> QED
      BY <2>1, <2>2, LiveHistory, CheckpointKeeps, OneKeeps
  <1>3. ASSUME NEW w \in Workers, CommitSuccess(w)
        PROVE  \A k \in Items : Keeps(attempts[k], attempts'[k])
    <2>1. CASE SuccessAccepted(w)
      <3>1. /\ HoldsLiveLease(w) /\ "succeeded" \in Ended
            /\ attempts' = [attempts EXCEPT ![lease[w].item] =
                              [@ EXCEPT ![lease[w].attempt].state = "succeeded"]]
        BY <1>3, <2>1 DEF CommitSuccess, SuccessAccepted, Ended
      <3> QED
        BY <3>1, LiveHistory, EndedKeeps, OneKeeps
    <2>2. CASE ~ SuccessAccepted(w)
      BY <1>3, <2>2, UntouchedKeeps DEF CommitSuccess
    <2> QED
      BY <2>1, <2>2
  <1>4. ASSUME NEW w \in Workers, NEW retryable \in BOOLEAN, CommitFailure(w, retryable)
        PROVE  \A k \in Items : Keeps(attempts[k], attempts'[k])
    <2>1. CASE FailureRowFound(w) /\ FailureRowUnpacks
      <3>1. /\ HoldsLiveLease(w) /\ "failed" \in Ended
            /\ attempts' = [attempts EXCEPT ![lease[w].item] =
                              [@ EXCEPT ![lease[w].attempt].state = "failed"]]
        BY <1>4, <2>1 DEF CommitFailure, FailureRowFound, Ended
      <3> QED
        BY <3>1, LiveHistory, EndedKeeps, OneKeeps
    <2>2. CASE ~ (FailureRowFound(w) /\ FailureRowUnpacks)
      BY <1>4, <2>2, UntouchedKeeps DEF CommitFailure
    <2> QED
      BY <2>1, <2>2
  <1>5. CASE RecoverExpiredLeases
    <2>1. PICK batch \in SUBSET {i \in Items : LeaseExpired(i)} :
              attempts' = [i \in Items |->
                             IF i \notin batch THEN attempts[i]
                             ELSE [attempts[i] EXCEPT ![work[i].current].state = "failed"]]
      BY <1>5 DEF RecoverExpiredLeases
    <2>2. ASSUME NEW k \in batch
          PROVE  Keeps(attempts[k], [attempts[k] EXCEPT ![work[k].current].state = "failed"])
      <3>1. k \in Items /\ work[k].state = "leased" /\ "failed" \in Ended
        BY DEF LeaseExpired, Ended
      <3>2. RowOK(work[k], op[k], attempts[k]) /\ work[k] \in Work /\ attempts[k] \in Seq(Attempt)
        BY <1>0, <3>1 DEF IInv, RowsOK
      <3>3. work[k].current \in DOMAIN attempts[k]
        <4>1. /\ DOMAIN attempts[k] = 1..Len(attempts[k]) /\ Len(attempts[k]) \in Nat
              /\ work[k].retryCount \in Nat
          BY <3>2, LenProperties DEF Work
        <4> QED
          BY <3>1, <3>2, <4>1 DEF RowOK
      <3> QED
        BY <3>1, <3>2, <3>3, EndedKeeps
    <2> QED
      BY <1>0, <2>1, <2>2, SameKeeps
  <1>6. CASE UNCHANGED attempts
    BY <1>6, UntouchedKeeps
  <1>7. CASE \E w \in Workers : Heartbeat(w) \/ Crash(w)
    BY <1>6, <1>7 DEF Heartbeat, Crash
  <1>8. CASE (\E i \in Items : RecoverDeadLetter(i) \/ ChangeStanding(i)) \/ Tick
    BY <1>6, <1>8 DEF RecoverDeadLetter, ChangeStanding, Tick
  <1>9. CASE UNCHANGED vars
    BY <1>6, <1>9 DEF vars
  <1> QED
    BY <1>1, <1>2, <1>3, <1>4, <1>5, <1>7, <1>8, <1>9 DEF Next, WorkerStep, Finish

AllBounded == \A i \in Items : Bounded(attempts[i])

(* A worker lets go of a lease it has lost without touching a table.       *)
LEMMA LetsGo ==
    ASSUME IInv, [Next]_vars, NEW w \in Workers, Holds(w), ~ HoldsLiveLease(w),
           lease'[w] = NoLease
    PROVE  UNCHANGED durable
  <1>1. lease \in [Workers -> Lease] /\ lease[w] # NoLease
    BY DEF IInv, TypeOK, Holds, NoLease
  <1>2. lease' # lease
    BY <1>1
  <1>3. ASSUME NEW v \in Workers, NEW i \in Items, Claim(v, i)
        PROVE  FALSE
    <2>1. v # w /\ \E l : lease' = [lease EXCEPT ![v] = l]
      BY <1>3 DEF Claim
    <2> QED
      BY <1>1, <2>1
  <1>4. ASSUME NEW v \in Workers, DropLease(v)
        PROVE  v = w
    BY <1>1, <1>4 DEF DropLease
  <1>5. ASSUME NEW v \in Workers, CommitSuccess(v)
        PROVE  UNCHANGED durable
    <2>1. v = w /\ ~ SuccessAccepted(v)
      BY <1>4, <1>5 DEF CommitSuccess, SuccessAccepted
    <2> QED
      BY <1>5, <2>1 DEF CommitSuccess, durable
  <1>6. ASSUME NEW v \in Workers, NEW retryable \in BOOLEAN, CommitFailure(v, retryable)
        PROVE  UNCHANGED durable
    <2>1. v = w /\ ~ FailureRowFound(v)
      BY <1>4, <1>6 DEF CommitFailure, FailureRowFound
    <2> QED
      BY <1>6, <2>1 DEF CommitFailure, durable
  <1>7. ASSUME NEW v \in Workers, Heartbeat(v) \/ Checkpoint(v)
        PROVE  FALSE
    BY <1>2, <1>7 DEF Heartbeat, Checkpoint
  <1>8. ASSUME NEW v \in Workers, Crash(v)
        PROVE  UNCHANGED durable
    BY <1>8 DEF Crash, durable
  <1>9. CASE \/ RecoverExpiredLeases \/ Tick \/ UNCHANGED vars
             \/ \E i \in Items : RecoverDeadLetter(i) \/ ChangeStanding(i)
    BY <1>2, <1>9 DEF RecoverExpiredLeases, Tick, vars, RecoverDeadLetter, ChangeStanding
  <1> QED
    BY <1>3, <1>5, <1>6, <1>7, <1>8, <1>9 DEF Next, WorkerStep, Finish

(* A worker that finishes with a lease it lost changes no table, and what  *)
(* the next attempt resumes from never goes back (commit_success,          *)
(* commit_failure, checkpoint, latest_checkpoint).                         *)
THEOREM StaleLeaseIsHarmlessHolds == Spec => StaleLeaseIsHarmless
  <1> DEFINE Step ==
        /\ \A w \in Workers :
              Holds(w) /\ ~HoldsLiveLease(w) /\ lease'[w] = NoLease => UNCHANGED durable
        /\ \A i \in Items : LatestCheckpoint(i)' >= LatestCheckpoint(i)
  <1>1. Init => AllBounded
    BY DEF Init, AllBounded, Bounded
  <1>2. IInv /\ AllBounded /\ [Next]_vars => AllBounded'
    BY StepKeeps DEF AllBounded, Keeps
  <1>3. ASSUME IInv, IInv', AllBounded, AllBounded', [Next]_vars
        PROVE  Step
    <2>1. \A i \in Items : LatestCheckpoint(i)' >= LatestCheckpoint(i)
      <3> SUFFICES ASSUME NEW i \in Items PROVE LatestCheckpoint(i)' >= LatestCheckpoint(i)
        OBVIOUS
      <3>1. attempts[i] \in Seq(Attempt) /\ attempts'[i] \in Seq(Attempt)
        BY <1>3 DEF IInv, TypeOK
      <3>2. Bounded(attempts[i]) /\ Bounded(attempts'[i])
        BY <1>3 DEF AllBounded, Bounded
      <3>3. Grown(attempts[i], attempts'[i])
        BY <1>3, StepKeeps DEF Keeps
      <3>4. (CHOOSE s \in Written(attempts'[i]) : \A t \in Written(attempts'[i]) : t <= s)
              >= (CHOOSE s \in Written(attempts[i]) : \A t \in Written(attempts[i]) : t <= s)
        BY <3>1, <3>2, <3>3, NewestGrows
      <3> QED
        BY <3>4 DEF LatestCheckpoint, Written
    <2> QED
      BY <1>3, <2>1, LetsGo
  <1>4. Spec => []AllBounded
    <2>1. Init => IInv
      BY InitEstablishes
    <2>2. IInv /\ [Next]_vars => IInv'
      BY NextPreserves
    <2> QED
      BY <1>1, <1>2, <2>1, <2>2, PTL DEF Spec
  <1>5. Spec => [][Step]_vars
    <2>1. IInv /\ IInv' /\ AllBounded /\ AllBounded' /\ [Next]_vars => [Step]_vars
      BY <1>3
    <2> HIDE DEF Step
    <2> QED
      BY <1>4, <2>1, Inductive, PTL DEF Spec
  <1> QED
    BY <1>5 DEF StaleLeaseIsHarmless

-----------------------------------------------------------------------------
(***************************************************************************)
(* ProcessingDelivery.  The composition implements both its parts, so all  *)
(* that is proved of them holds of it.  That a wake-up is not lost is not  *)
(* inductive: a row about to be confirmed is still 'publishing' though its *)
(* one copy may be handled already, so what counts is that the broker was  *)
(* handed the copy first (CopiesHeld and the outbox's Offering); and it must *)
(* be known of all unsettled work, leased or waiting, that something will  *)
(* offer it again (KeptOffered).                                           *)
(***************************************************************************)

OP == INSTANCE ProcessingOutboxProofs WITH ready <- Ready, AttemptNumberUnique <- TRUE

(* The consumers handling a copy of a message.                             *)
HandlersOf(r) == {w \in Workers : inflight[w] = r}

(* No copy is anywhere that a relay has not sent.                          *)
CopiesHeld ==
    \A r \in Rows :
        IsFiniteSet(HandlersOf(r)) /\ broker[r] + Cardinality(HandlersOf(r)) <= sent[r]

LeaseIsOfDelivery ==
    \A w \in Workers : inflight[w] # NoMessage /\ Holds(w) => lease[w].item = inflight[w][1]

(* A relay will still send the message, the broker holds it, or a consumer *)
(* handles it.                                                             *)
Wakes(r) == OP!Offering(r) \/ broker[r] > 0 \/ HandlersOf(r) # {}

OnItsWay(i) == \E e \in Events : Wakes(<<i, e>>) \/ OP!GivenUp(<<i, e>>)

(* Work that has not settled, claimable or not, is still on its way.       *)
KeptOffered ==
    \A i \in Items : work[i].state \notin Settled => OnItsWay(i) \/ i \in turnedAway

IntentsHaveRows ==
    \A i \in Items, e \in Events :
        (outbox[<<i, e>>].state # "absent") = (e \in intents[i])

BrokerType == broker \in [Rows -> Nat]

DeliveryIInv == DeliveryTypeOK /\ CopiesHeld /\ LeaseIsOfDelivery /\ KeptOffered

(* What the two parts are known to keep.                                   *)
PartsOK == IInv /\ AllExplained /\ OP!IInv /\ OP!RecordsOK

-----------------------------------------------------------------------------
(* The composition implements its two parts.                               *)

InflightType == inflight \in [Workers -> Rows \cup {NoMessage}]

LEMMA InflightTyped == DeliverySpec => []InflightType
  <1>1. DeliveryInit => InflightType
    BY DEF DeliveryInit, InflightType
  <1>2. InflightType /\ [DeliveryNext]_deliveryVars => InflightType'
    BY DEF InflightType, DeliveryNext, deliveryVars, deliveries, Deliver, HandleStep, ClaimDelivered,
           AcknowledgeUnclaimed, FinishDelivery, CrashConsumer, EndDelivery, ClaimCandidate,
           Repository, RelayNext, Relaying
  <1> QED
    BY <1>1, <1>2, PTL DEF DeliverySpec

LEMMA DeliveryStepsWork ==
    ASSUME InflightType, [DeliveryNext]_deliveryVars
    PROVE  [Next]_vars
  <1> SUFFICES ASSUME ~ UNCHANGED vars PROVE Next
    OBVIOUS
  <1>1. DeliveryNext
    BY DEF deliveryVars
  <1>2. ASSUME NEW w \in Workers, HandleStep(w) PROVE Next
    <2>1. CASE ClaimDelivered(w)
      <3>1. Claim(w, inflight[w][1]) /\ inflight[w] \in Rows
        BY <2>1 DEF ClaimDelivered, InflightType
      <3>2. inflight[w][1] \in Items
        BY <3>1 DEF Rows
      <3> QED
        BY <3>1, <3>2 DEF Next, WorkerStep
    <2>2. CASE FinishDelivery(w)
      BY <2>2 DEF FinishDelivery, Next, WorkerStep, Finish
    <2>3. CASE CrashConsumer(w)
      BY <2>3 DEF CrashConsumer, Next, WorkerStep
    <2> QED
      BY <1>2, <2>1, <2>2, <2>3 DEF HandleStep, AcknowledgeUnclaimed
  <1> QED
    BY <1>1, <1>2 DEF DeliveryNext, Deliver, ClaimCandidate, Repository, RelayNext, Next, WorkerStep

(* Whatever delivers its messages, the processing work keeps to its        *)
(* specification.                                                          *)
THEOREM DeliveryImplementsWork == DeliverySpec => Spec
  <1>1. DeliveryInit => Init
    BY DEF DeliveryInit
  <1>2. InflightType /\ [DeliveryNext]_deliveryVars => [Next]_vars
    BY DeliveryStepsWork
  <1> QED
    BY <1>1, <1>2, InflightTyped, PTL DEF DeliverySpec, Spec

LEMMA SameRelaySteps == Outbox!OutboxStep => OP!OutboxStep
  <1>1. Outbox!RecoverStaleClaims => OP!RecoverStaleClaims
    BY DEF Outbox!RecoverStaleClaims, OP!RecoverStaleClaims, Outbox!Stale, OP!Stale, Outbox!Unclaimed, OP!Unclaimed
  <1>2. ASSUME NEW k \in Relays, Outbox!ClaimDue(k) PROVE OP!ClaimDue(k)
    <2>1. {r \in Rows : Outbox!Due(r)} = {r \in Rows : OP!Due(r)}
      BY DEF Outbox!Due, OP!Due
    <2>2. PICK batch \in SUBSET {r \in Rows : Outbox!Due(r)} :
            /\ batch # {} /\ Outbox!Cardinality(batch) <= PublishLimit
            /\ outbox' = [r \in Rows |->
                   IF r \notin batch THEN outbox[r] ELSE Outbox!Claimed(outbox[r])]
            /\ attemptLog' = [r \in Rows |->
                   IF r \notin batch THEN attemptLog[r]
                   ELSE attemptLog[r] \cup {[number |-> outbox[r].attempts + 1, state |-> "attempted"]}]
            /\ relay' = [relay EXCEPT ![k].held =
                   {[row |-> r, number |-> outbox[r].attempts + 1] : r \in batch}]
      BY <1>2 DEF Outbox!ClaimDue
    <2>3. outbox' = [r \in Rows |-> IF r \notin batch THEN outbox[r] ELSE OP!Claimed(outbox[r])]
      BY <2>2 DEF Outbox!Claimed, OP!Claimed
    <2>4. relay[k] = OP!IdleRelay /\ UNCHANGED <<sent, Ready>>
      BY <1>2 DEF Outbox!ClaimDue, Outbox!IdleRelay, OP!IdleRelay
    <2>5. batch \in SUBSET {r \in Rows : OP!Due(r)}
      BY <2>1
    <2>6. \E b \in SUBSET {r \in Rows : OP!Due(r)} :
            /\ b # {} /\ OP!Cardinality(b) <= PublishLimit
            /\ outbox' = [r \in Rows |->
                   IF r \notin b THEN outbox[r] ELSE OP!Claimed(outbox[r])]
            /\ attemptLog' = [r \in Rows |->
                   IF r \notin b THEN attemptLog[r]
                   ELSE attemptLog[r] \cup {[number |-> outbox[r].attempts + 1, state |-> "attempted"]}]
            /\ relay' = [relay EXCEPT ![k].held =
                   {[row |-> r, number |-> outbox[r].attempts + 1] : r \in b}]
      <3> WITNESS batch \in SUBSET {r \in Rows : OP!Due(r)}
      <3>1. Outbox!Cardinality(batch) = OP!Cardinality(batch)
        BY DEF Outbox!Cardinality, OP!Cardinality
      <3> QED
        BY <2>2, <2>3, <3>1
    <2> QED
      BY <2>4, <2>6 DEF OP!ClaimDue
  <1>3. ASSUME NEW k \in Relays, Outbox!Publish(k) PROVE OP!Publish(k)
    BY <1>3 DEF Outbox!Publish, OP!Publish, Outbox!Outcome, OP!Outcome
  <1>4. ASSUME NEW k \in Relays, Outbox!Acknowledge(k) PROVE OP!Acknowledge(k)
    BY <1>4 DEF Outbox!Acknowledge, OP!Acknowledge, Outbox!Acknowledged, OP!Acknowledged, Outbox!Proceed, OP!Proceed, Outbox!StillClaimed, OP!StillClaimed, Outbox!Unclaimed, OP!Unclaimed, Outbox!Numbers, OP!Numbers
  <1>5. ASSUME NEW k \in Relays, Outbox!AcknowledgeRaises(k) PROVE OP!AcknowledgeRaises(k)
    BY <1>5 DEF Outbox!AcknowledgeRaises, OP!AcknowledgeRaises, Outbox!Acknowledged, OP!Acknowledged
  <1>6. ASSUME NEW k \in Relays, Outbox!RecordFailure(k) PROVE OP!RecordFailure(k)
    BY <1>6 DEF Outbox!RecordFailure, OP!RecordFailure, Outbox!Acknowledged, OP!Acknowledged, Outbox!Proceed, OP!Proceed, Outbox!StillClaimed, OP!StillClaimed, Outbox!Unclaimed, OP!Unclaimed, Outbox!Numbers, OP!Numbers, Outbox!FailureClass, OP!FailureClass, Outbox!LogState, OP!LogState, Outbox!IdleRelay, OP!IdleRelay
  <1>7. ASSUME NEW k \in Relays, Outbox!CrashRelay(k) PROVE OP!CrashRelay(k)
    BY <1>7 DEF Outbox!CrashRelay, OP!CrashRelay, Outbox!IdleRelay, OP!IdleRelay
  <1>8. ASSUME NEW r \in Rows, Outbox!BackoffEnds(r) PROVE OP!BackoffEnds(r)
    BY <1>8 DEF Outbox!BackoffEnds, OP!BackoffEnds
  <1> QED
    BY <1>1, <1>2, <1>3, <1>4, <1>5, <1>6, <1>7, <1>8
       DEF Outbox!OutboxStep, OP!OutboxStep, Outbox!RelayStep, OP!RelayStep

LEMMA OutboxConstants ==
    /\ PublishLimit \in Nat \ {0} /\ MaxPublishAttempts \in Nat \ {0}
    /\ TRUE \in BOOLEAN
  BY DeliveryAssumption

LEMMA OutboxStarts == DeliveryInit => OP!OutboxInit
  <1> SUFFICES ASSUME DeliveryInit PROVE OP!OutboxInit
    OBVIOUS
  <1>1. /\ outbox = [r \in Rows |-> IF r[2].kind = "requested" THEN Outbox!Fresh ELSE Outbox!Absent]
        /\ attemptLog = [r \in Rows |-> {}] /\ sent = [r \in Rows |-> 0]
        /\ relay = [k \in Relays |-> Outbox!IdleRelay]
    BY DEF DeliveryInit
  <1>2. Outbox!Fresh = OP!Fresh /\ Outbox!Absent = OP!Absent /\ Outbox!IdleRelay = OP!IdleRelay
    BY DEF Outbox!Fresh, OP!Fresh, Outbox!Absent, OP!Absent, Outbox!IdleRelay, OP!IdleRelay
  <1>3. outbox \in [Rows -> {OP!Absent, OP!Fresh}]
    BY <1>1, <1>2
  <1>4. relay = [k \in Relays |-> OP!IdleRelay] /\ Ready \in SUBSET Rows
    BY <1>1, <1>2 DEF Ready
  <1> QED
    BY <1>1, <1>3, <1>4 DEF OP!OutboxInit

(* The transactions of the work are the outbox's WorkChanges.              *)
LEMMA InsertsAreWork ==
    ASSUME NEW new \in SUBSET Rows, Outbox!Insert(new)
    PROVE  OP!WorkChanges
  <1>1. OP!Insert(new) /\ new \in SUBSET {r \in Rows : outbox[r].state = "absent"}
    BY DEF Outbox!Insert, OP!Insert, Outbox!Fresh, OP!Fresh
  <1>2. Ready' \in SUBSET Rows
    BY DEF Ready
  <1> QED
    BY <1>1, <1>2 DEF OP!WorkChanges

LEMMA IdleTablesAreWork ==
    ASSUME OP!IInv, UNCHANGED tables
    PROVE  OP!WorkChanges
  <1>1. outbox = [r \in Rows |-> outbox[r]]
    BY DEF OP!IInv, OP!OutboxTypeOK
  <1>2. Outbox!Insert({})
    BY <1>1 DEF tables, Outbox!Insert
  <1> QED
    BY <1>2, InsertsAreWork

LEMMA DeliveryStepsOutbox ==
    ASSUME OP!IInv, [DeliveryNext]_deliveryVars
    PROVE  [OP!OutboxNext]_OP!outboxVars
  <1>1. CASE UNCHANGED tables
    BY <1>1, IdleTablesAreWork DEF OP!OutboxNext
  <1>2. CASE InsertIntents
    BY <1>2, InsertsAreWork DEF InsertIntents, OP!OutboxNext
  <1>3. CASE RelayNext
    BY <1>3, SameRelaySteps DEF RelayNext, Relaying, OP!OutboxNext
  <1> QED
    BY <1>1, <1>2, <1>3
       DEF DeliveryNext, deliveryVars, Deliver, HandleStep, ClaimDelivered, AcknowledgeUnclaimed,
           FinishDelivery, CrashConsumer, ClaimCandidate, Repository

(* The rows, the relays and the broker's messages keep to the outbox's     *)
(* specification, and with it to what DurableHandoff promises.             *)
THEOREM DeliveryImplementsOutbox == DeliverySpec => OP!OutboxSpec
  <1>1. OP!OutboxInit => OP!IInv
    BY OP!Init, OutboxConstants
  <1>2. OP!IInv /\ [OP!OutboxNext]_OP!outboxVars => OP!IInv'
    BY OP!NextPreserves, OutboxConstants
  <1>3. OP!IInv /\ [DeliveryNext]_deliveryVars => [OP!OutboxNext]_OP!outboxVars
    BY DeliveryStepsOutbox
  <1> QED
    BY OutboxStarts, <1>1, <1>2, <1>3, PTL DEF DeliverySpec, OP!OutboxSpec

-----------------------------------------------------------------------------
(* What the proofs about the parts give for every step.                    *)

LEMMA PartsKept == DeliverySpec => []PartsOK
  <1>1. OP!OutboxSpec => []OP!IInv
    BY OP!Inductive, OutboxConstants
  <1>2. OP!OutboxSpec => []OP!RecordsOK
    BY OP!RecordsAreKept, OutboxConstants
  <1> QED
    BY <1>1, <1>2, DeliveryImplementsWork, DeliveryImplementsOutbox, Inductive, ExplainedInductive, PTL
       DEF PartsOK

LEMMA RowsGoOn ==
    ASSUME OP!IInv, OP!RecordsOK, [DeliveryNext]_deliveryVars, NEW r \in Rows
    PROVE  /\ OP!Offering(r) => OP!Offering(r)' \/ OP!GivenUp(r)' \/ sent'[r] > sent[r]
           /\ OP!GivenUp(r) => OP!GivenUp(r)'
           /\ sent'[r] >= sent[r]
           /\ outbox[r].state # "absent" => outbox'[r].state # "absent"
           /\ sent[r] \in Nat /\ sent'[r] \in Nat
  <1>1. [OP!OutboxNext]_OP!outboxVars
    BY DeliveryStepsOutbox
  <1>2. OP!IInv'
    BY <1>1, OP!NextPreserves, OutboxConstants
  <1>3. sent[r] \in Nat /\ sent'[r] \in Nat
    BY <1>2, OutboxConstants DEF OP!IInv, OP!OutboxTypeOK
  <1>4. /\ OP!Offering(r) => OP!Offering(r)' \/ OP!GivenUp(r)' \/ sent'[r] > sent[r]
        /\ OP!GivenUp(r) => OP!GivenUp(r)'
    BY <1>1, OP!OfferingLasts, OutboxConstants
  <1>5. sent'[r] >= sent[r] /\ (outbox[r].state # "absent" => outbox'[r].state # "absent")
    BY <1>1, OP!RowsStay, OutboxConstants
  <1> QED
    BY <1>3, <1>4, <1>5

LEMMA IntentsGrow ==
    ASSUME TypeOK, [Next]_vars, NEW i \in Items
    PROVE  intents[i] \subseteq intents'[i]
  <1>1. ASSUME NEW j \in Items, NEW kind, NEW n, AddIntent(j, kind, n)
        PROVE  intents[i] \subseteq intents'[i]
    BY <1>1 DEF AddIntent, TypeOK
  <1>2. ASSUME NEW w \in Workers, WorkerStep(w)
        PROVE  intents[i] \subseteq intents'[i]
    <2>1. ASSUME NEW retryable \in BOOLEAN, CommitFailure(w, retryable)
          PROVE  intents[i] \subseteq intents'[i]
      <3>1. UNCHANGED intents \/ AddIntent(lease[w].item, "retry", lease[w].attempt)
        BY <2>1 DEF CommitFailure
      <3>2. AddIntent(lease[w].item, "retry", lease[w].attempt) => intents[i] \subseteq intents'[i]
        BY DEF AddIntent, TypeOK
      <3> QED
        BY <3>1, <3>2
    <2> QED
      BY <1>2, <2>1 DEF WorkerStep, Finish, CommitSuccess, Claim, Heartbeat, Checkpoint, Crash
  <1>3. ASSUME NEW j \in Items, RecoverDeadLetter(j)
        PROVE  intents[i] \subseteq intents'[i]
    BY <1>1, <1>3 DEF RecoverDeadLetter
  <1> QED
    BY <1>2, <1>3 DEF Next, RecoverExpiredLeases, ChangeStanding, Tick, vars

LEMMA InsertedRows ==
    ASSUME InsertIntents, NEW i \in Items, NEW e \in Events
    PROVE  outbox'[<<i, e>>] = IF e \in intents'[i] \ intents[i] THEN OP!Fresh ELSE outbox[<<i, e>>]
  <1>1. <<i, e>> \in Rows
    BY DEF Rows
  <1> QED
    BY <1>1 DEF InsertIntents, Outbox!Insert, Outbox!Fresh, OP!Fresh

LEMMA NewIntentOffers ==
    ASSUME InsertIntents, NEW i \in Items, NEW e \in Events, e \in intents'[i], e \notin intents[i]
    PROVE  OP!Offering(<<i, e>>)'
  <1>1. outbox'[<<i, e>>] = OP!Fresh
    BY InsertedRows
  <1> QED
    BY <1>1, DeliveryAssumption DEF OP!Offering, OP!Fresh

-----------------------------------------------------------------------------
(* One lemma per conjunct: a step keeps it.                                *)

LEMMA EndKeepsCopies ==
    ASSUME InflightType, BrokerType, CopiesHeld, NEW w \in Workers, NEW acknowledged,
           EndDelivery(w, acknowledged), \A r \in Rows : sent'[r] >= sent[r] /\ sent[r] \in Nat /\ sent'[r] \in Nat
    PROVE  BrokerType' /\ CopiesHeld'
  <1>0. /\ \A r \in Rows : broker[r] \in Nat
        /\ \A v \in Workers : inflight'[v] = IF v = w THEN NoMessage ELSE inflight[v]
        /\ NoMessage \notin Rows
    BY DeliveryAssumption DEF BrokerType, InflightType, EndDelivery
  <1>1. BrokerType'
    <2>1. CASE broker' = broker
      BY <2>1 DEF BrokerType
    <2>2. CASE inflight[w] \in Rows /\ broker' = [broker EXCEPT ![inflight[w]] = @ + 1]
      <3>1. broker[inflight[w]] + 1 \in Nat
        BY <1>0, <2>2
      <3> QED
        BY <2>2, <3>1 DEF BrokerType
    <2> QED
      BY <2>1, <2>2 DEF EndDelivery, InflightType
  <1>2. ASSUME NEW r \in Rows
        PROVE  IsFiniteSet(HandlersOf(r))' /\ broker'[r] + Cardinality(HandlersOf(r))' <= sent'[r]
    <2>0. IsFiniteSet(HandlersOf(r)) /\ Cardinality(HandlersOf(r)) \in Nat
          /\ broker[r] + Cardinality(HandlersOf(r)) <= sent[r]
      BY FS_CardinalityType DEF CopiesHeld
    <2>1. CASE w \in HandlersOf(r)
      <3>1. HandlersOf(r)' = HandlersOf(r) \ {w} /\ inflight[w] = r
        BY <1>0, <2>1 DEF HandlersOf
      <3>2. /\ IsFiniteSet(HandlersOf(r)')
            /\ Cardinality(HandlersOf(r)') = Cardinality(HandlersOf(r)) - 1
        BY <2>0, <2>1, <3>1, FS_RemoveElement
      <3>3. broker'[r] \in Nat /\ broker'[r] <= broker[r] + 1
        BY <1>0, <3>1 DEF EndDelivery, BrokerType
      <3> QED
        BY <1>0, <2>0, <3>2, <3>3
    <2>2. CASE w \notin HandlersOf(r)
      <3>1. HandlersOf(r)' = HandlersOf(r)
        BY <1>0, <2>2 DEF HandlersOf
      <3>2. broker'[r] = broker[r]
        BY <1>0, <2>2 DEF EndDelivery, BrokerType, HandlersOf
      <3> QED
        BY <1>0, <2>0, <3>1, <3>2
    <2> QED
      BY <2>1, <2>2
  <1> QED
    BY <1>1, <1>2 DEF CopiesHeld

LEMMA CopiesKept ==
    ASSUME OP!IInv, OP!RecordsOK, InflightType, BrokerType, CopiesHeld, [DeliveryNext]_deliveryVars
    PROVE  BrokerType' /\ CopiesHeld'
  <1>0. \A r \in Rows : sent'[r] >= sent[r] /\ sent[r] \in Nat /\ sent'[r] \in Nat /\ broker[r] \in Nat
    BY RowsGoOn DEF BrokerType
  <1>1. \A r \in Rows : /\ IsFiniteSet(HandlersOf(r)) /\ Cardinality(HandlersOf(r)) \in Nat
                        /\ broker[r] + Cardinality(HandlersOf(r)) <= sent[r]
    BY FS_CardinalityType DEF CopiesHeld
  <1>2. CASE UNCHANGED <<broker, inflight>>
    BY <1>0, <1>1, <1>2 DEF CopiesHeld, BrokerType, HandlersOf
  <1>3. ASSUME NEW w \in Workers, NEW q \in Rows, Deliver(w, q)
        PROVE  BrokerType' /\ CopiesHeld'
    <2>1. /\ inflight[w] = NoMessage /\ broker[q] > 0
          /\ \A v \in Workers : inflight'[v] = IF v = w THEN q ELSE inflight[v]
          /\ \A r \in Rows : broker'[r] = IF r = q THEN broker[q] - 1 ELSE broker[r]
          /\ broker' \in [Rows -> Nat]
      BY <1>0, <1>3 DEF Deliver, Idle, BrokerType, InflightType
    <2>2. w \notin HandlersOf(q)
      BY <2>1, DeliveryAssumption DEF HandlersOf
    <2>3. HandlersOf(q)' = HandlersOf(q) \cup {w}
      BY <2>1 DEF HandlersOf
    <2>4. /\ IsFiniteSet(HandlersOf(q)')
          /\ Cardinality(HandlersOf(q)') = Cardinality(HandlersOf(q)) + 1
      BY <1>1, <2>2, <2>3, FS_AddElement
    <2>5. \A r \in Rows \ {q} : HandlersOf(r)' = HandlersOf(r)
      BY <2>1, DeliveryAssumption DEF HandlersOf
    <2>6. ASSUME NEW r \in Rows
          PROVE  IsFiniteSet(HandlersOf(r))' /\ broker'[r] + Cardinality(HandlersOf(r))' <= sent'[r]
      BY <1>0, <1>1, <2>1, <2>4, <2>5
    <2> QED
      BY <2>1, <2>6 DEF CopiesHeld, BrokerType
  <1>4. ASSUME NEW w \in Workers, NEW acknowledged, EndDelivery(w, acknowledged)
        PROVE  BrokerType' /\ CopiesHeld'
    BY <1>0, <1>4, EndKeepsCopies
  <1>5. CASE RelayNext
    <2>1. /\ \A r \in Rows : broker'[r] = broker[r] + (sent'[r] - sent[r])
          /\ broker' = [r \in Rows |-> broker[r] + (sent'[r] - sent[r])]
          /\ inflight' = inflight
      BY <1>5 DEF RelayNext, Relaying
    <2>2. \A r \in Rows : broker'[r] \in Nat /\ broker'[r] + Cardinality(HandlersOf(r)) <= sent'[r]
      BY <1>0, <1>1, <2>1
    <2>3. \A r \in Rows : HandlersOf(r)' = HandlersOf(r)
      BY <2>1 DEF HandlersOf
    <2> QED
      BY <1>1, <2>1, <2>2, <2>3 DEF CopiesHeld, BrokerType
  <1> QED
    BY <1>2, <1>3, <1>4, <1>5
       DEF DeliveryNext, deliveryVars, deliveries, HandleStep, ClaimDelivered, AcknowledgeUnclaimed,
           FinishDelivery, CrashConsumer, ClaimCandidate, Repository

LEMMA LeasesKeptWithDeliveries ==
    ASSUME TypeOK, InflightType, LeaseIsOfDelivery, [DeliveryNext]_deliveryVars
    PROVE  LeaseIsOfDelivery'
  <1>0. /\ DOMAIN lease = Workers /\ DOMAIN inflight = Workers
        /\ lease \in [Workers -> Lease] /\ NoMessage \notin Rows
    BY DeliveryAssumption DEF TypeOK, InflightType
  <1>1. ASSUME NEW w \in Workers, inflight'[w] = NoMessage \/ lease'[w].item = NoItem
                                  \/ lease'[w].item = inflight'[w][1],
               \A v \in Workers \ {w} : lease'[v] = lease[v] /\ inflight'[v] = inflight[v]
        PROVE  LeaseIsOfDelivery'
    BY <1>1 DEF LeaseIsOfDelivery, Holds
  <1>2. CASE UNCHANGED <<lease, inflight>>
    BY <1>2 DEF LeaseIsOfDelivery, Holds
  <1>3. ASSUME NEW w \in Workers, NEW r \in Rows, Deliver(w, r) PROVE LeaseIsOfDelivery'
    <2>1. lease'[w].item = NoItem /\ \A v \in Workers \ {w} : lease'[v] = lease[v] /\ inflight'[v] = inflight[v]
      BY <1>0, <1>3 DEF Deliver, Idle, Holds, vars
    <2> QED
      BY <1>1, <2>1
  <1>4. ASSUME NEW w \in Workers, NEW acknowledged, EndDelivery(w, acknowledged),
               lease' = lease \/ DropLease(w)
        PROVE  LeaseIsOfDelivery'
    <2>1. inflight'[w] = NoMessage /\ \A v \in Workers \ {w} : lease'[v] = lease[v] /\ inflight'[v] = inflight[v]
      BY <1>0, <1>4 DEF EndDelivery, DropLease
    <2> QED
      BY <1>1, <2>1
  <1>5. ASSUME NEW w \in Workers, NEW i, Claim(w, i), UNCHANGED inflight
        PROVE  lease'[w].item = i /\ \A v \in Workers \ {w} : lease'[v] = lease[v] /\ inflight'[v] = inflight[v]
    BY <1>0, <1>5 DEF Claim
  <1>6. ASSUME NEW w \in Workers, HandleStep(w) PROVE LeaseIsOfDelivery'
    <2>1. CASE ClaimDelivered(w)
      <3>1. lease'[w].item = inflight'[w][1] /\ \A v \in Workers \ {w} : lease'[v] = lease[v] /\ inflight'[v] = inflight[v]
        BY <1>5, <2>1 DEF ClaimDelivered
      <3> QED
        BY <1>1, <3>1
    <2>2. CASE AcknowledgeUnclaimed(w)
      BY <1>4, <2>2 DEF AcknowledgeUnclaimed, vars
    <2>3. CASE FinishDelivery(w)
      BY <1>4, <2>3 DEF FinishDelivery, CommitSuccess, CommitFailure
    <2>4. CASE CrashConsumer(w)
      BY <1>4, <2>4 DEF CrashConsumer, Crash, vars
    <2> QED
      BY <1>6, <2>1, <2>2, <2>3, <2>4 DEF HandleStep
  <1>7. ASSUME NEW w \in Workers, NEW i \in Items, ClaimCandidate(w, i) PROVE LeaseIsOfDelivery'
    <2>1. inflight'[w] = NoMessage /\ \A v \in Workers \ {w} : lease'[v] = lease[v] /\ inflight'[v] = inflight[v]
      BY <1>5, <1>7 DEF ClaimCandidate, deliveries
    <2> QED
      BY <1>1, <2>1
  <1>8. CASE Repository
    BY <1>2, <1>8 DEF Repository, deliveries, Heartbeat, Checkpoint, RecoverExpiredLeases,
                      ChangeStanding, RecoverDeadLetter, Tick
  <1>9. CASE RelayNext
    BY <1>2, <1>9 DEF RelayNext, Relaying, vars
  <1>10. CASE UNCHANGED deliveryVars
    BY <1>2, <1>10 DEF deliveryVars, deliveries, vars
  <1> QED
    BY <1>3, <1>6, <1>7, <1>8, <1>9, <1>10 DEF DeliveryNext

LEMMA IntentsKeepRows ==
    ASSUME TypeOK, OP!IInv, InflightType, IntentsHaveRows, [DeliveryNext]_deliveryVars
    PROVE  IntentsHaveRows'
  <1>0. [Next]_vars
    BY DeliveryStepsWork
  <1> SUFFICES ASSUME NEW i \in Items, NEW e \in Events
               PROVE  (outbox'[<<i, e>>].state # "absent") = (e \in intents'[i])
    BY DEF IntentsHaveRows
  <1>1. /\ (outbox[<<i, e>>].state # "absent") = (e \in intents[i])
        /\ intents[i] \subseteq intents'[i] /\ <<i, e>> \in Rows
    BY <1>0, IntentsGrow DEF IntentsHaveRows, Rows
  <1>2. CASE InsertIntents
    <2>1. outbox'[<<i, e>>] = IF e \in intents'[i] \ intents[i] THEN OP!Fresh ELSE outbox[<<i, e>>]
      BY <1>2, InsertedRows
    <2> QED
      BY <1>1, <2>1 DEF OP!Fresh
  <1>3. CASE UNCHANGED <<intents, outbox>>
    BY <1>1, <1>3
  <1>4. CASE RelayNext
    <2>1. OP!OutboxStep /\ intents' = intents
      BY <1>4, SameRelaySteps DEF RelayNext, Relaying, vars
    <2>2. outbox[<<i, e>>].state = "absent" => outbox'[<<i, e>>].state = "absent"
      BY <1>1, <2>1, OP!RelaysInsertNothing, OutboxConstants
    <2>3. outbox[<<i, e>>].state # "absent" => outbox'[<<i, e>>].state # "absent"
      BY <1>1, <2>1, OP!RowsStay, OutboxConstants DEF OP!OutboxNext
    <2> QED
      BY <1>1, <2>1, <2>2, <2>3
  <1> QED
    BY <1>2, <1>3, <1>4
       DEF DeliveryNext, deliveryVars, tables, vars, Deliver, HandleStep, ClaimDelivered, Claim,
           AcknowledgeUnclaimed, FinishDelivery, CrashConsumer, Crash, ClaimCandidate, Repository

-----------------------------------------------------------------------------
(* Unsettled work stays on its way.                                        *)

(* No step but an acknowledgement takes an offer away: the broker may hand *)
(* a copy over, a consumer may give it back, a relay may send it.          *)
LEMMA StaysOnItsWay ==
    ASSUME OP!IInv, OP!RecordsOK, [DeliveryNext]_deliveryVars, NEW i \in Items, OnItsWay(i),
           \A e \in Events :
              /\ broker[<<i, e>>] > 0 \/ HandlersOf(<<i, e>>) # {} =>
                    broker'[<<i, e>>] > 0 \/ HandlersOf(<<i, e>>)' # {}
              /\ sent'[<<i, e>>] > sent[<<i, e>>] => broker'[<<i, e>>] > 0
    PROVE  OnItsWay(i)'
  <1>1. PICK e \in Events : Wakes(<<i, e>>) \/ OP!GivenUp(<<i, e>>)
    BY DEF OnItsWay
  <1>2. <<i, e>> \in Rows
    BY DEF Rows
  <1>3. /\ OP!Offering(<<i, e>>) =>
              OP!Offering(<<i, e>>)' \/ OP!GivenUp(<<i, e>>)' \/ sent'[<<i, e>>] > sent[<<i, e>>]
        /\ OP!GivenUp(<<i, e>>) => OP!GivenUp(<<i, e>>)'
    BY <1>2, RowsGoOn
  <1>4. Wakes(<<i, e>>)' \/ OP!GivenUp(<<i, e>>)'
    BY <1>1, <1>3 DEF Wakes
  <1> QED
    BY <1>4 DEF OnItsWay

(* The same for a step that no relay takes.                                *)
LEMMA StaysWithoutRelays ==
    ASSUME OP!IInv, OP!RecordsOK, [DeliveryNext]_deliveryVars, NEW i \in Items, OnItsWay(i),
           UNCHANGED sent,
           \A e \in Events : broker[<<i, e>>] > 0 \/ HandlersOf(<<i, e>>) # {} =>
                                broker'[<<i, e>>] > 0 \/ HandlersOf(<<i, e>>)' # {}
    PROVE  OnItsWay(i)'
  <1>1. \A e \in Events : ~ (sent'[<<i, e>>] > sent[<<i, e>>])
    <2> TAKE e \in Events
    <2>1. <<i, e>> \in Rows
      BY DEF Rows
    <2> QED
      BY <2>1, RowsGoOn
  <1> QED
    BY <1>1, StaysOnItsWay

(* A delivery that ends unacknowledged goes back to the broker.            *)
LEMMA UnacknowledgedStays ==
    ASSUME OP!IInv, OP!RecordsOK, [DeliveryNext]_deliveryVars, NEW i \in Items, OnItsWay(i),
           UNCHANGED sent, InflightType, BrokerType,
           NEW w \in Workers, NEW acknowledged, EndDelivery(w, acknowledged),
           ~ acknowledged \/ inflight[w] = NoMessage \/ inflight[w][1] # i
    PROVE  OnItsWay(i)'
  <1>0. /\ \A r \in Rows : broker[r] \in Nat
        /\ \A v \in Workers : inflight'[v] = IF v = w THEN NoMessage ELSE inflight[v]
        /\ NoMessage \notin Rows
    BY DeliveryAssumption DEF BrokerType, InflightType, EndDelivery
  <1>1. \A r \in Rows : broker'[r] \in Nat /\ broker'[r] >= broker[r]
    BY <1>0 DEF EndDelivery, BrokerType
  <1>2. ASSUME NEW e \in Events, broker[<<i, e>>] > 0 \/ HandlersOf(<<i, e>>) # {}
        PROVE  broker'[<<i, e>>] > 0 \/ HandlersOf(<<i, e>>)' # {}
    <2>1. <<i, e>> \in Rows
      BY DEF Rows
    <2>2. CASE broker[<<i, e>>] > 0
      BY <1>0, <1>1, <2>1, <2>2
    <2>3. CASE w \in HandlersOf(<<i, e>>)
      <3>1. inflight[w] = <<i, e>> /\ ~ acknowledged
        BY <1>0, <2>1, <2>3 DEF HandlersOf
      <3>2. broker'[<<i, e>>] = broker[<<i, e>>] + 1
        BY <1>0, <2>1, <3>1 DEF EndDelivery, BrokerType
      <3> QED
        BY <1>0, <2>1, <3>2
    <2>4. CASE HandlersOf(<<i, e>>) # {} /\ w \notin HandlersOf(<<i, e>>)
      BY <1>0, <2>4 DEF HandlersOf
    <2> QED
      BY <1>2, <2>2, <2>3, <2>4
  <1> QED
    BY <1>2, StaysWithoutRelays

LEMMA DeliverKeeps ==
    ASSUME OP!IInv, OP!RecordsOK, [DeliveryNext]_deliveryVars, NEW i \in Items, OnItsWay(i),
           InflightType, BrokerType, NEW w \in Workers, NEW q \in Rows, Deliver(w, q)
    PROVE  OnItsWay(i)'
  <1>1. /\ inflight[w] = NoMessage /\ sent' = sent
        /\ \A v \in Workers : inflight'[v] = IF v = w THEN q ELSE inflight[v]
        /\ \A r \in Rows \ {q} : broker'[r] = broker[r]
    BY DEF Deliver, Idle, BrokerType, InflightType, tables
  <1>2. ASSUME NEW e \in Events, broker[<<i, e>>] > 0 \/ HandlersOf(<<i, e>>) # {}
        PROVE  broker'[<<i, e>>] > 0 \/ HandlersOf(<<i, e>>)' # {}
    <2>1. <<i, e>> \in Rows
      BY DEF Rows
    <2>2. CASE <<i, e>> = q
      <3>1. w \in HandlersOf(<<i, e>>)'
        BY <1>1, <2>2 DEF HandlersOf
      <3> QED
        BY <3>1
    <2>3. CASE <<i, e>> # q
      <3>1. HandlersOf(<<i, e>>) \subseteq HandlersOf(<<i, e>>)'
        BY <1>1, <2>1, DeliveryAssumption DEF HandlersOf
      <3> QED
        BY <1>1, <1>2, <2>1, <2>3, <3>1
    <2> QED
      BY <2>2, <2>3
  <1> QED
    BY <1>1, <1>2, StaysWithoutRelays

LEMMA RelaysKeep ==
    ASSUME OP!IInv, OP!RecordsOK, [DeliveryNext]_deliveryVars, NEW i \in Items, OnItsWay(i),
           BrokerType, RelayNext
    PROVE  OnItsWay(i)'
  <1>1. /\ \A r \in Rows : broker'[r] = broker[r] + (sent'[r] - sent[r]) /\ broker[r] \in Nat
        /\ inflight' = inflight
    BY DEF RelayNext, Relaying, BrokerType
  <1>2. ASSUME NEW e \in Events
        PROVE  /\ broker[<<i, e>>] > 0 \/ HandlersOf(<<i, e>>) # {} =>
                    broker'[<<i, e>>] > 0 \/ HandlersOf(<<i, e>>)' # {}
               /\ sent'[<<i, e>>] > sent[<<i, e>>] => broker'[<<i, e>>] > 0
    <2>1. <<i, e>> \in Rows
      BY DEF Rows
    <2>2. HandlersOf(<<i, e>>)' = HandlersOf(<<i, e>>)
      BY <1>1 DEF HandlersOf
    <2> QED
      BY <1>1, <2>1, <2>2, RowsGoOn
  <1> QED
    BY <1>2, StaysOnItsWay

(* A failure is recorded with a dead letter or with a new retry intent.    *)
LEMMA FailureOffers ==
    ASSUME PartsOK, IInv', AllExplained', NEW w \in Workers, NEW retryable \in BOOLEAN,
           CommitFailure(w, retryable), FailureRowFound(w), FailureRowUnpacks, InsertIntents,
           NEW i, i = lease[w].item
    PROVE  /\ i \in Items
           /\ work'[i].state \in Settled \/ OnItsWay(i)'
           /\ \A j \in Items \ {i} : work'[j] = work[j]
  <1> PICK n : n = lease[w].attempt
    OBVIOUS
  <1> DEFINE category == IF retryable THEN "retryable" ELSE "permanent"
  <1>1. HoldsLiveLease(w)
    BY DEF FailureRowFound
  <1>2. /\ i \in Items /\ work[i] \in Work /\ attempts[i] \in Seq(Attempt)
        /\ n \in DOMAIN attempts[i] /\ n = Len(attempts[i])
        /\ attempts[i][n].state = "running"
    BY <1>1, LiveAttempt DEF PartsOK
  <1>3. category \in Failure /\ category \in Failure \cup {"none"}
    BY DEF Failure
  <1>4. DOMAIN work = Items /\ DOMAIN intents = Items /\ DOMAIN attempts = Items
    BY DEF PartsOK, IInv, TypeOK
  <1> HIDE DEF category
  <1>5. CASE \E delay \in 1..MaxDelay :
                work' = [work EXCEPT ![i] = Requeued(@, delay, category)]
              /\ AddIntent(i, "retry", n)
    <2>1. n \in Nat /\ n >= 1
      BY <1>2, LenProperties
    <2>2. n <= MaxAttempts + MaxManualRecoveries
      <3>1. /\ Len(attempts[i]) <= MaxAttempts + work[i].manualRecoveries
            /\ work[i].manualRecoveries \in Nat /\ Len(attempts[i]) \in Nat
        BY <1>2, ItemFacts DEF PartsOK, RowOK
      <3>2. work[i].manualRecoveries <= MaxManualRecoveries
        BY <1>2 DEF PartsOK, AllExplained, Explained
      <3> QED
        BY <1>2, <3>1, <3>2, ConstantsAssumption
    <2>3. RetryOf(n) \in Events
      BY <2>1, <2>2, ConstantsAssumption DEF Events, RetryOf
    <2>4. RetryOf(n) \notin intents[i]
      BY <1>2, <2>1 DEF PartsOK, AllExplained, Explained
    <2>5. RetryOf(n) \in intents'[i]
      BY <1>2, <1>4, <1>5 DEF AddIntent, RetryOf
    <2>6. OP!Offering(<<i, RetryOf(n)>>)'
      BY <1>2, <2>3, <2>4, <2>5, NewIntentOffers
    <2> QED
      BY <1>2, <1>4, <1>5, <2>3, <2>6 DEF OnItsWay, Wakes
  <1>6. CASE work' = [work EXCEPT ![i] = Released(@, "dead_letter", category)]
    <2>1. Released(work[i], "dead_letter", category).state = "dead_letter"
      BY <1>2, <1>3, ReleasedCategory DEF WorkState
    <2> QED
      BY <1>2, <1>4, <1>6, <2>1 DEF Settled
  <1> QED
    BY <1>5, <1>6 DEF CommitFailure, category

LEMMA RecoveryOffers ==
    ASSUME PartsOK, NEW i \in Items, RecoverDeadLetter(i), InsertIntents
    PROVE  OnItsWay(i)' /\ \A j \in Items \ {i} : work'[j] = work[j]
  <1> PICK k : k = work[i].manualRecoveries + 1
    OBVIOUS
  <1>1. work[i].manualRecoveries \in Nat /\ k \in 1..MaxManualRecoveries
    BY ItemFacts, ConstantsAssumption DEF PartsOK, RecoverDeadLetter
  <1>2. RecoveryOf(k) \in Events
    BY <1>1 DEF Events, RecoveryOf
  <1>3. RecoveryOf(k) \notin intents[i]
    <2>1. k \in Nat /\ ~ (k <= work[i].manualRecoveries)
      BY <1>1, ConstantsAssumption
    <2> QED
      BY <2>1 DEF PartsOK, AllExplained, Explained
  <1>4. DOMAIN intents = Items /\ DOMAIN work = Items
    BY DEF PartsOK, IInv, TypeOK
  <1>5. RecoveryOf(k) \in intents'[i]
    BY <1>4 DEF RecoverDeadLetter, AddIntent, RecoveryOf
  <1>6. OP!Offering(<<i, RecoveryOf(k)>>)'
    BY <1>2, <1>3, <1>5, NewIntentOffers
  <1>7. \A j \in Items \ {i} : work'[j] = work[j]
    BY <1>4 DEF RecoverDeadLetter
  <1> QED
    BY <1>2, <1>6, <1>7 DEF OnItsWay, Wakes

(* Only an operator returns settled work to the queue.                     *)
LEMMA SettledStays ==
    ASSUME IInv, [Next]_vars, NEW i \in Items, work[i].state \in Settled, ~ RecoverDeadLetter(i)
    PROVE  work'[i].state \in Settled
  <1>0. DOMAIN work = Items /\ work[i] \in Work /\ work[i].state \notin {"queued", "leased"}
    BY DEF IInv, TypeOK, Settled
  <1>1. ASSUME NEW w \in Workers, NEW j \in Items, Claim(w, j) PROVE work'[i] = work[i]
    BY <1>0, <1>1 DEF Claim, Claimable
  <1>2. ASSUME NEW w \in Workers, HoldsLiveLease(w), NEW row,
               work' = [work EXCEPT ![lease[w].item] = row]
        PROVE  work'[i] = work[i]
    BY <1>0, <1>2 DEF HoldsLiveLease
  <1>3. ASSUME NEW w \in Workers, WorkerStep(w) PROVE work'[i] = work[i]
    <2>1. CASE Heartbeat(w)
      BY <1>0, <2>1 DEF Heartbeat, HoldsLiveLease
    <2>2. CASE CommitSuccess(w)
      BY <1>0, <2>2 DEF CommitSuccess, SuccessAccepted, HoldsLiveLease
    <2>3. ASSUME NEW retryable \in BOOLEAN, CommitFailure(w, retryable) PROVE work'[i] = work[i]
      BY <1>0, <2>3 DEF CommitFailure, FailureRowFound, HoldsLiveLease
    <2> QED
      BY <1>1, <1>3, <2>1, <2>2, <2>3 DEF WorkerStep, Finish, Checkpoint, Crash
  <1>4. CASE RecoverExpiredLeases
    BY <1>0, <1>4 DEF RecoverExpiredLeases, LeaseExpired
  <1>5. ASSUME NEW j \in Items, RecoverDeadLetter(j) PROVE work'[i] = work[i]
    BY <1>0, <1>5 DEF RecoverDeadLetter
  <1>6. CASE Tick
    BY <1>0, <1>6, OtherCategories DEF Tick
  <1> QED
    BY <1>3, <1>4, <1>5, <1>6 DEF Next, ChangeStanding, vars

LEMMA OffersKept ==
    ASSUME DeliveryIInv, PartsOK, PartsOK', [DeliveryNext]_deliveryVars
    PROVE  KeptOffered'
  <1> SUFFICES ASSUME NEW i \in Items, work'[i].state \notin Settled, i \notin turnedAway'
               PROVE  OnItsWay(i)'
    BY DEF KeptOffered
  <1>0. /\ OP!IInv /\ OP!RecordsOK /\ IInv /\ IInv' /\ AllExplained' /\ InflightType /\ BrokerType
        /\ LeaseIsOfDelivery /\ [Next]_vars
    <2>1. InflightType /\ BrokerType
      BY DeliveryAssumption DEF DeliveryIInv, DeliveryTypeOK, InflightType, BrokerType
    <2> QED
      BY <2>1, DeliveryStepsWork DEF DeliveryIInv, PartsOK
  <1>1. ASSUME ~ RecoverDeadLetter(i), i \notin turnedAway PROVE OnItsWay(i)
    BY <1>0, <1>1, SettledStays DEF DeliveryIInv, KeptOffered
  <1>2. CASE RecoverDeadLetter(i) /\ InsertIntents
    BY <1>2, RecoveryOffers
  <1>3. ASSUME NEW w \in Workers, NEW r \in Rows, Deliver(w, r) PROVE OnItsWay(i)'
    <2>1. OnItsWay(i)
      BY <1>0, <1>3 DEF Deliver, vars, DeliveryIInv, KeptOffered
    <2> QED
      BY <1>0, <1>3, <2>1, DeliverKeeps
  <1>4. ASSUME UNCHANGED <<sent, broker, inflight>>, OnItsWay(i) PROVE OnItsWay(i)'
    <2>1. \A e \in Events : HandlersOf(<<i, e>>)' = HandlersOf(<<i, e>>)
      BY <1>4 DEF HandlersOf
    <2> QED
      BY <1>0, <1>4, <2>1, StaysWithoutRelays
  <1>5. ASSUME NEW w \in Workers, HandleStep(w) PROVE OnItsWay(i)'
    <2>1. CASE ClaimDelivered(w)
      <3>1. inflight[w] \in Rows /\ UNCHANGED <<sent, broker, inflight>>
        BY <1>0, <2>1 DEF ClaimDelivered, InflightType, tables
      <3>2. CASE inflight[w][1] = i
        <4>1. PICK e \in Events : inflight[w] = <<i, e>>
          BY <3>1, <3>2 DEF Rows
        <4>2. OnItsWay(i)
          BY <4>1 DEF OnItsWay, Wakes, HandlersOf
        <4> QED
          BY <1>4, <3>1, <4>2
      <3>3. CASE inflight[w][1] # i
        <4>1. i \notin turnedAway /\ ~ RecoverDeadLetter(i)
          BY <1>0, <2>1, <3>3 DEF ClaimDelivered, Claim, Claimable, RecoverDeadLetter, IInv, TypeOK
        <4> QED
          BY <1>1, <1>4, <3>1, <4>1
      <3> QED
        BY <3>2, <3>3
    <2>2. CASE AcknowledgeUnclaimed(w)
      <3>1. UNCHANGED vars /\ UNCHANGED sent /\ EndDelivery(w, TRUE) /\ inflight[w] # NoMessage
        BY <2>2 DEF AcknowledgeUnclaimed, tables
      <3>2. work[i].state \notin Settled /\ i \notin turnedAway /\ inflight[w][1] # i
        BY <2>2, <3>1 DEF AcknowledgeUnclaimed, vars
      <3>3. OnItsWay(i)
        BY <3>2 DEF DeliveryIInv, KeptOffered
      <3> QED
        BY <1>0, <3>1, <3>2, <3>3, UnacknowledgedStays
    <2>3. CASE FinishDelivery(w)
      <3>0. InsertIntents /\ UNCHANGED <<sent, turnedAway>>
        BY <2>3 DEF FinishDelivery, InsertIntents, Outbox!Insert
      <3>1. ~ RecoverDeadLetter(i) /\ OnItsWay(i) /\ Holds(w)
        <4>1. Holds(w) /\ DropLease(w)
          BY <2>3 DEF FinishDelivery, CommitSuccess, CommitFailure
        <4>2. lease' # lease
          BY <1>0, <4>1 DEF Holds, DropLease, NoLease, IInv, TypeOK
        <4>3. ~ RecoverDeadLetter(i)
          BY <4>2 DEF RecoverDeadLetter
        <4> QED
          BY <1>1, <3>0, <4>1, <4>3
      <3>2. inflight[w] # NoMessage => lease[w].item = inflight[w][1]
        BY <1>0, <3>1 DEF LeaseIsOfDelivery
      <3>3. CASE CommitSuccess(w) /\ EndDelivery(w, SuccessAccepted(w))
        <4>1. CASE SuccessAccepted(w) /\ inflight[w] # NoMessage /\ inflight[w][1] = i
          <5>1. work' = [work EXCEPT ![i] = Released(@, "succeeded", @.category)]
            BY <3>2, <3>3, <4>1 DEF CommitSuccess
          <5>2. work[i] \in Work /\ work[i].category \in Failure \cup {"none"} /\ DOMAIN work = Items
            BY <1>0 DEF IInv, TypeOK, Work, Failure
          <5>3. work'[i].state = "succeeded"
            BY <5>1, <5>2, ReleasedCategory DEF WorkState
          <5> QED
            BY <5>3 DEF Settled
        <4> QED
          BY <1>0, <3>0, <3>1, <3>3, <4>1, UnacknowledgedStays
      <3>4. ASSUME NEW retryable \in BOOLEAN, CommitFailure(w, retryable),
                   EndDelivery(w, FailureRowFound(w) /\ FailureRowUnpacks)
            PROVE  OnItsWay(i)'
        <4>1. CASE /\ FailureRowFound(w) /\ FailureRowUnpacks
                   /\ inflight[w] # NoMessage /\ inflight[w][1] = i
          <5>1. i = lease[w].item
            BY <3>2, <4>1
          <5> QED
            BY <1>0, <3>0, <3>4, <4>1, <5>1, FailureOffers
        <4> QED
          BY <1>0, <3>0, <3>1, <3>4, <4>1, UnacknowledgedStays
      <3> QED
        BY <2>3, <3>3, <3>4 DEF FinishDelivery
    <2>4. CASE CrashConsumer(w)
      <3>1. UNCHANGED sent /\ EndDelivery(w, FALSE) /\ turnedAway' = turnedAway /\ work' = work
        BY <2>4 DEF CrashConsumer, tables, Crash, vars
      <3>2. OnItsWay(i)
        BY <3>1 DEF DeliveryIInv, KeptOffered
      <3> QED
        BY <1>0, <3>1, <3>2, UnacknowledgedStays
    <2> QED
      BY <1>5, <2>1, <2>2, <2>3, <2>4 DEF HandleStep
  <1>6. ASSUME NEW w \in Workers, NEW j \in Items, ClaimCandidate(w, j) PROVE OnItsWay(i)'
    <2>1. UNCHANGED <<sent, broker, inflight, turnedAway>>
      BY <1>6 DEF ClaimCandidate, tables, deliveries
    <2>2. ~ RecoverDeadLetter(i)
      <3>1. CASE i = j
        BY <1>6, <3>1 DEF ClaimCandidate, Claim, Claimable, RecoverDeadLetter
      <3>2. CASE i # j
        BY <1>0, <1>6, <3>2 DEF ClaimCandidate, Claim, RecoverDeadLetter, IInv, TypeOK
      <3> QED
        BY <3>1, <3>2
    <2> QED
      BY <1>1, <1>4, <2>1, <2>2
  <1>7. CASE Repository
    <2>1. InsertIntents /\ UNCHANGED <<broker, inflight, turnedAway, sent>>
      BY <1>7 DEF Repository, InsertIntents, deliveries, Outbox!Insert
    <2> QED
      BY <1>1, <1>2, <1>4, <2>1
  <1>8. CASE RelayNext
    <2>1. OnItsWay(i)
      BY <1>8 DEF RelayNext, Relaying, vars, DeliveryIInv, KeptOffered
    <2> QED
      BY <1>0, <1>8, <2>1, RelaysKeep
  <1>9. CASE UNCHANGED deliveryVars
    <2>1. OnItsWay(i) /\ UNCHANGED <<sent, broker, inflight>>
      BY <1>9 DEF deliveryVars, tables, deliveries, vars, DeliveryIInv, KeptOffered
    <2> QED
      BY <1>4, <2>1
  <1> QED
    BY <1>3, <1>5, <1>6, <1>7, <1>8, <1>9 DEF DeliveryNext

-----------------------------------------------------------------------------
(* The invariant is inductive.                                             *)

LEMMA SameOutboxTypes == Outbox!OutboxTypeOK <=> OP!OutboxTypeOK
  BY DEF Outbox!OutboxTypeOK, OP!OutboxTypeOK, Outbox!Row, OP!Row, Outbox!LogEntry, OP!LogEntry,
         Outbox!Record, OP!Record, Outbox!Publishing, OP!Publishing, Outbox!Outcome, OP!Outcome

LEMMA DeliveryInitEstablishes == DeliveryInit => DeliveryIInv
  <1> SUFFICES ASSUME DeliveryInit PROVE DeliveryIInv
    OBVIOUS
  <1>0. /\ outbox = [r \in Rows |-> IF r[2].kind = "requested" THEN Outbox!Fresh ELSE Outbox!Absent]
        /\ sent = [r \in Rows |-> 0] /\ broker = [r \in Rows |-> 0]
        /\ inflight = [w \in Workers |-> NoMessage] /\ turnedAway = {}
    BY DEF DeliveryInit
  <1>1. TypeOK
    BY InitEstablishes DEF DeliveryInit, IInv
  <1>2. Outbox!OutboxTypeOK
    BY OutboxStarts, OP!Init, OutboxConstants, SameOutboxTypes DEF OP!IInv
  <1>3. Outbox!Fresh.state = "pending" /\ Outbox!Fresh.attempts = 0 /\ Outbox!Absent.state = "absent"
    BY DEF Outbox!Fresh, Outbox!Absent
  <1>4. ASSUME NEW i \in Items, NEW e \in Events
        PROVE  /\ (outbox[<<i, e>>].state # "absent") = (e \in intents[i])
               /\ e.kind = "requested" => outbox[<<i, e>>] = Outbox!Fresh
    <2>1. <<i, e>> \in Rows /\ intents[i] = {[kind |-> "requested", n |-> 0]}
      BY DEF Rows, DeliveryInit, Init
    <2>2. e.kind = "requested" <=> e = [kind |-> "requested", n |-> 0]
      BY DEF Events
    <2>3. outbox[<<i, e>>] = IF e.kind = "requested" THEN Outbox!Fresh ELSE Outbox!Absent
      BY <1>0, <2>1
    <2> QED
      BY <1>3, <2>1, <2>2, <2>3
  <1>5. DeliveryTypeOK
    <2>1. 0 \in 0..MaxPublishAttempts
      BY DeliveryAssumption
    <2> QED
      BY <1>0, <1>1, <1>2, <1>4, <2>1 DEF DeliveryTypeOK
  <1>6. \A r \in Rows : HandlersOf(r) = {}
    BY <1>0, DeliveryAssumption DEF HandlersOf
  <1>7. CopiesHeld
    <2>1. IsFiniteSet({}) /\ Cardinality({}) = 0
      BY FS_EmptySet
    <2>2. \A r \in Rows : broker[r] = 0 /\ sent[r] = 0
      BY <1>0
    <2> QED
      BY <1>6, <2>1, <2>2 DEF CopiesHeld
  <1>8. LeaseIsOfDelivery
    BY <1>0 DEF LeaseIsOfDelivery
  <1>9. KeptOffered
    <2> SUFFICES ASSUME NEW i \in Items PROVE OnItsWay(i)
      BY DEF KeptOffered
    <2> DEFINE e == [kind |-> "requested", n |-> 0]
    <2>1. e \in Events /\ e.kind = "requested"
      BY DEF Events
    <2>2. OP!Offering(<<i, e>>)
      BY <1>3, <1>4, <2>1, DeliveryAssumption DEF OP!Offering
    <2> QED
      BY <2>1, <2>2 DEF OnItsWay, Wakes
  <1> QED
    BY <1>5, <1>7, <1>8, <1>9 DEF DeliveryIInv

LEMMA TurnedAwayTyped ==
    ASSUME InflightType, turnedAway \in SUBSET Items, [DeliveryNext]_deliveryVars
    PROVE  turnedAway' \in SUBSET Items
  <1>1. ASSUME NEW w \in Workers, AcknowledgeUnclaimed(w) PROVE turnedAway' \in SUBSET Items
    <2>1. inflight[w][1] \in Items
      BY <1>1 DEF AcknowledgeUnclaimed, InflightType, Rows
    <2> QED
      BY <1>1, <2>1 DEF AcknowledgeUnclaimed
  <1> QED
    BY <1>1 DEF DeliveryNext, deliveryVars, deliveries, Deliver, HandleStep, ClaimDelivered,
                FinishDelivery, CrashConsumer, ClaimCandidate, Repository, RelayNext, Relaying

LEMMA DeliveryNextPreserves ==
    ASSUME DeliveryIInv, PartsOK, PartsOK', [DeliveryNext]_deliveryVars
    PROVE  DeliveryIInv'
  <1>0. /\ TypeOK /\ OP!IInv /\ OP!RecordsOK /\ OP!IInv' /\ TypeOK'
        /\ InflightType /\ BrokerType /\ CopiesHeld /\ LeaseIsOfDelivery /\ IntentsHaveRows
        /\ turnedAway \in SUBSET Items
    <2>1. InflightType /\ BrokerType
      BY DeliveryAssumption DEF DeliveryIInv, DeliveryTypeOK, InflightType, BrokerType
    <2> QED
      BY <2>1 DEF DeliveryIInv, DeliveryTypeOK, PartsOK, IInv, IntentsHaveRows
  <1>1. BrokerType' /\ CopiesHeld'
    BY <1>0, CopiesKept
  <1>2. LeaseIsOfDelivery'
    BY <1>0, LeasesKeptWithDeliveries
  <1>3. IntentsHaveRows'
    BY <1>0, IntentsKeepRows
  <1>4. InflightType'
    BY <1>0 DEF InflightType, DeliveryNext, deliveryVars, deliveries, Deliver, HandleStep, ClaimDelivered,
           AcknowledgeUnclaimed, FinishDelivery, CrashConsumer, EndDelivery, ClaimCandidate,
           Repository, RelayNext, Relaying
  <1>5. turnedAway' \in SUBSET Items
    BY <1>0, TurnedAwayTyped
  <1>6. Outbox!OutboxTypeOK'
    <2>1. OP!OutboxTypeOK'
      BY <1>0 DEF OP!IInv
    <2> QED
      BY <2>1, SameOutboxTypes, PTL
  <1>7. broker' \in [Rows -> 0..MaxPublishAttempts]
    <2>1. ASSUME NEW r \in Rows PROVE broker'[r] \in 0..MaxPublishAttempts
      <3>1. sent'[r] \in 0..MaxPublishAttempts
        BY <1>0 DEF OP!IInv, OP!OutboxTypeOK
      <3>2. Cardinality(HandlersOf(r)') \in Nat /\ broker'[r] + Cardinality(HandlersOf(r)') <= sent'[r]
        BY <1>1, FS_CardinalityType DEF CopiesHeld
      <3>3. broker'[r] \in Nat
        BY <1>1 DEF BrokerType
      <3> QED
        BY <3>1, <3>2, <3>3, DeliveryAssumption
    <2> QED
      BY <1>1, <2>1 DEF BrokerType
  <1>8. DeliveryTypeOK'
    BY <1>0, <1>3, <1>4, <1>5, <1>6, <1>7 DEF DeliveryTypeOK, InflightType, IntentsHaveRows
  <1> QED
    BY <1>1, <1>2, <1>8, OffersKept DEF DeliveryIInv

(* The invariant holds of every behaviour of the composition, given what   *)
(* the theorems about its parts say of it.                                 *)
THEOREM DeliveryInductive == DeliverySpec => []DeliveryIInv
  <1>1. DeliveryInit => DeliveryIInv
    BY DeliveryInitEstablishes
  <1>2. DeliveryIInv /\ PartsOK /\ PartsOK' /\ [DeliveryNext]_deliveryVars => DeliveryIInv'
    BY DeliveryNextPreserves
  <1> QED
    BY <1>1, <1>2, PartsKept, PTL DEF DeliverySpec

(* Types; no row has more copies at the broker than it had attempts, and   *)
(* an intent is recorded exactly when its row is there (InsertIntents).    *)
THEOREM DeliveryTypes == DeliverySpec => []DeliveryTypeOK
  <1>1. DeliveryIInv => DeliveryTypeOK
    BY DEF DeliveryIInv
  <1> QED
    BY <1>1, DeliveryInductive, PTL

(* No crash of a relay, a consumer or the broker link loses the wake-up of *)
(* claimable work: only handle's acknowledgement of a delivery it could    *)
(* not claim does, or the relay's giving the intent up.                    *)
THEOREM WakeUpHolds == DeliverySpec => []WakeUpIsLostOnlyByAcknowledgement
  <1>1. DeliveryIInv => WakeUpIsLostOnlyByAcknowledgement
    <2> SUFFICES ASSUME DeliveryIInv, NEW i \in Items, Claimable(i), i \notin turnedAway
                 PROVE  Offered(i) \/ Spent(i)
      BY DEF WakeUpIsLostOnlyByAcknowledgement
    <2>1. OnItsWay(i)
      BY DEF DeliveryIInv, KeptOffered, Claimable, Settled
    <2>2. PICK e \in Events : Wakes(<<i, e>>) \/ OP!GivenUp(<<i, e>>)
      BY <2>1 DEF OnItsWay
    <2> QED
      BY <2>2 DEF Wakes, HandlersOf, OP!Offering, OP!GivenUp, Offered, Spent
  <1> QED
    BY <1>1, DeliveryInductive, PTL

(* Whatever delivers its messages, the work's leases exclude each other,   *)
(* its tables agree and a stale lease is harmless.                         *)
THEOREM DeliveredWorkIsSafe ==
    DeliverySpec => [](LeasesExclude /\ TablesAgree) /\ StaleLeaseIsHarmless
  BY DeliveryImplementsWork, LeasesExcludeHolds, TablesAgreeHolds, StaleLeaseIsHarmlessHolds, PTL

(* And whatever work inserts, the outbox keeps its promise.                *)
THEOREM DeliveredIntentsAreKept == DeliverySpec => OP!KeepsHandoffPromise /\ OP!LateRelayIsHarmless
  BY DeliveryImplementsOutbox, OP!HandoffPromiseKept, OP!LateRelayIsHarmlessHolds, OutboxConstants, PTL
=============================================================================
