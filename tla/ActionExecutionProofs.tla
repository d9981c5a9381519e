------------------------ MODULE ActionExecutionProofs ------------------------
(***************************************************************************)
(* Proofs about ActionExecution for any number of slots, keys and prints   *)
(* and any number of dispatches.                                           *)
(*                                                                         *)
(* That a step is not repeated rests on what a request which is alone with *)
(* its key knows: nothing can come on record under the key behind its      *)
(* back, so that what it found missing is missing still when it puts.      *)
(***************************************************************************)
EXTENDS ActionExecution, TLAPS

NextStep(q) == StepsOf(q.print)[Len(q.results) + 1]
NextPrint(q) == PrintOf(NextStep(q), q.print)

\* What has been reported of a request's steps so far is on record for it.
Backed(key, print, results, alone) ==
    \A i \in DOMAIN results :
        LET record == records[<<key, StepsOf(print)[i]>>]
        IN  IF results[i].envelope = None
            THEN results[i].status \in {"rejected", "blocked"}
            ELSE /\ record # None
                 /\ record.print = PrintOf(StepsOf(print)[i], print)
                 /\ alone => record = results[i].envelope

SlotOK(q) ==
    /\ Len(q.results) < Len(StepsOf(q.print))
    /\ Len(q.results) = 1 => Resolved(q.results[1])
    /\ Backed(q.key, q.print, q.results, q.alone)
    /\ q.phase = "put" =>
          /\ q.envelope \in Envelope
          /\ q.envelope.print = NextPrint(q) /\ q.envelope.outcome \in OutcomesOf(NextStep(q))
    /\ q.phase \in {"dispatch", "put"} /\ q.alone => records[<<q.key, NextStep(q)>>] = None
    /\ q.alone \/ q.key \in disturbed

SlotsOK == \A s \in Slots : InFlight(s) => SlotOK(slots[s])

AloneOK ==
    \A s, t \in Slots :
        InFlight(s) /\ InFlight(t) /\ s # t /\ slots[s].key = slots[t].key => ~ slots[s].alone

\* A key nobody has disturbed: its step has been dispatched once at most, and then either is on
\* record or will be put by the request that has it.
DispatchesOK ==
    \A k \in StepKeys : k[1] \notin disturbed =>
        /\ dispatches[k] <= 1
        /\ dispatches[k] = 1 =>
              \/ records[k] # None
              \/ \E s \in Slots : slots[s].phase = "put" /\ KeyOf(s) = k

RecordsOK == \A k \in StepKeys : records[k] # None => records[k].outcome \in OutcomesOf(k[2])

IInv ==
    /\ ExecutionTypeOK
    /\ SlotsOK /\ AloneOK /\ DispatchesOK /\ RecordsOK
    /\ PlansAreOnRecord

-----------------------------------------------------------------------------
(* Steps and results.                                                      *)

LEMMA Plans ==
    ASSUME NEW print
    PROVE  /\ print \in Multi => /\ StepsOf(print) = <<"compute", "ground">>
                                 /\ Len(StepsOf(print)) = 2
                                 /\ StepsOf(print)[1] = "compute" /\ StepsOf(print)[2] = "ground"
           /\ print \notin Multi => /\ StepsOf(print) = <<"single">>
                                    /\ Len(StepsOf(print)) = 1
                                    /\ StepsOf(print)[1] = "single"
  BY DEF StepsOf

(* A list of results has a length and members.                             *)
LEMMA Lists ==
    ASSUME NEW results \in Results
    PROVE  /\ results \in Seq(Result)
           /\ Len(results) \in 0..2
           /\ DOMAIN results = 1..Len(results)
           /\ \A i \in 1..Len(results) : results[i] \in Result
  <1>1. PICK n \in 0..2 : results \in [1..n -> Result]
    BY DEF Results
  <1>2. results \in Seq(Result) /\ Len(results) = n
    BY <1>1
  <1> QED
    BY <1>1, <1>2

LEMMA ListsAreResults ==
    ASSUME NEW results \in Seq(Result), Len(results) \in 0..2
    PROVE  results \in Results
  <1>1. results \in [1..Len(results) -> Result]
    OBVIOUS
  <1> QED
    BY <1>1 DEF Results

LEMMA InSlot ==
    ASSUME NEW q \in Slot
    PROVE  /\ q.phase \in {"look_up", "dispatch", "put"} /\ q.key \in Keys /\ q.print \in Prints
           /\ q.results \in Results /\ q.envelope \in Envelope \cup {None} /\ q.alone \in BOOLEAN
           /\ q # Idle
  BY DEF Slot, Idle

LEMMA SlotTypes ==
    ASSUME ExecutionTypeOK, NEW s \in Slots
    PROVE  /\ InFlight(s) => slots[s] \in Slot
           /\ slots[s].phase # "idle" => InFlight(s)
  BY DEF ExecutionTypeOK, InFlight, Idle

(* Which step a request has come to.                                       *)
LEMMA StepIs ==
    ASSUME NEW q \in Slot, Len(q.results) < Len(StepsOf(q.print))
    PROVE  \/ /\ q.print \notin Multi /\ Len(q.results) = 0 /\ NextStep(q) = "single"
           \/ /\ q.print \in Multi /\ Len(q.results) = 0 /\ NextStep(q) = "compute"
           \/ /\ q.print \in Multi /\ Len(q.results) = 1 /\ NextStep(q) = "ground"
  <1>1. Len(q.results) \in 0..2
    BY InSlot, Lists
  <1>2. CASE q.print \in Multi
    BY <1>1, <1>2, Plans DEF NextStep
  <1>3. CASE q.print \notin Multi
    BY <1>1, <1>3, Plans DEF NextStep
  <1> QED
    BY <1>2, <1>3

LEMMA StepKeyIs ==
    ASSUME IInv, NEW s \in Slots, InFlight(s)
    PROVE  /\ slots[s] \in Slot /\ SlotOK(slots[s])
           /\ StepOf(s) = NextStep(slots[s])
           /\ KeyOf(s) = <<slots[s].key, NextStep(slots[s])>>
           /\ NextStep(slots[s]) \in Steps /\ KeyOf(s) \in StepKeys
  <1>1. slots[s] \in Slot /\ SlotOK(slots[s])
    BY SlotTypes DEF IInv, SlotsOK
  <1>2. NextStep(slots[s]) \in Steps
    BY <1>1, StepIs DEF SlotOK, Steps
  <1>3. StepOf(s) = NextStep(slots[s]) /\ KeyOf(s) = <<slots[s].key, NextStep(slots[s])>>
    BY DEF StepOf, KeyOf, NextStep
  <1> QED
    BY <1>1, <1>2, <1>3, InSlot DEF StepKeys

LEMMA PrintAtIs ==
    ASSUME NEW s \in Slots, NEW q, q = slots[s]
    PROVE  PrintAt(s) = NextPrint(q)
  BY DEF PrintAt, NextPrint, StepOf, NextStep

LEMMA PrintIsPrint ==
    ASSUME NEW q \in Slot
    PROVE  NextPrint(q) \in Prints
  BY InSlot, ExecutionAssumption DEF NextPrint, PrintOf

-----------------------------------------------------------------------------
(* Frames.                                                                 *)

\* No record is ever replaced.
Grows == \A k \in StepKeys : records[k] # None => records'[k] = records[k]

LEMMA BackedStays ==
    ASSUME Grows, NEW key \in Keys, NEW print, NEW results \in Results, NEW alone,
           Len(results) <= Len(StepsOf(print)), Backed(key, print, results, alone)
    PROVE  Backed(key, print, results, alone)'
  <1> SUFFICES ASSUME NEW i \in DOMAIN results
               PROVE  LET record == records'[<<key, StepsOf(print)[i]>>]
                      IN  IF results[i].envelope = None
                          THEN results[i].status \in {"rejected", "blocked"}
                          ELSE /\ record # None
                               /\ record.print = PrintOf(StepsOf(print)[i], print)
                               /\ alone => record = results[i].envelope
    BY DEF Backed
  <1>1. i \in 1..Len(StepsOf(print))
    BY Lists, Plans
  <1>2. StepsOf(print)[i] \in Steps
    <2>1. CASE print \in Multi
      BY <1>1, <2>1, Plans DEF Steps
    <2>2. CASE print \notin Multi
      BY <1>1, <2>2, Plans DEF Steps
    <2> QED
      BY <2>1, <2>2
  <1>3. <<key, StepsOf(print)[i]>> \in StepKeys
    BY <1>2 DEF StepKeys
  <1> QED
    BY <1>3 DEF Backed, Grows

(* A step of one request is one for each other too, but not behind the     *)
(* back of one that is alone with its key.                                 *)
LEMMA OtherSlot ==
    ASSUME IInv, Grows, NEW t \in Slots, InFlight(t), slots'[t] = slots[t],
           disturbed \subseteq disturbed',
           slots[t].alone => records'[KeyOf(t)] = records[KeyOf(t)]
    PROVE  SlotOK(slots[t])'
  <1>1. PICK q \in Slot : q = slots[t]
    BY StepKeyIs
  <1>2. SlotOK(q) /\ KeyOf(t) = <<q.key, NextStep(q)>>
    BY <1>1, StepKeyIs
  <1>3. q.key \in Keys /\ q.results \in Results /\ Len(q.results) \in Nat
    BY InSlot, Lists
  <1>4. Len(q.results) <= Len(StepsOf(q.print))
    BY <1>2, <1>3, Plans DEF SlotOK
  <1>5. Backed(q.key, q.print, q.results, q.alone)'
    BY <1>2, <1>3, <1>4, BackedStays DEF SlotOK
  <1>6. q.phase \in {"dispatch", "put"} /\ q.alone => records'[<<q.key, NextStep(q)>>] = None
    BY <1>1, <1>2 DEF SlotOK
  <1>7. SlotOK(q)'
    BY <1>2, <1>5, <1>6 DEF SlotOK, NextStep
  <1> QED
    BY <1>1, <1>7

-----------------------------------------------------------------------------
(* The end of a step.                                                      *)

(* What After makes of the results with one more.                          *)
LEMMA AfterIs ==
    ASSUME NEW q \in Slot, Len(q.results) < Len(StepsOf(q.print)), NEW x \in Result
    PROVE  LET n == Len(q.results)
               all == After(Append(q.results, x), q.print)
           IN  /\ all \in Results
               /\ Len(all) \in {n + 1, n + 2} /\ Len(all) <= Len(StepsOf(q.print))
               /\ \A i \in 1..n : all[i] = q.results[i]
               /\ all[n + 1] = x
               /\ Len(all) = n + 2 => all[n + 2] = Blocked
               /\ Len(all) # Len(StepsOf(q.print)) =>
                     q.print \in Multi /\ n = 0 /\ Len(all) = 1 /\ Resolved(x)
  <1> DEFINE n == Len(q.results)
             more == Append(q.results, x)
             all == After(more, q.print)
  <1>1. /\ q.results \in Seq(Result) /\ n \in 0..1
        /\ Len(StepsOf(q.print)) = IF q.print \in Multi THEN 2 ELSE 1
    BY InSlot, Lists, StepIs, Plans
  <1>2. /\ more \in Seq(Result) /\ Len(more) = n + 1
        /\ \A i \in 1..n : more[i] = q.results[i]
        /\ more[n + 1] = x
    BY <1>1
  <1>3. Blocked \in Result
    BY DEF Blocked, Result
  <1> HIDE DEF more
  <1>4. CASE Len(more) < Len(StepsOf(q.print)) /\ ~ Resolved(more[Len(more)])
    <2>1. all = Append(more, Blocked)
      BY <1>4 DEF After
    <2>2. /\ all \in Seq(Result) /\ Len(all) = n + 2
          /\ \A i \in 1..(n + 1) : all[i] = more[i]
          /\ all[n + 2] = Blocked
      BY <1>1, <1>2, <1>3, <2>1
    <2>3. n = 0 /\ q.print \in Multi
      BY <1>1, <1>2, <1>4
    <2>4. all \in Results
      BY <2>2, <2>3, ListsAreResults
    <2> HIDE DEF all
    <2>5. /\ Len(all) = 2 /\ Len(StepsOf(q.print)) = 2
          /\ \A i \in 1..n : all[i] = q.results[i]
          /\ all[n + 1] = x
      BY <1>1, <1>2, <2>2, <2>3
    <2> QED
      BY <1>1, <2>2, <2>3, <2>4, <2>5 DEF all, more
  <1>5. CASE ~ (Len(more) < Len(StepsOf(q.print)) /\ ~ Resolved(more[Len(more)]))
    <2>1. all = more
      BY <1>5 DEF After
    <2>2. more \in Results /\ Len(more) # n + 2
      <3>1. Len(more) \in 0..2 /\ Len(more) # n + 2
        BY <1>1, <1>2
      <3> QED
        BY <1>2, <3>1, ListsAreResults
    <2>3. ASSUME Len(more) # Len(StepsOf(q.print))
          PROVE  q.print \in Multi /\ n = 0 /\ Len(more) = 1 /\ Resolved(x)
      <3>1. q.print \in Multi /\ n = 0
        BY <1>1, <1>2, <2>3
      <3>2. Len(more) = 1 /\ Len(StepsOf(q.print)) = 2 /\ more[Len(more)] = x
        BY <1>1, <1>2, <3>1
      <3> QED
        BY <1>5, <3>1, <3>2
    <2>4. Len(more) \in {n + 1, n + 2} /\ Len(more) <= Len(StepsOf(q.print))
      BY <1>1, <1>2
    <2> QED
      BY <1>2, <2>1, <2>2, <2>3, <2>4 DEF all, more
  <1> QED
    BY <1>4, <1>5

\* A result that the record of its step answers for.
Vouched(q, x) ==
    LET record == records[<<q.key, NextStep(q)>>]
    IN  IF x.envelope = None THEN x.status \in {"rejected", "blocked"}
        ELSE /\ record # None
             /\ record.print = NextPrint(q)
             /\ q.alone => record = x.envelope

LEMMA AfterIsBacked ==
    ASSUME Grows, NEW q \in Slot, SlotOK(q), NEW x \in Result, Vouched(q, x)'
    PROVE  Backed(q.key, q.print, After(Append(q.results, x), q.print), q.alone)'
  <1> DEFINE n == Len(q.results)
             all == After(Append(q.results, x), q.print)
  <1>1. /\ all \in Results /\ Len(all) \in {n + 1, n + 2}
        /\ \A i \in 1..n : all[i] = q.results[i]
        /\ all[n + 1] = x
        /\ Len(all) = n + 2 => all[n + 2] = Blocked
    BY AfterIs DEF SlotOK
  <1>2. q.results \in Results /\ n \in Nat /\ DOMAIN q.results = 1..n /\ q.key \in Keys
    BY InSlot, Lists
  <1>3. Backed(q.key, q.print, q.results, q.alone)'
    <2>1. Len(q.results) <= Len(StepsOf(q.print))
      BY <1>2, Plans DEF SlotOK
    <2> QED
      BY <1>2, <2>1, BackedStays DEF SlotOK
  <1>4. DOMAIN all = 1..Len(all)
    BY <1>1, Lists
  <1> HIDE DEF all
  <1> SUFFICES ASSUME NEW i \in DOMAIN all
               PROVE  LET record == records'[<<q.key, StepsOf(q.print)[i]>>]
                      IN  IF all[i].envelope = None
                          THEN all[i].status \in {"rejected", "blocked"}
                          ELSE /\ record # None
                               /\ record.print = PrintOf(StepsOf(q.print)[i], q.print)
                               /\ q.alone => record = all[i].envelope
    BY DEF Backed, all
  <1>5. i \in 1..n \/ i = n + 1 \/ (i = n + 2 /\ Len(all) = n + 2)
    <2>1. n \in Nat /\ Len(all) \in {n + 1, n + 2} /\ i \in 1..Len(all)
      BY <1>1, <1>2, <1>4
    <2> HIDE DEF n
    <2> QED
      BY <2>1
  <1>6. CASE i \in 1..n
    BY <1>1, <1>2, <1>3, <1>6 DEF Backed
  <1>7. CASE i = n + 1
    BY <1>1, <1>7 DEF Vouched, NextStep, NextPrint
  <1>8. CASE i = n + 2 /\ Len(all) = n + 2
    BY <1>1, <1>8 DEF Blocked
  <1> QED
    BY <1>5, <1>6, <1>7, <1>8

(* A step that leaves to the others all they know: one slot moves.         *)
LEMMA OneSlot ==
    ASSUME IInv, Grows, NEW s \in Slots, InFlight(s), NEW p \in Slot \cup {Idle},
           slots' = [slots EXCEPT ![s] = p],
           disturbed \subseteq disturbed',
           \A k \in StepKeys : records'[k] = records[k] \/ k = KeyOf(s),
           p # Idle => /\ SlotOK(p)'
                       /\ p.key = slots[s].key /\ p.alone = slots[s].alone
    PROVE  slots' \in [Slots -> Slot \cup {Idle}] /\ SlotsOK' /\ AloneOK'
  <1>1. slots \in [Slots -> Slot \cup {Idle}] /\ AloneOK
    BY DEF IInv, ExecutionTypeOK
  <1>2. slots'[s] = p /\ \A t \in Slots \ {s} : slots'[t] = slots[t]
    BY <1>1
  <1>3. SlotsOK'
    <2> SUFFICES ASSUME NEW t \in Slots, InFlight(t)' PROVE SlotOK(slots[t])'
      BY DEF SlotsOK
    <2>1. CASE t = s
      BY <1>2, <2>1 DEF InFlight
    <2>2. CASE t # s
      <3>1. InFlight(t) /\ slots'[t] = slots[t]
        BY <1>2, <2>2 DEF InFlight
      <3>2. slots[t].alone => slots[t].key # slots[s].key
        BY <1>1, <2>2, <3>1 DEF AloneOK
      <3>3. KeyOf(t) = <<slots[t].key, NextStep(slots[t])>> /\ KeyOf(t) \in StepKeys
        BY <3>1, StepKeyIs
      <3>4. KeyOf(s) = <<slots[s].key, NextStep(slots[s])>>
        BY StepKeyIs
      <3>5. slots[t].alone => records'[KeyOf(t)] = records[KeyOf(t)]
        BY <3>2, <3>3, <3>4
      <3> QED
        BY <3>1, <3>5, OtherSlot
    <2> QED
      BY <2>1, <2>2
  <1>4. AloneOK'
    BY <1>1, <1>2 DEF AloneOK, InFlight
  <1> QED
    BY <1>1, <1>3, <1>4

LEMMA ConcludeStep ==
    ASSUME IInv, Grows, NEW s \in Slots, InFlight(s), NEW x \in Result, Conclude(s, x),
           disturbed \subseteq disturbed',
           \A k \in StepKeys : records'[k] = records[k] \/ k = KeyOf(s),
           NEW q \in Slot, q = slots[s], Vouched(q, x)'
    PROVE  /\ slots' \in [Slots -> Slot \cup {Idle}] /\ SlotsOK' /\ AloneOK'
           /\ answer' \in Answer \cup {None} /\ AnswersAreOnRecord'
           /\ \A t \in Slots : slots'[t].phase = "put" => t # s /\ slots'[t] = slots[t]
  <1> DEFINE all == After(Append(q.results, x), q.print)
  <1>1. SlotOK(q) /\ slots \in [Slots -> Slot \cup {Idle}]
    BY StepKeyIs DEF IInv, ExecutionTypeOK
  <1>2. /\ all \in Results
        /\ Len(all) # Len(StepsOf(q.print)) => q.print \in Multi /\ Len(all) = 1 /\ Resolved(all[1])
    <2>1. Len(q.results) = 0 => Len(q.results) + 1 = 1
      OBVIOUS
    <2> QED
      BY <1>1, <2>1, AfterIs DEF SlotOK
  <1>3. Backed(q.key, q.print, all, q.alone)'
    BY <1>1, AfterIsBacked
  <1>4. CASE Len(all) = Len(StepsOf(q.print))
    <2> DEFINE a == [key |-> q.key, print |-> q.print, results |-> all,
                     status |-> Aggregate(all), alone |-> q.alone]
    <2>1. slots' = [slots EXCEPT ![s] = Idle] /\ answer' = a
      BY <1>4 DEF Conclude
    <2>2. slots' \in [Slots -> Slot \cup {Idle}] /\ SlotsOK' /\ AloneOK'
      BY <2>1, OneSlot
    <2>3. a \in Answer
      <3>1. Aggregate(all) \in Outcomes
        BY DEF Aggregate, Outcomes, OutcomesOf, Steps
      <3> QED
        BY <1>2, <3>1, InSlot DEF Answer
    <2>4. AnswersAreOnRecord'
      <3> SUFFICES ASSUME NEW i \in DOMAIN all
                   PROVE  LET record == records'[<<q.key, StepsOf(q.print)[i]>>]
                          IN  IF all[i].envelope = None THEN Aggregate(all) = "rejected"
                              ELSE /\ record # None
                                   /\ record.print = PrintOf(StepsOf(q.print)[i], q.print)
                                   /\ q.alone => record = all[i].envelope
        BY <2>1 DEF AnswersAreOnRecord
      <3>1. all[i].envelope = None => all[i].status \in {"rejected", "blocked"}
        BY <1>3 DEF Backed
      <3>2. all[i].envelope = None => Aggregate(all) = "rejected"
        BY <3>1 DEF Aggregate
      <3> QED
        BY <1>3, <3>2 DEF Backed
    <2>5. \A t \in Slots : slots'[t].phase = "put" => t # s /\ slots'[t] = slots[t]
      BY <1>1, <2>1 DEF Idle
    <2> QED
      BY <2>1, <2>2, <2>3, <2>4, <2>5
  <1>5. CASE Len(all) # Len(StepsOf(q.print))
    <2> DEFINE p == [q EXCEPT !.phase = "look_up", !.results = all, !.envelope = None]
    <2>1. slots' = [slots EXCEPT ![s] = p] /\ answer' = None
      BY <1>1, <1>5 DEF Conclude
    <2>2. /\ p \in Slot /\ p.phase = "look_up" /\ p.key = q.key /\ p.print = q.print
          /\ p.results = all /\ p.alone = q.alone
      BY <1>2 DEF Slot
    <2> HIDE DEF p, all
    <2>3. SlotOK(p)'
      <3>1. Len(all) < Len(StepsOf(q.print)) /\ (Len(all) = 1 => Resolved(all[1]))
        <4>1. q.print \in Multi /\ Len(all) = 1 /\ Resolved(all[1])
          BY <1>2, <1>5
        <4>2. Len(StepsOf(q.print)) = 2
          BY <4>1, Plans
        <4> QED
          BY <4>1, <4>2
      <3>2. p.alone \/ p.key \in disturbed'
        BY <1>1, <2>2 DEF SlotOK
      <3>3. Backed(p.key, p.print, p.results, p.alone)'
        BY <1>3, <2>2
      <3> QED
        BY <2>2, <3>1, <3>2, <3>3 DEF SlotOK
    <2>4. slots' \in [Slots -> Slot \cup {Idle}] /\ SlotsOK' /\ AloneOK'
      BY <2>1, <2>2, <2>3, OneSlot
    <2>5. \A t \in Slots : slots'[t].phase = "put" => t # s /\ slots'[t] = slots[t]
      BY <1>1, <2>1, <2>2
    <2> QED
      BY <2>1, <2>4, <2>5 DEF AnswersAreOnRecord
  <1> QED
    BY <1>4, <1>5

-----------------------------------------------------------------------------
(* What the step of one request leaves of the other invariants.            *)

(* The records and the dispatches are as they were, and no request that is *)
(* about to put has gone, unless its key is disturbed.                     *)
LEMMA NothingPut ==
    ASSUME IInv, UNCHANGED <<records, dispatches>>, disturbed \subseteq disturbed',
           \A s \in Slots : slots[s].phase = "put" =>
               \/ slots'[s].phase = "put" /\ KeyOf(s)' = KeyOf(s)
               \/ slots[s].key \in disturbed'
    PROVE  Grows /\ DispatchesOK' /\ RecordsOK' /\ GroundsFollowComputation'
  <1>1. DispatchesOK'
    <2> SUFFICES ASSUME NEW k \in StepKeys, k[1] \notin disturbed'
                 PROVE  /\ dispatches[k] <= 1
                        /\ dispatches[k] = 1 =>
                              \/ records[k] # None
                              \/ \E s \in Slots : slots'[s].phase = "put" /\ KeyOf(s)' = k
      BY DEF DispatchesOK
    <2>1. /\ dispatches[k] <= 1
          /\ dispatches[k] = 1 =>
                \/ records[k] # None
                \/ \E s \in Slots : slots[s].phase = "put" /\ KeyOf(s) = k
      BY DEF IInv, DispatchesOK
    <2>2. ASSUME NEW s \in Slots, slots[s].phase = "put", KeyOf(s) = k
          PROVE  slots'[s].phase = "put" /\ KeyOf(s)' = k
      BY <2>2 DEF KeyOf
    <2> QED
      BY <2>1, <2>2
  <1> QED
    BY <1>1 DEF IInv, Grows, RecordsOK, PlansAreOnRecord, GroundsFollowComputation

LEMMA PutStays ==
    ASSUME NEW s \in Slots, slots'[s] = slots[s]
    PROVE  KeyOf(s)' = KeyOf(s)
  BY DEF KeyOf, StepOf

LEMMA InitEstablishes == ExecutionInit => IInv
  <1> SUFFICES ASSUME ExecutionInit PROVE IInv
    OBVIOUS
  <1>1. 0 \in 0..MaxDispatches
    BY ExecutionAssumption
  <1>2. ExecutionTypeOK
    BY <1>1 DEF ExecutionInit, ExecutionTypeOK
  <1>3. \A s \in Slots : ~ InFlight(s)
    BY DEF ExecutionInit, InFlight
  <1>4. DispatchesOK
    BY DEF ExecutionInit, DispatchesOK
  <1> QED
    BY <1>2, <1>3, <1>4 DEF IInv, SlotsOK, AloneOK, RecordsOK, PlansAreOnRecord,
       GroundsFollowComputation, AnswersAreOnRecord, ExecutionInit, StepKeys, Steps

(* A request that arrives while others of its key are in flight ends their *)
(* being alone.                                                            *)
LEMMA BeginStep ==
    ASSUME IInv, NEW s \in Slots, NEW key \in Keys, NEW print \in Prints, Begin(s, key, print)
    PROVE  IInv'
  <1> DEFINE others == {t \in Slots : InFlight(t) /\ slots[t].key = key}
             q == [phase |-> "look_up", key |-> key, print |-> print,
                   results |-> <<>>, envelope |-> None, alone |-> others = {}]
             Moved(t) == [slots[t] EXCEPT !.alone = FALSE]
  <1>1. /\ ~ InFlight(s)
        /\ slots' = [t \in Slots |-> CASE t = s -> q
                                       [] t \in others -> Moved(t)
                                       [] OTHER -> slots[t]]
        /\ disturbed' = IF others = {} THEN disturbed ELSE disturbed \cup {key}
        /\ answer' = None
        /\ UNCHANGED <<records, dispatches>>
    BY DEF Begin
  <1>2. q \in Slot /\ q # Idle
    <2>1. <<>> \in Results
      <3>1. <<>> \in Seq(Result) /\ Len(<<>>) \in 0..2
        OBVIOUS
      <3> QED
        BY <3>1, ListsAreResults
    <2> QED
      BY <2>1, InSlot DEF Slot
  <1>3. /\ q.phase = "look_up" /\ q.key = key /\ q.print = print /\ q.results = <<>>
        /\ q.alone = (others = {})
    OBVIOUS
  <1>4. \A t \in others : slots[t] \in Slot
    BY SlotTypes DEF IInv
  <1>5. \A t \in others :
           /\ Moved(t) \in Slot /\ Moved(t).alone = FALSE /\ Moved(t).phase = slots[t].phase
           /\ Moved(t).key = key /\ Moved(t).print = slots[t].print
           /\ Moved(t).results = slots[t].results /\ Moved(t).envelope = slots[t].envelope
           /\ Moved(t) # Idle
    BY <1>4, InSlot DEF Slot, Idle
  <1>6. s \notin others
    BY <1>1
  <1>7. /\ slots'[s] = q
        /\ \A t \in others : slots'[t] = Moved(t)
        /\ \A t \in Slots \ (others \cup {s}) : slots'[t] = slots[t]
    BY <1>1, <1>6
  <1> HIDE DEF q, Moved
  <1>8. Grows /\ disturbed \subseteq disturbed'
    BY <1>1 DEF Grows
  <1>9. slots' \in [Slots -> Slot \cup {Idle}]
    <2>1. slots \in [Slots -> Slot \cup {Idle}]
      BY DEF IInv, ExecutionTypeOK
    <2>2. \A t \in Slots : slots'[t] \in Slot \cup {Idle}
      BY <1>2, <1>5, <1>7, <2>1
    <2> QED
      BY <1>1, <2>2
  <1>10. SlotsOK'
    <2> SUFFICES ASSUME NEW t \in Slots, InFlight(t)' PROVE SlotOK(slots[t])'
      BY DEF SlotsOK
    <2>1. CASE t = s
      <3>1. PICK m : m = q
        OBVIOUS
      <3>2. m.phase \notin {"dispatch", "put"} /\ (m.alone \/ m.key \in disturbed')
        BY <1>1, <1>3, <3>1
      <3>3. Len(m.results) = 0 /\ DOMAIN m.results = {}
        BY <1>3, <3>1
      <3>4. Len(m.results) < Len(StepsOf(m.print)) /\ Len(m.results) # 1
        BY <3>3, Plans
      <3>5. Backed(m.key, m.print, m.results, m.alone)'
        BY <3>3 DEF Backed
      <3>6. SlotOK(m)'
        BY <3>2, <3>4, <3>5 DEF SlotOK
      <3> QED
        BY <1>7, <2>1, <3>1, <3>6
    <2>2. CASE t \in others
      <3>1. PICK p : p = slots[t]
        OBVIOUS
      <3>2. SlotOK(p)
        BY <3>1, <2>2 DEF IInv, SlotsOK
      <3>3. PICK m : m = Moved(t)
        OBVIOUS
      <3>4. /\ m.alone = FALSE /\ m.phase = p.phase /\ m.key = key /\ p.key = key
            /\ m.print = p.print /\ m.results = p.results /\ m.envelope = p.envelope
        BY <1>5, <2>2, <3>1, <3>3
      <3>5. Backed(m.key, m.print, m.results, m.alone)'
        BY <1>1, <3>2, <3>4 DEF SlotOK, Backed
      <3>6. m.key \in disturbed'
        BY <1>1, <2>2, <3>4
      <3>7. SlotOK(m)'
        BY <3>2, <3>4, <3>5, <3>6 DEF SlotOK, NextStep, NextPrint
      <3> QED
        BY <1>7, <2>2, <3>3, <3>7
    <2>3. CASE t \notin others /\ t # s
      <3>1. InFlight(t) /\ slots'[t] = slots[t]
        BY <1>7, <2>3 DEF InFlight
      <3> QED
        BY <1>1, <1>8, <3>1, OtherSlot
    <2> QED
      BY <2>1, <2>2, <2>3
  <1>11. AloneOK'
    <2> SUFFICES ASSUME NEW t \in Slots, NEW u \in Slots, InFlight(t)', InFlight(u)', t # u,
                        slots'[t].key = slots'[u].key
                 PROVE  ~ slots'[t].alone
      BY DEF AloneOK
    <2>1. CASE t \in others
      BY <1>5, <1>7, <2>1
    <2>2. CASE t = s
      <3>1. slots'[u].key = key
        BY <1>3, <1>7, <2>2
      <3>2. u \in others
        BY <1>7, <2>2, <3>1 DEF InFlight
      <3> QED
        BY <1>3, <1>7, <2>2, <3>2
    <2>3. CASE t \notin others /\ t # s
      <3>1. InFlight(t) /\ slots'[t] = slots[t] /\ slots[t].key # key
        BY <1>7, <2>3 DEF InFlight
      <3>2. u \notin others /\ u # s
        BY <1>3, <1>5, <1>7, <3>1
      <3>3. InFlight(u) /\ slots'[u] = slots[u]
        BY <1>7, <3>2 DEF InFlight
      <3> QED
        BY <3>1, <3>3 DEF IInv, AloneOK
    <2> QED
      BY <2>1, <2>2, <2>3
  <1>12. DispatchesOK' /\ RecordsOK' /\ GroundsFollowComputation'
    <2> SUFFICES ASSUME NEW t \in Slots, slots[t].phase = "put"
                 PROVE  slots'[t].phase = "put" /\ KeyOf(t)' = KeyOf(t)
      BY <1>1, <1>8, NothingPut
    <2>1. t # s
      BY <1>1, SlotTypes DEF IInv
    <2>2. CASE t \in others
      BY <1>5, <1>7, <2>2 DEF KeyOf, StepOf
    <2>3. CASE t \notin others
      BY <1>7, <2>1, <2>3, PutStays
    <2> QED
      BY <2>2, <2>3
  <1>13. ExecutionTypeOK' /\ AnswersAreOnRecord'
    BY <1>1, <1>9 DEF IInv, ExecutionTypeOK, AnswersAreOnRecord
  <1> QED
    BY <1>10, <1>11, <1>12, <1>13 DEF IInv, PlansAreOnRecord

LEMMA RefuseEarlyStep ==
    ASSUME IInv, NEW s \in Slots, NEW key \in Keys, NEW print \in Prints,
           RefuseEarly(s, key, print)
    PROVE  IInv'
  <1>1. UNCHANGED <<records, dispatches, slots, disturbed>>
    BY DEF RefuseEarly
  <1>2. answer' = [key |-> key, print |-> print, results |-> <<Rejection>>,
                   status |-> "rejected", alone |-> FALSE]
    BY DEF RefuseEarly
  <1>3. <<Rejection>> \in Results /\ "rejected" \in Outcomes
    <2>1. Rejection \in Result /\ "rejected" \in Outcomes
      BY DEF Rejection, Result, Outcomes, OutcomesOf, Steps
    <2>2. <<Rejection>> \in Seq(Result) /\ Len(<<Rejection>>) \in 0..2
      BY <2>1
    <2> QED
      BY <2>1, <2>2, ListsAreResults
  <1>4. answer' \in Answer
    BY <1>2, <1>3 DEF Answer
  <1>5. AnswersAreOnRecord'
    BY <1>2 DEF AnswersAreOnRecord, Rejection
  <1>6. Grows /\ DispatchesOK' /\ RecordsOK' /\ GroundsFollowComputation'
    BY <1>1, PutStays, NothingPut
  <1>7. SlotsOK' /\ AloneOK'
    BY <1>1, <1>6, OtherSlot DEF IInv, SlotsOK, AloneOK, InFlight
  <1> QED
    BY <1>1, <1>4, <1>5, <1>6, <1>7 DEF IInv, ExecutionTypeOK, PlansAreOnRecord

-----------------------------------------------------------------------------
(* The three operations of a step.                                         *)

LEMMA OfIs ==
    ASSUME NEW e \in Envelope
    PROVE  /\ Of(e) \in Result /\ Of(e).envelope = e /\ Of(e).status = e.outcome
           /\ Of(e).envelope # None
  BY NoEnvelopeAssumption DEF Of, Result, Envelope

LEMMA RejectionIs ==
    Rejection \in Result /\ Rejection.envelope = None /\ Rejection.status = "rejected"
  BY DEF Rejection, Result, Outcomes, OutcomesOf, Steps

(* A step that ends without anything having been put.                      *)
LEMMA EndWithoutPut ==
    ASSUME IInv, NEW s \in Slots, slots[s].phase = "look_up", NEW x \in Result, Conclude(s, x),
           NEW q \in Slot, q = slots[s], Vouched(q, x),
           UNCHANGED <<records, dispatches, disturbed>>
    PROVE  IInv'
  <1>1. InFlight(s)
    BY SlotTypes DEF IInv
  <1>2. Grows /\ disturbed \subseteq disturbed'
    BY DEF Grows
  <1>3. Vouched(q, x)'
    BY DEF Vouched, NextStep
  <1>4. /\ slots' \in [Slots -> Slot \cup {Idle}] /\ SlotsOK' /\ AloneOK'
        /\ answer' \in Answer \cup {None} /\ AnswersAreOnRecord'
    BY <1>1, <1>2, <1>3, ConcludeStep
  <1>5. \A t \in Slots \ {s} : slots'[t] = slots[t]
    BY DEF IInv, ExecutionTypeOK, Conclude
  <1>6. DispatchesOK' /\ RecordsOK' /\ GroundsFollowComputation'
    <2>1. \A t \in Slots : slots[t].phase = "put" => slots'[t] = slots[t]
      BY <1>5
    <2> QED
      BY <1>2, <2>1, PutStays, NothingPut
  <1> QED
    BY <1>4, <1>6 DEF IInv, ExecutionTypeOK, PlansAreOnRecord

LEMMA LookUpFailsStep ==
    ASSUME IInv, NEW s \in Slots, LookUpFails(s)
    PROVE  IInv'
  <1>1. PICK q \in Slot : q = slots[s]
    BY SlotTypes DEF IInv, LookUpFails
  <1>2. Vouched(q, Rejection)
    BY RejectionIs DEF Vouched
  <1> QED
    BY <1>1, <1>2, RejectionIs, EndWithoutPut DEF LookUpFails, Failed

(* A slot that goes on to the next operation of its step.                  *)
LEMMA GoOn ==
    ASSUME IInv, NEW s \in Slots, InFlight(s), slots[s].phase # "put", NEW p \in Slot,
           slots' = [slots EXCEPT ![s] = p], SlotOK(p),
           p.key = slots[s].key, p.alone = slots[s].alone, answer' = None,
           UNCHANGED <<records, disturbed>>
    PROVE  /\ slots' \in [Slots -> Slot \cup {Idle}] /\ SlotsOK' /\ AloneOK'
           /\ AnswersAreOnRecord' /\ Grows
           /\ \A t \in Slots \ {s} : slots'[t] = slots[t]
           /\ slots'[s] = p
  <1>1. Grows /\ disturbed \subseteq disturbed'
    BY DEF Grows
  <1>2. SlotOK(p)'
    BY DEF SlotOK, Backed, NextStep
  <1>3. slots' \in [Slots -> Slot \cup {Idle}] /\ SlotsOK' /\ AloneOK'
    BY <1>1, <1>2, OneSlot
  <1>4. slots'[s] = p /\ \A t \in Slots \ {s} : slots'[t] = slots[t]
    BY DEF IInv, ExecutionTypeOK
  <1> QED
    BY <1>1, <1>3, <1>4 DEF AnswersAreOnRecord

LEMMA LookUpStep ==
    ASSUME IInv, NEW s \in Slots, LookUp(s)
    PROVE  IInv'
  <1>1. PICK q \in Slot : q = slots[s]
    BY SlotTypes DEF IInv, LookUp
  <1>2. /\ InFlight(s) /\ SlotOK(q) /\ q.phase = "look_up"
        /\ KeyOf(s) = <<q.key, NextStep(q)>> /\ KeyOf(s) \in StepKeys
    BY <1>1, SlotTypes, StepKeyIs DEF IInv, LookUp
  <1>3. UNCHANGED <<records, dispatches, disturbed>>
    BY DEF LookUp
  <1>4. CASE records[KeyOf(s)] = None
    <2> DEFINE p == [q EXCEPT !.phase = "dispatch"]
    <2>1. slots' = [slots EXCEPT ![s] = p] /\ answer' = None
      BY <1>1, <1>4 DEF LookUp
    <2>2. /\ p \in Slot /\ p.phase = "dispatch" /\ p.key = q.key /\ p.print = q.print
          /\ p.results = q.results /\ p.alone = q.alone
      BY DEF Slot
    <2> HIDE DEF p
    <2>3. SlotOK(p)
      BY <1>2, <1>4, <2>2 DEF SlotOK, NextStep
    <2>4. /\ slots' \in [Slots -> Slot \cup {Idle}] /\ SlotsOK' /\ AloneOK'
          /\ AnswersAreOnRecord' /\ \A t \in Slots \ {s} : slots'[t] = slots[t]
      BY <1>1, <1>2, <1>3, <2>1, <2>2, <2>3, GoOn
    <2>5. DispatchesOK' /\ RecordsOK' /\ GroundsFollowComputation'
      <3>1. \A t \in Slots : slots[t].phase = "put" => slots'[t] = slots[t]
        BY <1>1, <1>2, <2>4
      <3> QED
        BY <1>3, <3>1, PutStays, NothingPut
    <2> QED
      BY <1>3, <2>1, <2>4, <2>5 DEF IInv, ExecutionTypeOK, PlansAreOnRecord
  <1>5. CASE records[KeyOf(s)] # None
    <2> DEFINE record == records[KeyOf(s)]
               x == IF SamePrint(record, NextPrint(q)) THEN Of(record) ELSE Rejection
    <2>1. record \in Envelope
      BY <1>2, <1>5 DEF IInv, ExecutionTypeOK
    <2>2. x \in Result /\ Vouched(q, x)
      <3>1. CASE SamePrint(record, NextPrint(q))
        BY <1>2, <1>5, <2>1, <3>1, OfIs DEF Vouched, SamePrint
      <3>2. CASE ~ SamePrint(record, NextPrint(q))
        BY <3>2, RejectionIs DEF Vouched
      <3> QED
        BY <3>1, <3>2
    <2>3. Conclude(s, x)
      BY <1>1, <1>5, PrintAtIs DEF LookUp
    <2> HIDE DEF x
    <2> QED
      BY <1>1, <1>2, <1>3, <2>2, <2>3, EndWithoutPut
  <1> QED
    BY <1>4, <1>5

(* Undisturbed, the step has not been dispatched before: nothing of it is  *)
(* on record, and there is no other request to put it.                     *)
LEMMA DispatchStep ==
    ASSUME IInv, NEW s \in Slots, Dispatch(s)
    PROVE  IInv'
  <1> DEFINE number == dispatches[KeyOf(s)] + 1
  <1>1. PICK q \in Slot : q = slots[s]
    BY SlotTypes DEF IInv, Dispatch
  <1>2. /\ InFlight(s) /\ SlotOK(q) /\ q.phase = "dispatch" /\ StepOf(s) = NextStep(q)
        /\ KeyOf(s) = <<q.key, NextStep(q)>> /\ KeyOf(s) \in StepKeys /\ NextStep(q) \in Steps
    BY <1>1, SlotTypes, StepKeyIs DEF IInv, Dispatch
  <1>3. /\ number <= MaxDispatches /\ dispatches' = [dispatches EXCEPT ![KeyOf(s)] = number]
        /\ answer' = None /\ UNCHANGED <<records, disturbed>>
    BY DEF Dispatch
  <1>4. PICK outcome \in OutcomesOf(NextStep(q)) :
           slots' = [slots EXCEPT ![s].phase = "put",
                       ![s].envelope = [print |-> NextPrint(q), outcome |-> outcome,
                          number |-> IF NextStep(q) = "compute" THEN 0 ELSE number]]
    BY <1>1, <1>2, PrintAtIs DEF Dispatch
  <1> DEFINE e == [print |-> NextPrint(q), outcome |-> outcome,
                   number |-> IF NextStep(q) = "compute" THEN 0 ELSE number]
             p == [q EXCEPT !.phase = "put", !.envelope = e]
  <1>5. dispatches \in [StepKeys -> 0..MaxDispatches] /\ MaxDispatches \in Nat
    BY ExecutionAssumption DEF IInv, ExecutionTypeOK
  <1>6. number \in 0..MaxDispatches /\ 0 \in 0..MaxDispatches
    BY <1>2, <1>3, <1>5
  <1>7. e \in Envelope /\ e.print = NextPrint(q) /\ e.outcome = outcome
    <2>1. outcome \in Outcomes
      BY <1>2 DEF Outcomes
    <2> QED
      BY <1>6, <2>1, InSlot, PrintIsPrint DEF Envelope
  <1>8. slots' = [slots EXCEPT ![s] = p]
    BY <1>1, <1>4
  <1> HIDE DEF e
  <1>9. /\ p \in Slot /\ p.phase = "put" /\ p.key = q.key /\ p.print = q.print
        /\ p.results = q.results /\ p.alone = q.alone /\ p.envelope = e
    BY <1>7 DEF Slot
  <1> HIDE DEF p
  <1>10. SlotOK(p)
    BY <1>2, <1>4, <1>7, <1>9 DEF SlotOK, NextStep, NextPrint
  <1>11. /\ slots' \in [Slots -> Slot \cup {Idle}] /\ SlotsOK' /\ AloneOK'
         /\ AnswersAreOnRecord' /\ Grows
         /\ \A t \in Slots \ {s} : slots'[t] = slots[t]
         /\ slots'[s] = p
    BY <1>1, <1>2, <1>3, <1>8, <1>9, <1>10, GoOn
  <1> HIDE DEF number
  <1>12. /\ dispatches' \in [StepKeys -> 0..MaxDispatches]
         /\ dispatches'[KeyOf(s)] = number
         /\ \A k \in StepKeys \ {KeyOf(s)} : dispatches'[k] = dispatches[k]
    BY <1>2, <1>3, <1>5, <1>6
  <1>13. DispatchesOK'
    <2> SUFFICES ASSUME NEW k \in StepKeys, k[1] \notin disturbed
                 PROVE  /\ dispatches'[k] <= 1
                        /\ dispatches'[k] = 1 =>
                              \/ records[k] # None
                              \/ \E t \in Slots : slots'[t].phase = "put" /\ KeyOf(t)' = k
      BY <1>3 DEF DispatchesOK
    <2>1. /\ dispatches[k] <= 1
          /\ dispatches[k] = 1 =>
                \/ records[k] # None
                \/ \E t \in Slots : slots[t].phase = "put" /\ KeyOf(t) = k
      BY DEF IInv, DispatchesOK
    <2>2. CASE k = KeyOf(s)
      <3>1. q.alone /\ records[k] = None
        BY <1>2, <2>2 DEF SlotOK
      <3>2. ASSUME NEW t \in Slots, slots[t].phase = "put", KeyOf(t) = k PROVE FALSE
        <4>1. InFlight(t) /\ t # s
          BY <1>1, <1>2, <3>2, SlotTypes DEF IInv
        <4>2. slots[t].key = q.key
          BY <1>2, <2>2, <3>2, <4>1, StepKeyIs
        <4> QED
          BY <1>1, <1>2, <3>1, <4>1, <4>2 DEF IInv, AloneOK
      <3>3. dispatches[k] = 0
        <4>1. dispatches[k] \in Nat
          BY <1>5
        <4> QED
          BY <2>1, <3>1, <3>2, <4>1
      <3>4. dispatches'[k] = 1
        BY <1>12, <2>2, <3>3 DEF number
      <3>5. slots'[s].phase = "put" /\ KeyOf(s)' = k
        BY <1>2, <1>9, <1>11, <2>2 DEF KeyOf, StepOf, NextStep
      <3> QED
        BY <3>4, <3>5
    <2>3. CASE k # KeyOf(s)
      <3>1. ASSUME NEW t \in Slots, slots[t].phase = "put", KeyOf(t) = k
            PROVE  slots'[t].phase = "put" /\ KeyOf(t)' = k
        <4>1. slots'[t] = slots[t]
          BY <1>11, <2>3, <3>1
        <4> QED
          BY <3>1, <4>1, PutStays
      <3> QED
        BY <1>12, <2>1, <2>3, <3>1
    <2> QED
      BY <2>2, <2>3
  <1>14. RecordsOK' /\ GroundsFollowComputation'
    BY <1>3 DEF IInv, RecordsOK, PlansAreOnRecord, GroundsFollowComputation
  <1> QED
    BY <1>3, <1>11, <1>12, <1>13, <1>14 DEF IInv, ExecutionTypeOK, PlansAreOnRecord

(* What putting does to the records: the first envelope stays, and that of *)
(* the grounds follows a computation its request has seen resolved.        *)
LEMMA PutRecords ==
    ASSUME IInv, NEW s \in Slots, slots[s].phase = "put",
           LET record == records[KeyOf(s)]
           IN  records' \in {records, [records EXCEPT ![KeyOf(s)] = Stored(record, slots[s].envelope)]}
    PROVE  /\ records' \in [StepKeys -> Envelope \cup {None}]
           /\ Grows /\ RecordsOK' /\ GroundsFollowComputation'
           /\ \A k \in StepKeys : records'[k] = records[k] \/ k = KeyOf(s)
  <1>1. PICK q \in Slot : q = slots[s]
    BY SlotTypes DEF IInv
  <1>2. /\ InFlight(s) /\ SlotOK(q) /\ q.phase = "put"
        /\ KeyOf(s) = <<q.key, NextStep(q)>> /\ KeyOf(s) \in StepKeys
    BY <1>1, SlotTypes, StepKeyIs DEF IInv
  <1>3. /\ q.envelope \in Envelope /\ q.envelope # None /\ q.envelope.print = NextPrint(q)
        /\ q.envelope.outcome \in OutcomesOf(NextStep(q))
    BY <1>2, NoEnvelopeAssumption DEF SlotOK
  <1>4. records \in [StepKeys -> Envelope \cup {None}] /\ RecordsOK /\ GroundsFollowComputation
    BY DEF IInv, ExecutionTypeOK, PlansAreOnRecord
  <1>5. CASE records' = records
    BY <1>4, <1>5 DEF Grows, RecordsOK, GroundsFollowComputation
  <1>6. CASE records' = [records EXCEPT ![KeyOf(s)] = Stored(records[KeyOf(s)], q.envelope)]
    <2>1. /\ \A k \in StepKeys \ {KeyOf(s)} : records'[k] = records[k]
          /\ records'[KeyOf(s)] = IF records[KeyOf(s)] = None THEN q.envelope ELSE records[KeyOf(s)]
      BY <1>2, <1>4, <1>6 DEF Stored
    <2>2. Grows
      BY <2>1 DEF Grows
    <2>3. records' \in [StepKeys -> Envelope \cup {None}]
      BY <1>2, <1>3, <1>4, <1>6 DEF Stored
    <2>4. RecordsOK'
      <3> SUFFICES ASSUME NEW k \in StepKeys, records'[k] # None
                   PROVE  records'[k].outcome \in OutcomesOf(k[2])
        BY DEF RecordsOK
      <3>1. KeyOf(s)[2] = NextStep(q)
        BY <1>2
      <3> QED
        BY <1>3, <1>4, <2>1, <3>1 DEF RecordsOK
    <2>5. GroundsFollowComputation'
      <3> SUFFICES ASSUME NEW k \in Keys, records'[<<k, "ground">>] # None
                   PROVE  LET computation == records'[<<k, "compute">>]
                          IN  /\ computation # None
                              /\ computation.print = Bare[records'[<<k, "ground">>].print]
        BY DEF GroundsFollowComputation
      <3>1. <<k, "ground">> \in StepKeys /\ <<k, "compute">> \in StepKeys
        BY DEF StepKeys, Steps
      <3>2. CASE records[<<k, "ground">>] # None
        BY <1>4, <2>2, <3>1, <3>2 DEF GroundsFollowComputation, Grows
      <3>3. CASE records[<<k, "ground">>] = None
        <4>1. KeyOf(s) = <<k, "ground">> /\ records'[<<k, "ground">>] = q.envelope
          BY <2>1, <3>1, <3>3
        <4>2. q.key = k /\ NextStep(q) = "ground"
          BY <1>2, <4>1
        <4>3. q.print \in Multi /\ Len(q.results) = 1
          BY <1>2, <4>2, StepIs DEF SlotOK
        <4>4. Resolved(q.results[1]) /\ 1 \in DOMAIN q.results
          BY <1>2, <4>3, InSlot, Lists DEF SlotOK
        <4>5. StepsOf(q.print)[1] = "compute"
          BY <4>3, Plans
        <4>6. /\ records[<<k, "compute">>] # None
              /\ records[<<k, "compute">>].print = Bare[q.print]
          BY <1>2, <4>2, <4>4, <4>5 DEF SlotOK, Backed, Resolved, PrintOf
        <4>7. q.envelope.print = q.print
          BY <1>3, <4>2 DEF NextPrint, PrintOf
        <4>8. records'[<<k, "compute">>] = records[<<k, "compute">>]
          BY <2>2, <3>1, <4>6 DEF Grows
        <4> QED
          BY <1>3, <4>1, <4>6, <4>7, <4>8
      <3> QED
        BY <3>2, <3>3
    <2> QED
      BY <2>1, <2>2, <2>3, <2>4, <2>5
  <1> QED
    BY <1>1, <1>5, <1>6

(* What is true of the dispatches once a request about to put is done.     *)
LEMMA DoneWithPut ==
    ASSUME IInv, Grows, NEW s \in Slots, UNCHANGED dispatches, disturbed \subseteq disturbed',
           records'[KeyOf(s)] # None \/ slots[s].key \in disturbed',
           \A t \in Slots \ {s} : slots'[t] = slots[t]
    PROVE  DispatchesOK'
  <1> SUFFICES ASSUME NEW k \in StepKeys, k[1] \notin disturbed'
               PROVE  /\ dispatches[k] <= 1
                      /\ dispatches[k] = 1 =>
                            \/ records'[k] # None
                            \/ \E t \in Slots : slots'[t].phase = "put" /\ KeyOf(t)' = k
    BY DEF DispatchesOK
  <1>1. /\ dispatches[k] <= 1
        /\ dispatches[k] = 1 =>
              \/ records[k] # None
              \/ \E t \in Slots : slots[t].phase = "put" /\ KeyOf(t) = k
    BY DEF IInv, DispatchesOK
  <1>2. CASE records[k] # None
    BY <1>1, <1>2 DEF Grows
  <1>3. ASSUME NEW t \in Slots, slots[t].phase = "put", KeyOf(t) = k
        PROVE  records'[k] # None \/ (slots'[t].phase = "put" /\ KeyOf(t)' = k)
    <2>1. CASE t = s
      BY <1>3, <2>1 DEF KeyOf
    <2>2. CASE t # s
      BY <1>3, <2>2, PutStays
    <2> QED
      BY <2>1, <2>2
  <1> QED
    BY <1>1, <1>2, <1>3

LEMMA PutStep ==
    ASSUME IInv, NEW s \in Slots, Put(s)
    PROVE  IInv'
  <1>1. PICK q \in Slot : q = slots[s]
    BY SlotTypes DEF IInv, Put
  <1>2. /\ InFlight(s) /\ SlotOK(q) /\ q.phase = "put"
        /\ KeyOf(s) = <<q.key, NextStep(q)>> /\ KeyOf(s) \in StepKeys
    BY <1>1, SlotTypes, StepKeyIs DEF IInv, Put
  <1>3. PICK old \in Envelope \cup {None} : old = records[KeyOf(s)]
    BY <1>2 DEF IInv, ExecutionTypeOK
  <1>4. /\ records' = [records EXCEPT ![KeyOf(s)] = Stored(old, q.envelope)]
        /\ UNCHANGED <<dispatches, disturbed>>
    BY <1>1, <1>3 DEF Put
  <1>5. /\ records' \in [StepKeys -> Envelope \cup {None}]
        /\ Grows /\ RecordsOK' /\ GroundsFollowComputation'
        /\ \A k \in StepKeys : records'[k] = records[k] \/ k = KeyOf(s)
    BY <1>1, <1>2, <1>3, <1>4, PutRecords
  <1>6. /\ q.envelope \in Envelope /\ q.envelope # None /\ q.envelope.print = NextPrint(q)
    BY <1>2, NoEnvelopeAssumption DEF SlotOK
  <1>7. records'[KeyOf(s)] = Stored(old, q.envelope) /\ records'[KeyOf(s)] # None
    BY <1>2, <1>4, <1>6 DEF IInv, ExecutionTypeOK, Stored
  <1>8. PICK x : x = PutResult(old, q.envelope)
    OBVIOUS
  <1>9. x \in Result /\ Vouched(q, x)'
    <2>1. CASE old = None \/ SamePrint(old, NextPrint(q))
      <3>1. x = Of(q.envelope)
        BY <1>6, <1>8, <2>1 DEF PutResult
      <3>2. q.alone => old = None
        BY <1>2, <1>3 DEF SlotOK
      <3>3. records'[KeyOf(s)].print = NextPrint(q) /\ (q.alone => records'[KeyOf(s)] = q.envelope)
        BY <1>6, <1>7, <2>1, <3>2 DEF Stored, SamePrint
      <3> QED
        BY <1>2, <1>6, <1>7, <3>1, <3>3, OfIs DEF Vouched, NextStep
    <2>2. CASE ~ (old = None \/ SamePrint(old, NextPrint(q)))
      <3>1. x = Rejection
        BY <1>6, <1>8, <2>2 DEF PutResult
      <3> QED
        BY <3>1, RejectionIs DEF Vouched
    <2> QED
      BY <2>1, <2>2
  <1>10. Conclude(s, x)
    BY <1>1, <1>3, <1>8 DEF Put
  <1>11. disturbed \subseteq disturbed' /\ \A t \in Slots \ {s} : slots'[t] = slots[t]
    BY <1>4, <1>10 DEF IInv, ExecutionTypeOK, Conclude
  <1>12. /\ slots' \in [Slots -> Slot \cup {Idle}] /\ SlotsOK' /\ AloneOK'
         /\ answer' \in Answer \cup {None} /\ AnswersAreOnRecord'
    BY <1>1, <1>2, <1>5, <1>9, <1>10, <1>11, ConcludeStep
  <1>13. DispatchesOK'
    BY <1>4, <1>5, <1>7, <1>11, DoneWithPut
  <1> QED
    BY <1>4, <1>5, <1>12, <1>13 DEF IInv, ExecutionTypeOK, PlansAreOnRecord

LEMMA PutFailsStep ==
    ASSUME IInv, NEW s \in Slots, PutFails(s)
    PROVE  IInv'
  <1>1. PICK q \in Slot : q = slots[s]
    BY SlotTypes DEF IInv, PutFails
  <1>2. InFlight(s) /\ q.phase = "put" /\ q.key \in Keys
    BY <1>1, SlotTypes, InSlot DEF IInv, PutFails
  <1>3. /\ records' \in [StepKeys -> Envelope \cup {None}]
        /\ Grows /\ RecordsOK' /\ GroundsFollowComputation'
        /\ \A k \in StepKeys : records'[k] = records[k] \/ k = KeyOf(s)
    BY PutRecords DEF PutFails
  <1>4. disturbed' = disturbed \cup {q.key} /\ UNCHANGED dispatches /\ Conclude(s, Rejection)
    BY <1>1 DEF PutFails, Failed
  <1>5. Vouched(q, Rejection)'
    BY RejectionIs DEF Vouched, Rejection
  <1>6. disturbed \subseteq disturbed' /\ \A t \in Slots \ {s} : slots'[t] = slots[t]
    BY <1>4 DEF IInv, ExecutionTypeOK, Conclude
  <1>7. /\ slots' \in [Slots -> Slot \cup {Idle}] /\ SlotsOK' /\ AloneOK'
        /\ answer' \in Answer \cup {None} /\ AnswersAreOnRecord'
    BY <1>1, <1>2, <1>3, <1>4, <1>5, <1>6, RejectionIs, ConcludeStep
  <1>8. DispatchesOK'
    BY <1>1, <1>3, <1>4, <1>6, DoneWithPut
  <1> QED
    BY <1>2, <1>3, <1>4, <1>7, <1>8 DEF IInv, ExecutionTypeOK, PlansAreOnRecord

LEMMA AbortStep ==
    ASSUME IInv, NEW s \in Slots, Abort(s)
    PROVE  IInv'
  <1>1. PICK q \in Slot : q = slots[s]
    BY SlotTypes DEF IInv, Abort
  <1>2. /\ InFlight(s) /\ slots' = [slots EXCEPT ![s] = Idle] /\ answer' = None
        /\ disturbed' = disturbed \cup {q.key} /\ UNCHANGED <<records, dispatches>>
    BY <1>1 DEF Abort
  <1>3. Grows /\ RecordsOK' /\ GroundsFollowComputation'
    BY <1>2 DEF IInv, Grows, RecordsOK, PlansAreOnRecord, GroundsFollowComputation
  <1>4. disturbed \subseteq disturbed' /\ \A t \in Slots \ {s} : slots'[t] = slots[t]
    BY <1>2 DEF IInv, ExecutionTypeOK
  <1>5. slots' \in [Slots -> Slot \cup {Idle}] /\ SlotsOK' /\ AloneOK'
    BY <1>2, <1>3, <1>4, OneSlot
  <1>6. DispatchesOK'
    BY <1>1, <1>2, <1>3, <1>4, DoneWithPut
  <1> QED
    BY <1>2, <1>3, <1>5, <1>6, InSlot
       DEF IInv, ExecutionTypeOK, PlansAreOnRecord, AnswersAreOnRecord

-----------------------------------------------------------------------------
(* The invariant, and what follows from it.                                *)

LEMMA NextPreserves ==
    ASSUME IInv, [ExecutionNext]_executionVars
    PROVE  IInv'
  <1>1. CASE UNCHANGED executionVars
    <2>1. Grows /\ UNCHANGED <<records, dispatches, slots, disturbed, answer>>
      BY <1>1 DEF executionVars, Grows
    <2>2. DispatchesOK' /\ RecordsOK' /\ GroundsFollowComputation'
      BY <2>1, PutStays, NothingPut
    <2>3. SlotsOK' /\ AloneOK'
      BY <2>1, OtherSlot DEF IInv, SlotsOK, AloneOK, InFlight
    <2> QED
      BY <2>1, <2>2, <2>3 DEF IInv, ExecutionTypeOK, PlansAreOnRecord, AnswersAreOnRecord
  <1>2. ASSUME NEW s \in Slots, NEW key \in Keys, NEW print \in Prints,
               Begin(s, key, print) \/ RefuseEarly(s, key, print)
        PROVE  IInv'
    BY <1>2, BeginStep, RefuseEarlyStep
  <1>3. ASSUME NEW s \in Slots,
               \/ LookUp(s) \/ LookUpFails(s) \/ Dispatch(s)
               \/ Put(s) \/ PutFails(s) \/ Abort(s)
        PROVE  IInv'
    BY <1>3, LookUpStep, LookUpFailsStep, DispatchStep, PutStep, PutFailsStep, AbortStep
  <1> QED
    BY <1>1, <1>2, <1>3 DEF ExecutionNext

LEMMA Inductive == ExecutionSpec => []IInv
  BY InitEstablishes, NextPreserves, PTL DEF ExecutionSpec

\* Every reachable state has its types.
THEOREM TypeCorrect == ExecutionSpec => []ExecutionTypeOK
  <1>1. IInv => ExecutionTypeOK
    BY DEF IInv
  <1> QED
    BY <1>1, Inductive, PTL

\* A step is dispatched a second time only if its key was in two requests at once, or one that
\* had it died or could not store what it had done (execute_idempotent_action_request).
THEOREM RepeatNeedsDisturbanceHolds == ExecutionSpec => []RepeatNeedsDisturbance
  <1>1. IInv => RepeatNeedsDisturbance
    <2> SUFFICES ASSUME IInv, NEW k \in StepKeys, dispatches[k] > 1, k[1] \notin disturbed
                 PROVE  FALSE
      BY DEF RepeatNeedsDisturbance
    <2>1. dispatches[k] <= 1 /\ dispatches[k] \in 0..MaxDispatches
      BY DEF IInv, DispatchesOK, ExecutionTypeOK
    <2> QED
      BY <2>1, ExecutionAssumption
  <1> QED
    BY <1>1, Inductive, PTL

\* What a client is told of a plan is on record under its key and for its request, and grounds
\* are on record only behind the computation they depend on (execute_governed_multi_step_plan).
THEOREM PlansAreOnRecordHolds == ExecutionSpec => []PlansAreOnRecord
  <1>1. IInv => PlansAreOnRecord
    BY DEF IInv
  <1> QED
    BY <1>1, Inductive, PTL
=============================================================================
