--------------------------- MODULE ActionExecution ---------------------------
(***************************************************************************)
(* Idempotent execution of orchestration actions                           *)
(* (services/orchestration/app): execute_governed_multi_step_plan runs the *)
(* steps of a plan in order, and execute_idempotent_action_request takes   *)
(* each step through a look-up of its record, the dispatch to an adapter   *)
(* and the put of the envelope, which are separate operations with the     *)
(* database reachable or not at each.                                      *)
(*                                                                         *)
(* The executable plans are one step under the client's own key, or a      *)
(* computation and the search for its grounds, each under a key made of    *)
(* the client's key, the plan and the step; the two-step requests are of   *)
(* one plan, those of different plans share no key of a step.  A print is  *)
(* all a request's fingerprint is made of, correlation identifier and      *)
(* resolved payload included.  The payload is given to the search only, so *)
(* that requests which differ in nothing else share the print of their     *)
(* computation (Bare).                                                     *)
(***************************************************************************)
EXTENDS Naturals, Sequences

CONSTANTS
    Slots,          \* requests the service may handle at once
    Keys,           \* idempotency keys of clients
    Prints,
    Multi,          \* prints whose plan has two steps
    Bare,           \* a print without its payload
    None,
    MaxDispatches   \* bound: dispatches of each key and step

ASSUME ExecutionAssumption ==
    /\ Multi \subseteq Prints
    /\ Bare \in [Prints -> Prints]
    /\ MaxDispatches \in Nat \ {0}

VARIABLES
    records,     \* orchestration_execution_records, by client's key and step
    dispatches,  \* how often each key and step has been given to an adapter
    slots,       \* what each request has done so far
    disturbed,   \* history: keys that two requests had in flight at once, or one died or could not store
    answer       \* history: what the last step has answered

executionVars == <<records, dispatches, slots, disturbed, answer>>

Steps == {"single", "compute", "ground"}
StepsOf(print) == IF print \in Multi THEN <<"compute", "ground">> ELSE <<"single">>
StepKeys == Keys \X Steps

\* What the fingerprint of one of a request's steps is made of.
PrintOf(step, print) == IF step = "compute" THEN Bare[print] ELSE print

\* What the registered adapters can answer: a computation is a function of its request, and always
\* pending; no adapter has the codes of a retryable failure.
OutcomesOf(step) ==
    CASE step = "compute" -> {"pending"}
      [] step = "ground" -> {"accepted", "rejected"}
      [] OTHER -> {"accepted", "pending", "rejected"}

Outcomes == UNION {OutcomesOf(step) : step \in Steps}

\* number tells apart the answers of different dispatches; those to a computation are equal.
Envelope == [print: Prints, outcome: Outcomes, number: 0..MaxDispatches]

ASSUME NoEnvelopeAssumption == None \notin Envelope

\* The result of a step: its mapped action status, and the envelope unless none was stored.
Result == [status: Outcomes \cup {"blocked"}, envelope: Envelope \cup {None}]
Resolved(result) == result.status \in {"accepted", "pending"}
Rejection == [status |-> "rejected", envelope |-> None]
Blocked == [status |-> "blocked", envelope |-> None]

Results == UNION {[1..n -> Result] : n \in 0..2}
Slot == [phase: {"look_up", "dispatch", "put"}, key: Keys, print: Prints,
         results: Results, envelope: Envelope \cup {None}, alone: BOOLEAN]
Idle == [phase |-> "idle"]
Answer == [key: Keys, print: Prints, results: Results, status: Outcomes, alone: BOOLEAN]

ExecutionTypeOK ==
    /\ records \in [StepKeys -> Envelope \cup {None}]
    /\ dispatches \in [StepKeys -> 0..MaxDispatches]
    /\ slots \in [Slots -> Slot \cup {Idle}]
    /\ disturbed \in SUBSET Keys
    /\ answer \in Answer \cup {None}

ExecutionInit ==
    /\ records = [k \in StepKeys |-> None]
    /\ dispatches = [k \in StepKeys |-> 0]
    /\ slots = [s \in Slots |-> Idle]
    /\ disturbed = {}
    /\ answer = None

InFlight(s) == slots[s] # Idle
StepOf(s) == StepsOf(slots[s].print)[Len(slots[s].results) + 1]
KeyOf(s) == <<slots[s].key, StepOf(s)>>

-----------------------------------------------------------------------------
(* A request of key and print arrives.                                     *)

Begin(s, key, print) ==
    LET others == {t \in Slots : InFlight(t) /\ slots[t].key = key}
    IN  /\ ~ InFlight(s)
        /\ slots' = [t \in Slots |->
              CASE t = s -> [phase |-> "look_up", key |-> key, print |-> print,
                             results |-> <<>>, envelope |-> None, alone |-> others = {}]
                [] t \in others -> [slots[t] EXCEPT !.alone = FALSE]
                [] OTHER -> slots[t]]
        /\ disturbed' = IF others = {} THEN disturbed ELSE disturbed \cup {key}
        /\ answer' = None
        /\ UNCHANGED <<records, dispatches>>

\* The route itself refuses a key whose single step is on record for another request.
RefuseEarly(s, key, print) ==
    LET record == records[<<key, "single">>]
    IN  /\ ~ InFlight(s)
        /\ record # None
        /\ record.print # print
        /\ answer' = [key |-> key, print |-> print, results |-> <<Rejection>>,
                      status |-> "rejected", alone |-> FALSE]
        /\ UNCHANGED <<records, dispatches, slots, disturbed>>

-----------------------------------------------------------------------------
(* The end of a step: those that depend on it are blocked unless it is     *)
(* resolved, and after the last one the request is answered.               *)

After(results, print) ==
    IF Len(results) < Len(StepsOf(print)) /\ ~ Resolved(results[Len(results)])
    THEN Append(results, Blocked) ELSE results

Aggregate(results) ==
    LET statuses == {results[i].status : i \in DOMAIN results}
    IN  IF statuses \cap {"rejected", "blocked"} # {} THEN "rejected"
        ELSE IF "pending" \in statuses THEN "pending"
        ELSE "accepted"

Conclude(s, result) ==
    LET q == slots[s]
        results == After(Append(q.results, result), q.print)
    IN  IF Len(results) = Len(StepsOf(q.print))
        THEN /\ slots' = [slots EXCEPT ![s] = Idle]
             /\ answer' = [key |-> q.key, print |-> q.print, results |-> results,
                           status |-> Aggregate(results), alone |-> q.alone]
        ELSE /\ slots' = [slots EXCEPT ![s].phase = "look_up", ![s].results = results,
                                       ![s].envelope = None]
             /\ answer' = None

Of(envelope) == [status |-> envelope.outcome, envelope |-> envelope]

-----------------------------------------------------------------------------
(* The three operations of a step.                                         *)

SamePrint(record, print) == record.print = print

\* The print of the step a request has come to.
PrintAt(s) == PrintOf(StepOf(s), slots[s].print)

\* Seeded fault: the error is reported as a status of its own.
Failed_Unmapped == [status |-> "unavailable", envelope |-> None]

\* The result of a step when its record cannot be read, or its envelope not be put.
Failed == Rejection

LookUp(s) ==
    LET q == slots[s]
        record == records[KeyOf(s)]
    IN  /\ q.phase = "look_up"
        /\ IF record = None
           THEN slots' = [slots EXCEPT ![s].phase = "dispatch"] /\ answer' = None
           ELSE Conclude(s, IF SamePrint(record, PrintAt(s)) THEN Of(record) ELSE Rejection)
        /\ UNCHANGED <<records, dispatches, disturbed>>

LookUpFails(s) ==
    /\ slots[s].phase = "look_up"
    /\ Conclude(s, Failed)
    /\ UNCHANGED <<records, dispatches, disturbed>>

Dispatch(s) ==
    LET q == slots[s]
        number == dispatches[KeyOf(s)] + 1
    IN  /\ q.phase = "dispatch"
        /\ number <= MaxDispatches
        /\ dispatches' = [dispatches EXCEPT ![KeyOf(s)] = number]
        /\ \E outcome \in OutcomesOf(StepOf(s)) :
              slots' = [slots EXCEPT ![s].phase = "put",
                          ![s].envelope = [print |-> PrintAt(s), outcome |-> outcome,
                             number |-> IF StepOf(s) = "compute" THEN 0 ELSE number]]
        /\ answer' = None
        /\ UNCHANGED <<records, disturbed>>

\* Seeded fault: a violation of the unique key is not looked into.
PutResult_Unread(record, envelope) == Of(envelope)

\* The row is inserted, or one of the key is found to be there.
PutResult(record, envelope) ==
    IF record = None \/ SamePrint(record, envelope.print) THEN Of(envelope) ELSE Rejection

\* Seeded fault: what has failed is not kept.
Stored_IfResolved(record, envelope) ==
    IF record = None /\ envelope.outcome # "rejected" THEN envelope ELSE record

Stored(record, envelope) == IF record = None THEN envelope ELSE record

Put(s) ==
    LET q == slots[s]
        record == records[KeyOf(s)]
    IN  /\ q.phase = "put"
        /\ records' = [records EXCEPT ![KeyOf(s)] = Stored(record, q.envelope)]
        /\ Conclude(s, PutResult(record, q.envelope))
        /\ UNCHANGED <<dispatches, disturbed>>

\* The database cannot be reached, or the connection is lost when the row may be committed.
PutFails(s) ==
    LET q == slots[s]
        record == records[KeyOf(s)]
    IN  /\ q.phase = "put"
        /\ records' \in {records, [records EXCEPT ![KeyOf(s)] = Stored(record, q.envelope)]}
        /\ disturbed' = disturbed \cup {q.key}
        /\ Conclude(s, Failed)
        /\ UNCHANGED dispatches

\* The process dies, or the adapter raises: the request is not answered.
Abort(s) ==
    /\ InFlight(s)
    /\ slots' = [slots EXCEPT ![s] = Idle]
    /\ disturbed' = disturbed \cup {slots[s].key}
    /\ answer' = None
    /\ UNCHANGED <<records, dispatches>>

ExecutionNext ==
    \E s \in Slots :
        \/ \E key \in Keys, print \in Prints : Begin(s, key, print) \/ RefuseEarly(s, key, print)
        \/ LookUp(s) \/ LookUpFails(s)
        \/ Dispatch(s)
        \/ Put(s) \/ PutFails(s)
        \/ Abort(s)

ExecutionSpec == ExecutionInit /\ [][ExecutionNext]_executionVars

-----------------------------------------------------------------------------
(* Properties.                                                             *)

\* A step is dispatched again only if its key was in two requests at once, or one that had it
\* died or could not store what it had done: a retry after any other answer repeats nothing,
\* whether that answer was a success, a rejection or a conflict.
RepeatNeedsDisturbance ==
    \A k \in StepKeys : dispatches[k] > 1 => k[1] \in disturbed

GroundsFollowComputation ==
    \A k \in Keys :
        LET computation == records[<<k, "compute">>]
            grounds == records[<<k, "ground">>]
        IN  grounds # None => computation # None /\ computation.print = Bare[grounds.print]

AnswersAreOnRecord ==
    answer # None =>
        \A i \in DOMAIN answer.results :
            LET result == answer.results[i]
                step == StepsOf(answer.print)[i]
                record == records[<<answer.key, step>>]
            IN  IF result.envelope = None THEN answer.status = "rejected"
                ELSE
                    /\ record # None
                    /\ record.print = PrintOf(step, answer.print)
                    /\ answer.alone => record = result.envelope

\* The search for grounds is on record only behind the computation of a request that differs from
\* its own in the payload at most, also if the two were executed by different attempts.
\* A step reported as executed is on record for the very request that is answered (a computation:
\* for it or one with another payload), and all steps are if the answer is not a rejection; the
\* record is what is reported, unless another request of the key was in flight.
PlansAreOnRecord == GroundsFollowComputation /\ AnswersAreOnRecord
=============================================================================
