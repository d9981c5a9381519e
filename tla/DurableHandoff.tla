--------------------------- MODULE DurableHandoff ---------------------------
(***************************************************************************)
(* What a transactional outbox promises its callers.  An intent committed  *)
(* with the work it announces stays committed; the broker may be handed    *)
(* copies of it, at most Copies of them; and an intent is confirmed only   *)
(* once the broker holds one, and stays confirmed.                         *)
(***************************************************************************)
EXTENDS Naturals

CONSTANTS Rows, Copies

VARIABLES offered, sent, confirmed

handoffVars == <<offered, sent, confirmed>>

HandoffInit ==
    /\ offered \in SUBSET Rows
    /\ sent = [r \in Rows |-> 0]
    /\ confirmed = {}

Offer ==
    /\ \E new \in SUBSET Rows : offered' = offered \cup new
    /\ UNCHANGED <<sent, confirmed>>

HandOver(r) ==
    /\ r \in offered
    /\ sent[r] < Copies
    /\ sent' = [sent EXCEPT ![r] = @ + 1]
    /\ UNCHANGED <<offered, confirmed>>

Confirm(r) ==
    /\ sent[r] > 0
    /\ confirmed' = confirmed \cup {r}
    /\ UNCHANGED <<offered, sent>>

HandoffNext == Offer \/ \E r \in Rows : HandOver(r) \/ Confirm(r)

HandoffSpec == HandoffInit /\ [][HandoffNext]_handoffVars
=============================================================================
