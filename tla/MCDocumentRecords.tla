------------------------- MODULE MCDocumentRecords -------------------------
(* One document, locked or not; its grant, when there is one, is for Command. *)
EXTENDS DocumentRecords, TLC
CONSTANT Command
MCScope == [g \in Grants |-> [document |-> CHOOSE d \in Documents : TRUE, command |-> Command]]
Symmetry == Permutations(Clients)
=============================================================================
