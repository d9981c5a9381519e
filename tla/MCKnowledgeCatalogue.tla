------------------------- MODULE MCKnowledgeCatalogue -------------------------
EXTENDS KnowledgeCatalogue, TLC
CONSTANTS s1
Window(first, last) == [source |-> s1, first |-> first, last |-> last]
MCTexts == {Window(1, 1), Window(2, 9)}
Symmetry == Permutations(Requests) \cup Permutations(Keys) \cup Permutations(Actors) \cup Permutations(Titles)
=============================================================================
