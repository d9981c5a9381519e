---------------------------- MODULE MCAuditChain ----------------------------
EXTENDS AuditChain, TLC
Symmetry == Permutations(Transactions) \cup Permutations(Keys) \cup Permutations(Payloads)
=============================================================================
