------------------------- MODULE MCProcessingOutbox -------------------------
(* Model values for Rows and Relays come from the cfg; liveness is checked, *)
(* so no symmetry is declared.                                              *)
EXTENDS ProcessingOutbox
=============================================================================
