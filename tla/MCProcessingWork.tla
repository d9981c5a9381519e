-------------------------- MODULE MCProcessingWork --------------------------
(* Model values for Items and Workers come from the cfg; liveness is        *)
(* checked, so no symmetry is declared.                                     *)
EXTENDS ProcessingWork
=============================================================================
