------------------------ MODULE MCProcessingDelivery ------------------------
(* Model values come from the cfgs; liveness is checked, so no symmetry is  *)
(* declared.                                                                *)
EXTENDS ProcessingDelivery
=============================================================================
