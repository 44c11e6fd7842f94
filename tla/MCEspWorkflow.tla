--------------------------- MODULE MCEspWorkflow -----------------------------
(* Instance of EspWorkflow for TLC.                                          *)
EXTENDS EspWorkflow
=============================================================================
