-------------------------- MODULE MCIso14443Session --------------------------
(* Instance of Iso14443Session for TLC.                                      *)
EXTENDS Iso14443Session
=============================================================================
