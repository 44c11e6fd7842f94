---------------------------- MODULE ApduExchange -----------------------------
(* What the operations of CardOps take an exchange with the card to be: the  *)
(* card executes the command at most once; the caller gets the whole answer  *)
(* to this very command, or an error that says nothing of whether it was     *)
(* executed.                                                                 *)
EXTENDS Naturals

VARIABLES
  call,       \* number of the command, from 1
  executed,   \* times the card has executed it
  outcome     \* "none", "busy", "ok" or "err"

Init == call = 0 /\ executed = 0 /\ outcome = "none"

Issue ==
  /\ outcome # "busy" /\ outcome' = "busy"
  /\ call' = call + 1 /\ executed' = 0

Execute ==
  /\ outcome = "busy" /\ executed = 0
  /\ executed' = 1 /\ outcome' \in {"busy", "ok", "err"}
  /\ UNCHANGED call

Return ==
  /\ outcome = "busy"
  /\ outcome' \in (IF executed = 1 THEN {"ok", "err"} ELSE {"err"})
  /\ UNCHANGED <<call, executed>>

Next == Issue \/ Execute \/ Return

Spec == Init /\ [][Next]_<<call, executed, outcome>>
=============================================================================
