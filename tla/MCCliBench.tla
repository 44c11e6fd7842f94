----------------------------- MODULE MCCliBench ------------------------------
(* Instance of CliBench for TLC: a dual reader, whose SAM slot comes first,  *)
(* and a virtual reader whose name holds "PICC", as on the bench of the      *)
(* tests of select_reader.                                                   *)
EXTENDS CliBench, TLC

Bench == <<Reader("vpcd", TRUE, TRUE, FALSE), Reader("sam", FALSE, FALSE, TRUE),
           Reader("picc", FALSE, TRUE, FALSE)>>
BenchPins == {{"vpcd"}, {"sam", "picc"}, {}}
Symmetry == Permutations(Procs)
=============================================================================
