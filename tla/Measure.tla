------------------------------ MODULE Measure --------------------------------
(* The lexicographic order on tuples of naturals of one length, which is     *)
(* well founded: what goes down in it cannot go down for ever.               *)
EXTENDS Naturals, Sequences

Less(a, b) ==
  /\ a \in Seq(Nat) /\ b \in Seq(Nat) /\ Len(a) = Len(b)
  /\ \E j \in 1..Len(b) : a[j] < b[j] /\ \A i \in 1..(j - 1) : a[i] = b[i]
=============================================================================
