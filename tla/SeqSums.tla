-------------------------------- MODULE SeqSums --------------------------------
(***************************************************************************)
(* Sums of sequences of numbers (blocks of the parts of a file, sizes of   *)
(* its fragments), as a recursive function the provers can read.           *)
(***************************************************************************)
EXTENDS Integers, Sequences

(* The sums of the first elements of a sequence, and of all of them.       *)
Sums(s) == LET sum[i \in 0 .. Len(s)] == IF i = 0 THEN 0 ELSE sum[i - 1] + s[i] IN sum
Sum(s) == Sums(s)[Len(s)]

=============================================================================
