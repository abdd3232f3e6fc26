-------------------------- MODULE MCMemoryApproval --------------------------
(* Three engineers, one of whom is spelled in two ways.  The members of    *)
(* Names are not interchangeable, so only Handlers are symmetric.          *)
EXTENDS MemoryApproval, TLC

MCNames == {"PE1", "pe1", "YE2", "QE3"}

MCEngineer == [n \in MCNames |-> IF n = "pe1" THEN "PE1" ELSE n]

Symmetry == Permutations(Handlers)
=============================================================================
