---------------------------- MODULE MCSubmission ----------------------------
(* Model values and symmetry for TLC's runs of Submission.                 *)
EXTENDS Submission, TLC

Symmetry == Permutations(Calls) \cup Permutations(Ids)
            \cup Permutations(Keys) \cup Permutations(Bodies)
=============================================================================
