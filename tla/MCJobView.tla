------------------------------ MODULE MCJobView -----------------------------
(* Model values for TLC's runs of JobView.                                 *)
EXTENDS JobView, TLC
=============================================================================
