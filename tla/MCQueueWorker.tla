---------------------------- MODULE MCQueueWorker ---------------------------
(* Model values for TLC's runs of QueueWorker.  No symmetry: the runs check *)
(* temporal properties.                                                     *)
EXTENDS QueueWorker, TLC
=============================================================================
