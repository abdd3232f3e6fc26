------------------------ MODULE MCKnowledgeIngestion ------------------------
(* Model values for TLC's runs of KnowledgeIngestion: three spellings of   *)
(* two engineers' ids.                                                     *)
EXTENDS KnowledgeIngestion, TLC

CONSTANTS ann, Ann, bob

Spelling == ann :> Ann @@ Ann :> Ann @@ bob :> bob
=============================================================================
