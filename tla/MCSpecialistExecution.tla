----------------------- MODULE MCSpecialistExecution -----------------------
(***************************************************************************)
(* A fab of three lanes, two at one place, and four lots: the query for    *)
(* exposure finds all lanes, the one for lane 2 widens what is known of    *)
(* lane 1, and that for lane 1 leads elsewhere; lot c knows one lane only. *)
(***************************************************************************)
EXTENDS SpecialistExecution

CONSTANTS s, a, b, c, g1, g2, g3

FabLots == {s, a, b, c}
LanePlace == <<"P", "P", "Q">>
LaneThrough == <<{s, a, b, c}, {s, b}, {a}>>
LaneExcursion == <<{s, a}, {s, b}, {}>>

JobLanes == <<{"basic", "advanced"}, {"basic"}, {"advanced"}>>
GivenJobs ==
  {[lot |-> lot, failing |-> IF lot THEN {} ELSE failing, advanced |-> lot,
    measures |-> JobLanes] : lot \in BOOLEAN, failing \in {{}, {a}, {c}}}

GapKinds == (g1 :> "fdc") @@ (g2 :> "exposure") @@ (g3 :> "exposure")
GapLanes == (g1 :> 2) @@ (g2 :> 2) @@ (g3 :> 1)
=============================================================================
