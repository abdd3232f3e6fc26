--------------------------- MODULE LaneChallenge ---------------------------
(***************************************************************************)
(* What adversarial challenges make of the causal lanes:                   *)
(* causal_adversarial.py.  A challenge attacks a candidate, may name a lane*)
(* as the strongest alternative, and reports a status.  The evidence and   *)
(* the gaps it must cite are left out: they only narrow the challenges the *)
(* validation lets through.                                                *)
(***************************************************************************)
EXTENDS CausalLanes

NoLane == -1

(* "open" and "unresolved" are one status to every reader.                 *)
ChallengeStatuses ==
  {"unresolved", "alternative_identified", "non_discriminative", "resolved", "blocked"}

Challenge == [lane : Lanes \cup {NoLane}, status : ChallengeStatuses, precursor : BOOLEAN]

Resolutions == {"blocked", "eliminated", "retained", "non_discriminative", "unresolved"}

(* _normalize_challenge_payload and the required kind: a resolved challenge*)
(* explains every precursor, and a probe of the only candidate's mechanism *)
(* names a lane.                                                           *)
ValidChallenges(active, candidates, requirement) ==
  {c \in Challenge :
     /\ c.lane \in active \cup {NoLane}
     /\ c.status = "resolved" => ~c.precursor
     /\ candidates = 1 /\ requirement = "mechanism_required" => c.lane # NoLane}

-----------------------------------------------------------------------------
StatusesOn(cs, l) == {c.status : c \in {d \in cs : d.lane = l}}

Named(cs) == {c.lane : c \in cs} \ {NoLane}

(* Lanes that every challenge which names them resolved.                   *)
ResolvedAway(cs) == {l \in Named(cs) : StatusesOn(cs, l) = {"resolved"}}

(* One lane's result in derive_alternative_lane_resolutions.               *)
LaneResult(cs, eliminated, l) ==
  LET statuses == StatusesOn(cs, l)
  IN  IF "blocked" \in statuses THEN "blocked"
      ELSE IF l \in eliminated THEN "eliminated"
      ELSE IF "alternative_identified" \in statuses THEN "retained"
      ELSE IF "non_discriminative" \in statuses THEN "non_discriminative"
      ELSE IF statuses = {"resolved"} THEN "eliminated"
      ELSE "unresolved"

(* derive_alternative_lane_resolutions: every searched lane has a result,  *)
(* and a sole survivor nobody could decide on is retained.                 *)
LaneResolutions(cs, active, eliminated) ==
  LET result == [l \in active \cup eliminated \cup Named(cs) |->
                   LaneResult(cs, eliminated, l)]
      live == {l \in DOMAIN result : result[l] \notin {"eliminated", "blocked"}}
      soleSurvivor(l) ==
        /\ live = {l} /\ result[l] = "unresolved"
        /\ \E k \in DOMAIN result : result[k] = "eliminated"
  IN  [l \in DOMAIN result |-> IF soleSurvivor(l) THEN "retained" ELSE result[l]]

-----------------------------------------------------------------------------
(* What is read of the challenges after the lanes have their results.      *)
(* stuck: one is blocked, or finds a precursor unexplained.                *)
Verdict(cs, active, eliminated) ==
  [asked |-> cs # {},
   stuck |-> \E c \in cs : c.status = "blocked" \/ c.precursor,
   named |-> Named(cs),
   resolvedAway |-> ResolvedAway(cs),
   resolutions |-> LaneResolutions(cs, active, eliminated)]

SearchStatuses == {"not_searched", "unresolved", "alternative_found",
                   "alternatives_eliminated"}

(* derive_alternative_search_status.  Its last question, whether the other *)
(* candidates conflict with the evidence, is asked only when no lane has a *)
(* result; then no lane is active, and the answer does not matter.         *)
SearchStatus(verdict, resolutions) ==
  LET results == {resolutions[l] : l \in DOMAIN resolutions}
      retained == {l \in DOMAIN resolutions : resolutions[l] = "retained"}
      open == results \cap {"unresolved", "non_discriminative"} # {}
  IN  IF ~verdict.asked
      THEN IF open \/ retained # {} THEN "unresolved" ELSE "not_searched"
      ELSE IF verdict.stuck \/ "blocked" \in results THEN "unresolved"
      ELSE IF open
      THEN IF verdict.named # {} THEN "alternative_found" ELSE "unresolved"
      ELSE IF Cardinality(retained) > 1 THEN "alternative_found"
      ELSE IF Cardinality(retained) = 1 THEN "alternatives_eliminated"
      ELSE IF results = {"eliminated"} THEN "unresolved"
      ELSE "alternatives_eliminated"
=============================================================================
