------------------------ MODULE CausalEvidenceMatrix ------------------------
(***************************************************************************)
(* The claims Python derives for one candidate cause from the evidence it  *)
(* cites: causal_evidence_matrix.py.  A claim is a status with the evidence*)
(* it rests on; nothing the language model explains counts as proof.       *)
(*                                                                         *)
(* Text is abstracted to what is matched in it: a candidate has the labels *)
(* of parameters, defects and known mechanisms its text matches, and per   *)
(* field of a place the identities it names.                               *)
(***************************************************************************)
EXTENDS FiniteSets, Integers

CONSTANTS
  Evidence,     \* identifiers of the evidence specialists can find
  Fact,         \* the evidence itself, by identifier: see Facts
  Lanes,        \* the causal lanes that are active
  LaneFact,     \* the place of a lane and the lots exposed to it
  Lots, Ids, Labels,
  NoLane,
  Stamps        \* time; NoStamp is before it

NoStamp == -1
Fields == {"operation", "equipment", "chamber", "recipe"}
Directions == {"high", "low"}

ExposureTypes == {"lot_context", "process_exposure", "equipment_exposure",
                  "impact_scope", "excursion_window"}
ProcessTypes == {"recipe_change", "hold_event", "parameter_deviation",
                 "trend_deviation", "ooc_event", "spc_violation"}
OutcomeTypes == {"defect_signal", "metrology_deviation", "electrical_failure"}
KnowledgeTypes == {"historical_case_match", "engineering_note"}
NonSupporting == {"data_missing", "negative_signal", "sop_guidance"}

(* What a typed item says of the mechanism.  rule: a registered mechanism  *)
(* rule; approved: an engineer confirmed the knowledge; confirmed, observed*)
(* a physical intermediate, with or without causal confirmation; trial: a  *)
(* validated intervention, recovery or comparison; control: a recovery or  *)
(* passing control.                                                        *)
Roles == {"plain", "rule", "approved", "confirmed", "observed", "trial", "control"}

Facts ==
  [type : ExposureTypes \cup ProcessTypes \cup OutcomeTypes
            \cup KnowledgeTypes \cup NonSupporting,
   source : {"mes", "fdc", "defect", "wat", "analytics", "knowledge", "user", "system"},
   at : [Fields -> SUBSET Ids],
   lane : Lanes \cup {NoLane},
   lots : SUBSET Lots,
   labels : SUBSET Labels,
   directions : SUBSET Directions,
   stamp : Stamps \cup {NoStamp},
   windows : SUBSET (Stamps \X Stamps),
   role : Roles,
   field : BOOLEAN,             \* names the field of a table it comes from
   required : BOOLEAN,          \* missing, and confirmation needs it
   requiredForScope : BOOLEAN]  \* missing, and the impact scope needs it

(* A candidate: the evidence it cites, what its text names and matches, and*)
(* the scope it declares.  spelled is what the text names literally, terms *)
(* the processes its explanation names, tends the directions it gives, and *)
(* leads the first that root cause or explanation give (none or one).      *)
ScopeKinds == {"none", "invalid", "unresolved", "lane",
               "recipe", "chamber", "equipment", "operation"}
Relations == {"shared_effect", "focal_only", "differential_sensitivity", "unresolved"}

Profiles ==
  {p \in [kind : ScopeKinds, relation : Relations, at : [Fields -> SUBSET Ids],
          lanes : SUBSET Lanes, comparison : SUBSET Lanes] :
     p.kind = "unresolved" => p.relation = "unresolved"}

Candidates ==
  [for : SUBSET Evidence, against : SUBSET Evidence,
   names : [Fields -> SUBSET Ids], mentions : SUBSET Ids,
   labels : SUBSET Labels, spelled : SUBSET Labels, terms : SUBSET Labels,
   hints : SUBSET {"parameter", "outcome"},
   tends : SUBSET Directions, leads : {{}} \cup {{d} : d \in Directions},
   profile : Profiles]

ASSUME FactsAreFacts == Fact \in [Evidence -> Facts]
ASSUME LanesArePlaces ==
  LaneFact \in [Lanes -> [at : [Fields -> SUBSET Ids], lots : SUBSET Lots]]

Of(types, items) == {e \in items : Fact[e].type \in types}
LotsOf(items) == UNION {Fact[e].lots : e \in items}
LabelsOf(items) == UNION {Fact[e].labels : e \in items}
IdsAt(f, items) == UNION {Fact[e].at[f] : e \in items}

Claim(status, items) == [status |-> status, ids |-> items]

-----------------------------------------------------------------------------
(* _matching_entity_claim, for one field of a place.                       *)
EntityClaim(f, c, items) ==
  LET typed == {e \in items : Fact[e].at[f] # {}}
      status == IF typed = {} THEN "unavailable"
                ELSE IF c.names[f] \cap IdsAt(f, typed) # {} THEN "supported"
                ELSE IF c.names[f] # {} THEN "conflicted"
                ELSE "incomplete"
  IN  Claim(status, typed)

Matching(c, items) == {e \in items : Fact[e].labels \cap c.labels # {}}

(* _parameter_claim.                                                       *)
ParameterClaim(c, items) ==
  LET process == Of(ProcessTypes, items)
      typed == {e \in process : Fact[e].labels # {}}
      aligned == Matching(c, typed)
      observed == UNION {Fact[e].directions : e \in aligned}
      opposed == /\ c.tends # {} /\ observed # {}
                 /\ c.tends \cap observed = {}
  IN  IF typed = {} THEN Claim("unavailable", process)
      ELSE IF opposed THEN Claim("conflicted", aligned)
      ELSE IF aligned # {} THEN Claim("supported", aligned)
      ELSE Claim(IF "parameter" \in c.hints THEN "conflicted" ELSE "incomplete", typed)

(* _outcome_claim.                                                         *)
OutcomeClaim(c, items) ==
  LET outcomes == Of(OutcomeTypes, items)
      aligned == Matching(c, outcomes)
      other == "outcome" \in c.hints /\ LabelsOf(outcomes) # {}
  IN  IF outcomes = {} THEN Claim("unavailable", {})
      ELSE IF aligned # {} THEN Claim("supported", aligned)
      ELSE Claim(IF other THEN "conflicted" ELSE "incomplete", outcomes)

(* _mechanism_claim.  The explanation must name a process of its own,      *)
(* between the parameter and the outcome; then the evidence is tried from  *)
(* the strongest kind down.  What only happened together makes a mechanism *)
(* plausible, never supported.                                             *)
MechanismClaim(c, items, parameter, outcome) ==
  LET ends == parameter.ids \cup outcome.ids
      inRole(r) == {e \in items : Fact[e].role = r}
      relevant(r) == Matching(c, inRole(r))
      knowledge == Of(KnowledgeTypes, inRole("approved"))
      known == Matching(c, knowledge)
      process == Of(ProcessTypes, items)
      bridged == c.terms \ LabelsOf(ends) # {}
      shared == LotsOf(parameter.ids) \cap LotsOf(outcome.ids) # {}
      together == /\ shared /\ process # {}
                  /\ parameter.status = "supported" /\ outcome.status = "supported"
      some == process \cup knowledge \cup inRole("rule")
  IN  IF ~bridged THEN Claim("incomplete", ends \cup known \cup relevant("rule"))
      ELSE IF relevant("rule") # {} THEN Claim("supported", relevant("rule"))
      ELSE IF known # {} THEN Claim("supported", known)
      ELSE IF shared /\ relevant("confirmed") # {} THEN Claim("supported", relevant("confirmed"))
      ELSE IF shared /\ relevant("trial") # {} THEN Claim("supported", relevant("trial"))
      ELSE IF shared /\ relevant("observed") # {} THEN Claim("plausible", relevant("observed"))
      ELSE IF together THEN Claim("plausible", ends)
      ELSE IF some # {} \/ outcome.status # "unavailable" THEN Claim("incomplete", some)
      ELSE Claim("unavailable", {})

-----------------------------------------------------------------------------
(* _evidence_covers_scope_lane: by the lane it names, else by two fields of*)
(* the place with none against it, or by a lot of the lane.                *)
Covers(e, l) ==
  LET both == {f \in Fields : LaneFact[l].at[f] # {} /\ Fact[e].at[f] # {}}
      agrees(f) == LaneFact[l].at[f] \subseteq Fact[e].at[f]
  IN  IF Fact[e].lane # NoLane THEN Fact[e].lane = l
      ELSE /\ \A f \in both : agrees(f)
           /\ Cardinality(both) >= 2 \/ LaneFact[l].lots \cap Fact[e].lots # {}

(* The lanes inside the place a profile claims, and those of them no cited *)
(* evidence of some types covers.                                          *)
ScopeLanes(profile) ==
  {l \in Lanes : \A f \in Fields :
     profile.at[f] # {} => LaneFact[l].at[f] = profile.at[f]}
Uncovered(profile, types, items) ==
  {l \in ScopeLanes(profile) : \A e \in Of(types, items) : ~Covers(e, l)}

(* The branch of _scope_claim for a recipe, a chamber, an equipment or an  *)
(* operation.                                                              *)
BroadScope(profile, items) ==
  LET claimed == {f \in Fields : profile.at[f] # {}}
      against(f) == IdsAt(f, items) # {} /\ ~(profile.at[f] \subseteq IdsAt(f, items))
      missing(f) == ~(profile.at[f] \subseteq IdsAt(f, items))
      inside(e) == \A f \in claimed : Fact[e].at[f] = {} \/ profile.at[f] \subseteq Fact[e].at[f]
      operational == {e \in Of(ExposureTypes \cup ProcessTypes, items) : inside(e)}
      outcomeLots == LotsOf(Of(OutcomeTypes, items))
      uncovered == \/ ScopeLanes(profile) = {}
                   \/ Uncovered(profile, ProcessTypes, items) # {}
                   \/ Uncovered(profile, OutcomeTypes, items) # {}
  IN  IF \E f \in claimed : against(f) THEN "conflicted"
      ELSE IF \E f \in claimed : missing(f) THEN "incomplete"
      ELSE IF profile.relation = "shared_effect" /\ Lanes # {} /\ uncovered THEN "incomplete"
      ELSE IF outcomeLots # {} /\ LotsOf(operational) \cap outcomeLots = {} THEN "conflicted"
      ELSE "supported"

(* The branch of _scope_claim for single lanes.                            *)
LaneScope(profile, lanes) ==
  IF lanes \ profile.comparison # {} THEN "conflicted"
  ELSE IF profile.lanes \ lanes # {} THEN "incomplete"
  ELSE "supported"

(* The branch of _scope_claim without a profile: one lane, and a lot that  *)
(* every item with lots has.                                               *)
EvidenceScope(items, lanes) ==
  LET populated == {e \in items : Fact[e].lots # {}}
  IN  IF Cardinality(lanes) > 1 THEN "conflicted"
      ELSE IF populated = {} THEN "incomplete"
      ELSE IF \A l \in Lots : \E e \in populated : l \notin Fact[e].lots THEN "conflicted"
      ELSE "supported"

BroadKinds == {"recipe", "chamber", "equipment", "operation"}

(* _scope_claim.  "none": no profile was expected; "invalid": one was and  *)
(* none survived validation.                                               *)
ScopeClaim(c, items) ==
  LET profile == c.profile
      lanes == {Fact[e].lane : e \in items} \ {NoLane}
      status == IF profile.kind = "none" THEN EvidenceScope(items, lanes)
                ELSE IF profile.kind = "invalid" \/ profile.relation = "unresolved"
                THEN "incomplete"
                ELSE IF profile.kind \in BroadKinds THEN BroadScope(profile, items)
                ELSE LaneScope(profile, lanes)
  IN  Claim(status, items)

-----------------------------------------------------------------------------
Inside(t, windows) == \E w \in windows : w[1] <= t /\ t <= w[2]

(* _temporal_claim: process evidence against its own windows, or else      *)
(* against those of the cited excursions.                                  *)
TemporalClaim(items) ==
  LET excursions == UNION {Fact[e].windows : e \in Of({"excursion_window"}, items)}
      windows(e) == IF Fact[e].windows # {} THEN Fact[e].windows ELSE excursions
      dated == {e \in Of(ProcessTypes, items) : Fact[e].stamp # NoStamp /\ windows(e) # {}}
      aligned == {e \in dated : Inside(Fact[e].stamp, windows(e))}
      status == IF \A e \in items : Fact[e].stamp = NoStamp THEN "unavailable"
                ELSE IF aligned # dated THEN "conflicted"
                ELSE IF aligned = {} THEN "incomplete"
                ELSE "supported"
  IN  Claim(status, items)

(* The contradiction claim of build_causal_evidence_matrix: cited against, *)
(* or cited and unknown.                                                   *)
ContradictionClaim(c, known) ==
  Claim(IF c.against # {} \/ c.for \ known # {} THEN "conflicted" ELSE "supported",
        c.against \cap known)

(* build_causal_evidence_matrix.  What is missing, negative or guidance    *)
(* never supports a claim, even when cited for the candidate.              *)
Matrix(c, known) ==
  LET items == {e \in c.for \cap known : Fact[e].type \notin NonSupporting}
      controls == Of({"negative_signal"}, known)
      parameter == ParameterClaim(c, items)
      outcome == OutcomeClaim(c, items)
  IN  [equipment |-> EntityClaim("equipment", c, items),
       chamber |-> EntityClaim("chamber", c, items),
       operation |-> EntityClaim("operation", c, items),
       parameter |-> parameter,
       outcome |-> outcome,
       scope |-> ScopeClaim(c, items),
       temporal |-> TemporalClaim(items),
       contradiction |-> ContradictionClaim(c, known),
       control |-> Claim(IF controls = {} THEN "unavailable" ELSE "supported", controls),
       mechanism |-> MechanismClaim(c, items, parameter, outcome)]
=============================================================================
