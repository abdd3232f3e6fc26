--------------------------- MODULE Investigation ---------------------------
(***************************************************************************)
(* The state of one RCA investigation (RCAState) and what the static       *)
(* registries say about it: which specialist runs an action and what it    *)
(* needs, which actions may answer a kind of question and which evidence   *)
(* groups they fill, what an RCA finding leaves open.  The policies and    *)
(* the loop of supervisor.py are modules over this one.                    *)
(*                                                                         *)
(* One causal lane is assumed: lane ids are left out of every scope.  An   *)
(* action's scope is the operation it names, or Anywhere.                  *)
(***************************************************************************)
EXTENDS Integers, Sequences, FiniteSets

CONSTANTS Questions,      \* questions an investigation may come to ask
          QuestionKind,   \* their kinds
          QuestionScope,  \* and the operation each is about
          Unsupported,    \* those whose kind has no configured capability
          Gaps,           \* causal evidence gaps RCA reasoning may report
          Gap,            \* what is fixed about each, see GapInfo
          Operations

VARIABLES goal,      \* investigation_goal and the facts the data holds
          questions, \* status of each question
          history,   \* action_history with the links and gains of each record
          rcas,      \* findings of RCA reasoning, oldest first
          spent      \* tool calls made

investigation == <<goal, questions, history, rcas, spent>>

-----------------------------------------------------------------------------
Kinds == {"defect", "shared", "exposure", "fdc", "historical", "reasoning"}

(* agent of an ActionDefinition.                                           *)
Agent == [defect |-> "DEFECT_WAT", shared |-> "DEFECT_WAT", exposure |-> "MES",
          fdc |-> "FDC", historical |-> "KNOWLEDGE", reasoning |-> "RCA_REASONING"]

Specialists == {"MES", "FDC", "DEFECT_WAT"}

(* required_finding_agents.                                                *)
Required == [defect |-> {}, shared |-> {"MES", "DEFECT_WAT"}, exposure |-> {},
             fdc |-> {"MES"}, historical |-> Specialists, reasoning |-> Specialists]

(* _ACTION_TOOL_COSTS.                                                     *)
ToolCost == [defect |-> 1, shared |-> 1, exposure |-> 3, fdc |-> 4,
             historical |-> 1, reasoning |-> 0]

(* QUESTION_CAPABILITY_REGISTRY: the groups that close a question, and per *)
(* action that may work on it the groups its evidence fills.               *)
Mechanism == {"process_anomaly", "product_signal", "shared_exposure",
              "shared_product_signal"}

Observing == [defect     |-> {"product_signal"},
              exposure   |-> {"shared_exposure"},
              shared     |-> {"shared_product_signal"},
              fdc        |-> {"process_anomaly"},
              historical |-> {"historical_context"}]

Signal == {"product_signal"}

Capability ==
  [defect_signature |->
     [closure |-> Signal,
      fills   |-> [defect |-> Signal, shared |-> Signal, exposure |-> {"context"}]],
   impact_scope |->
     [closure |-> {"shared_exposure", "impact_scope"},
      fills   |-> [exposure |-> {"shared_exposure", "impact_scope"},
                   shared   |-> {"shared_exposure"}]],
   spc_signal |->
     [closure |-> {"shared_exposure", "process_anomaly"},
      fills   |-> [fdc |-> {"process_anomaly"}, exposure |-> {"shared_exposure"}]],
   process_mechanism |->
     [closure |-> Mechanism,
      fills   |-> [k \in Kinds |-> IF k = "reasoning" THEN {"hypothesis_synthesis"}
                                   ELSE Observing[k]]],
   product_outcome |->
     [closure |-> Signal,
      fills   |-> [defect |-> Signal, shared |-> Signal, exposure |-> {}]],
   historical_match |->
     [closure |-> Mechanism \cup {"historical_context"}, fills |-> Observing],
   tool_history |->
     [closure |-> {"lot_context", "process_exposure"},
      fills   |-> [exposure |-> {"lot_context", "process_exposure"}, fdc |-> {}]],
   recipe_history |->
     [closure |-> {"recipe_context"}, fills |-> [exposure |-> {"recipe_context"}]],
   metrology_correlation |->
     [closure |-> {"metrology_signal"},
      fills   |-> [defect |-> {"metrology_signal"}, shared |-> {"metrology_signal"}]]]

Closure(q) == Capability[QuestionKind[q]].closure
AllowedActions(q) == DOMAIN Capability[QuestionKind[q]].fills
Contribution(q, k) == Capability[QuestionKind[q]].fills[k]

Anywhere == "anywhere"
Scopes == Operations \cup {Anywhere}
NoGap == "no gap"

(* action_scope_matches_question: an operation is compared when both name  *)
(* one.                                                                    *)
ScopeFits(scope, q) ==
  \/ scope = Anywhere
  \/ QuestionScope[q] = Anywhere
  \/ scope = QuestionScope[q]

(* A gap as _authoritative_causal_gaps projects it.  The preferred and the *)
(* refresh action may be missing.                                          *)
GapInfo == [discriminator : BOOLEAN, priority : Nat,
            kind : DOMAIN Capability, allowed : SUBSET Kinds,
            preferred : Kinds \cup {"none"}, refresh : Kinds \cup {"none"},
            scope : Scopes]

Discriminators == {g \in Gaps : Gap[g].discriminator}

(* allowed_actions is cut down to what the registry lets the gap's kind of *)
(* question do; a claim's groups are filled by observations only.          *)
ASSUME InvestigationAssumption ==
  /\ QuestionKind \in [Questions -> DOMAIN Capability]
  /\ QuestionScope \in [Questions -> Scopes]
  /\ Unsupported \subseteq Questions
  /\ Gap \in [Gaps -> GapInfo]
  /\ \A g \in Gaps : /\ Gap[g].allowed \subseteq DOMAIN Capability[Gap[g].kind].fills
                     /\ Gap[g].allowed # {}
                     /\ ~Gap[g].discriminator => "reasoning" \notin Gap[g].allowed
  /\ NoGap \notin Gaps
  /\ Anywhere \notin Operations

-----------------------------------------------------------------------------
(* Types of the state.                                                     *)

Intents == {"root_cause", "impact_scope", "spc_check", "historical_lookup"}

(* root_cause stands for full_rca too.  lot: known_facts has a lot_id;     *)
(* context: it has equipment, chamber and operation; matching: the defect  *)
(* patterns of the shared-exposure Lots meet those of the source Lot.      *)
Goal == [intent : Intents, lot : BOOLEAN, context : BOOLEAN, matching : BOOLEAN,
         maxSteps : 1..8, maxTools : Nat]

(* missing is data_missing evidence that is required for confirmation.     *)
Results == {"supports", "unavailable", "missing", "nothing"}

Record == [kind : Kinds, gap : Gaps \cup {NoGap}, scope : Scopes,
           result : Results, links : SUBSET Questions]

Terminal == {"closed", "unavailable"}
QuestionStatus == {"absent", "open"} \cup Terminal

(* status is the hypothesis's and the conclusion's; "insufficient" is an   *)
(* inconclusive one for want of evidence.  contest is the trace of the     *)
(* candidate competition.  selected: discriminators the challenge picked;  *)
(* idle: those with evidence at hand already; offaxis: those that cannot   *)
(* tell mechanisms apart while a mechanism is asked for.                   *)
Finding == [status : {"supported", "candidate", "inconclusive", "insufficient",
                      "conflicted"},
            contest : {"not_evaluated", "not_required", "open", "rejected",
                       "failed"},
            gaps : SUBSET Gaps, selected : SUBSET Discriminators,
            idle : SUBSET Discriminators, offaxis : SUBSET Discriminators]

InvestigationTypeOK ==
  /\ goal \in Goal
  /\ questions \in [Questions -> QuestionStatus]
  /\ history \in Seq(Record)
  /\ rcas \in Seq(Finding)
  /\ spent \in Nat

-----------------------------------------------------------------------------
(* What the state says.                                                    *)

Steps == Len(history)
FindingAgents == {Agent[history[i].kind] : i \in DOMAIN history}
CompletedKinds == {history[i].kind : i \in DOMAIN history}
Open == {q \in Questions : questions[q] = "open"}

HasRca == rcas # <<>>
Authoritative == rcas[Len(rcas)]

CausalGaps == IF HasRca THEN Authoritative.gaps ELSE {}

Conflicted == HasRca /\ Authoritative.status = "conflicted"

(* QuestionEvidenceResolver.resolve: the questions asked so far that the   *)
(* action may answer.                                                      *)
LinkedQuestions(k, scope) ==
  {q \in Questions : /\ questions[q] # "absent" /\ q \notin Unsupported
                     /\ k \in AllowedActions(q)
                     /\ ScopeFits(scope, q)}

(* classify_investigation_gain: supporting links make an evidence gain, a  *)
(* missing source a state gain.                                            *)
EvidenceGain(r) ==
  /\ r.result = "supports"
  /\ \E q \in r.links : Contribution(q, r.kind) # {}

SourceUnavailable(r) == r.result \in {"unavailable", "missing"}

UnavailableFor(gaps) ==
  \E i \in DOMAIN history : history[i].gap \in gaps /\ SourceUnavailable(history[i])

SatisfiedGroups(q) ==
  UNION {Contribution(q, history[i].kind) :
           i \in {j \in DOMAIN history : /\ history[j].result = "supports"
                                         /\ q \in history[j].links}}

MissingGroups(q) == Closure(q) \ SatisfiedGroups(q)

UnavailableLink(q) ==
  \E i \in DOMAIN history : SourceUnavailable(history[i]) /\ q \in history[i].links

(* The registry's rule for an action that is not bound to a gap: it fills  *)
(* a missing group, or nothing is missing and it reasons.                  *)
CanContribute(q, k) ==
  IF MissingGroups(q) # {} THEN MissingGroups(q) \cap Contribution(q, k) # {}
  ELSE "hypothesis_synthesis" \in Contribution(q, k)

Rounds == Cardinality({i \in DOMAIN history : history[i].kind = "reasoning"})
=============================================================================
