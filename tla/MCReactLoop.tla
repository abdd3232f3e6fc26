---------------------------- MODULE MCReactLoop ----------------------------
(***************************************************************************)
(* Instances of ReactLoop: Contest, a root-cause investigation whose       *)
(* competition two discriminators may decide; Scopes, other intents with   *)
(* questions about an operation, new questions and an unsupported one.     *)
(***************************************************************************)
EXTENDS ReactLoop, TLC

CONSTANTS mechanism, product, traced, g1, g2, op

-----------------------------------------------------------------------------
(* Two discriminators of one priority, so that the model has to choose.    *)
Discriminator(observation, scope) ==
  [discriminator |-> TRUE, priority |-> 1, kind |-> "process_mechanism",
   allowed |-> {observation, "reasoning"}, preferred |-> observation,
   refresh |-> "reasoning", scope |-> scope]

Claim(kind, observation, scope) ==
  [discriminator |-> FALSE, priority |-> 2, kind |-> kind, allowed |-> {observation},
   preferred |-> observation, refresh |-> "none", scope |-> scope]

NoLimit == {Unlimited}
LowLimit == {Unlimited, 7}

RootCause == [intent |-> "root_cause", lot |-> TRUE, context |-> FALSE,
              matching |-> TRUE, maxSteps |-> 8, maxTools |-> 8]

(* A candidate whose challenge picked both gaps, and what may become of it.*)
Challenged == [status |-> "candidate", contest |-> "open", gaps |-> {g1, g2},
               selected |-> {g1, g2} \cap Discriminators, idle |-> {}, offaxis |-> {}]
Confirmed == [Challenged EXCEPT !.status = "supported", !.gaps = {}, !.selected = {}]
Rejected == [Challenged EXCEPT !.status = "inconclusive", !.contest = "rejected",
                               !.gaps = {g2}, !.selected = {}]
Starved == [Challenged EXCEPT !.status = "insufficient", !.contest = "not_evaluated",
                              !.selected = {}]
Disputed == [Challenged EXCEPT !.status = "conflicted", !.contest = "not_evaluated",
                               !.selected = {}]
Failed == [Challenged EXCEPT !.contest = "failed", !.selected = {}]

-----------------------------------------------------------------------------
ContestQuestions == {mechanism, product}
ContestKind == (mechanism :> "process_mechanism" @@ product :> "product_outcome")
Anywheres == [q \in Questions |-> Anywhere]
ContestGap == (g1 :> Discriminator("fdc", Anywhere) @@ g2 :> Discriminator("defect", Anywhere))
ContestGoals == {RootCause}
ContestAsked == {{mechanism}}
ContestFindings == {Challenged, Confirmed, Rejected, Starved}

-----------------------------------------------------------------------------
ScopesQuestions == {mechanism, traced}
ScopesKind == (mechanism :> "process_mechanism" @@ traced :> "metrology_correlation")
ScopesScope == (mechanism :> op @@ traced :> Anywhere)
ScopesGap == (g1 :> Discriminator("fdc", op) @@ g2 :> Claim("process_mechanism", "defect", op))
ScopesGoals == {[RootCause EXCEPT !.intent = i] : i \in {"root_cause", "impact_scope"}}
ScopesAsked == {{mechanism}, {traced}}
ScopesFindings == {Challenged, Confirmed, Disputed, Failed}
=============================================================================
