------------------------- MODULE MCCausalConclusion -------------------------
(***************************************************************************)
(* A source lot s with flow low in one chamber, plating voids after it, a  *)
(* second lot a that went the same way and a third b that only passed the  *)
(* tool; a deviation of another chamber, late, as the decoy.               *)
(***************************************************************************)
EXTENDS CausalConclusion, TLC

CONSTANTS s, a, b,                                  \* lots
          exposed, excursion, impacted, passed, narrow, \* MES
          low, hot, normal,                         \* FDC
          voids,                                    \* defects
          precedent, note,                              \* knowledge, confirmed or not
          reported, noTrace                         \* what the request states

AllLots == {s, a, b}
AllEvidence == {exposed, excursion, impacted, passed, narrow, low, hot, normal,
                voids, precedent, note, reported, noTrace}

Nowhere == [f \in Fields |-> {}]
At(chamber) == ("operation" :> {"O"}) @@ ("equipment" :> {"E"})
                 @@ ("chamber" :> {chamber}) @@ ("recipe" :> {"R"})
On(chamber) == [At(chamber) EXCEPT !["recipe"] = {}]

Lane == (1 :> [at |-> At("A"), lots |-> {s, a}])
          @@ (2 :> [at |-> At("B"), lots |-> {b}])

Blank == [type |-> "lot_context", source |-> "mes", at |-> Nowhere, lane |-> NoLane,
          lots |-> {}, labels |-> {}, directions |-> {}, stamp |-> NoStamp,
          windows |-> {}, role |-> "plain", field |-> FALSE, required |-> FALSE,
          requiredForScope |-> FALSE]

Given ==
  (exposed :> [Blank EXCEPT !.at = At("A"), !.lots = {s, a}, !.stamp = 2])
  @@ (excursion :> [Blank EXCEPT !.type = "excursion_window", !.at = On("A"),
                                 !.lots = {s, a}, !.stamp = 1, !.windows = {<<1, 3>>}])
  @@ (impacted :> [Blank EXCEPT !.type = "impact_scope", !.lots = {s, a, b}])
  @@ (narrow :> [Blank EXCEPT !.type = "impact_scope", !.lots = {s, b}])
  @@ (passed :> [Blank EXCEPT !.at = At("A"), !.lots = {b}, !.stamp = 3])
  @@ (low :> [Blank EXCEPT !.type = "parameter_deviation", !.source = "fdc",
                           !.at = At("A"), !.lots = {s, a}, !.labels = {"flow"},
                           !.directions = {"low"}, !.stamp = 2])
  @@ (hot :> [Blank EXCEPT !.type = "spc_violation", !.source = "fdc",
                           !.at = At("B"), !.lane = 2, !.lots = {s, b},
                           !.labels = {"temperature"}, !.directions = {"high"},
                           !.stamp = 4, !.windows = {<<3, 4>>}])
  @@ (noTrace :> [Blank EXCEPT !.type = "data_missing", !.source = "system",
                               !.lots = {s}, !.field = TRUE, !.required = TRUE])
  @@ (voids :> [Blank EXCEPT !.type = "defect_signal", !.source = "defect",
                             !.lots = {s, a}, !.labels = {"void"}])
  @@ (reported :> [Blank EXCEPT !.type = "defect_signal", !.source = "user",
                                !.lots = {s}, !.labels = {"starvation"},
                                !.role = "observed", !.field = TRUE])
  @@ (precedent :> [Blank EXCEPT !.type = "historical_case_match", !.source = "knowledge",
                             !.labels = {"flow", "void"}, !.role = "approved"])
  @@ (note :> [Blank EXCEPT !.type = "engineering_note", !.source = "knowledge",
                            !.labels = {"flow", "void"}])
  @@ (normal :> [Blank EXCEPT !.type = "negative_signal", !.source = "fdc", !.lots = {s},
                              !.labels = {"flow"}])

GivenRequests == {{reported}, {reported, noTrace}}
GivenReports ==
  {[agent |-> "mes", items |-> {exposed, excursion, passed, impacted}],
   [agent |-> "mes", items |-> {narrow}],
   [agent |-> "fdc", items |-> {low, hot}],
   [agent |-> "fdc", items |-> {normal}],
   [agent |-> "defect_wat", items |-> {voids}],
   [agent |-> "knowledge", items |-> {precedent, note}]}

NoProfile == [kind |-> "none", relation |-> "unresolved", at |-> Nowhere,
              lanes |-> {}, comparison |-> {}]
Chamber == [NoProfile EXCEPT !.kind = "chamber", !.relation = "shared_effect",
                             !.at = [On("A") EXCEPT !["recipe"] = {}]]
LaneTwo == [NoProfile EXCEPT !.kind = "lane", !.relation = "focal_only",
                             !.lanes = {2}, !.comparison = {1, 2}]

Starved(profile) ==
  [names |-> [Nowhere EXCEPT !["chamber"] = {"A"}], mentions |-> {"A"},
   labels |-> {"flow", "void", "starvation"}, spelled |-> {"flow", "void"},
   terms |-> {"flow", "void", "starvation"}, hints |-> {"parameter", "outcome"},
   tends |-> {"low"}, leads |-> {"low"}, profile |-> profile]
Heated ==
  [names |-> [Nowhere EXCEPT !["chamber"] = {"B"}], mentions |-> {"B"},
   labels |-> {"temperature", "void"}, spelled |-> {"temperature", "void"},
   terms |-> {"temperature", "starvation"}, hints |-> {},
   tends |-> {}, leads |-> {}, profile |-> LaneTwo]

Texts == {Starved(NoProfile), Starved(Chamber), Heated}
Cites == {exposed, excursion, low, hot, voids, reported, precedent, note}

GivenProposals ==
  {[for |-> cited, against |-> {}] @@ c : c \in Texts, cited \in SUBSET Cites \ {{}}}
(* A later MES action looks at a narrower window.                          *)
LateReports == {r \in GivenReports : narrow \in r.items}
=============================================================================
