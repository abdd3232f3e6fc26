------------------------------ MODULE FabTools ------------------------------
(***************************************************************************)
(* The tools that specialists call (tool_layer.py) over a fixed history of *)
(* the fab: which lots an exposure query finds and on which lanes, and what*)
(* a tool observes about a lane or a set of lots.  A lane is a concrete    *)
(* process scope: an operation at a place, its equipment, chamber and      *)
(* recipe.                                                                 *)
(*                                                                         *)
(* Statistics and wording are left out: what a tool reports is a function  *)
(* of the scope it was called with, so an observation keeps that scope.    *)
(* Of the evidence of MES tools only that of fixed id is kept; the id of   *)
(* the other names the query, so that two with one id are equal.           *)
(***************************************************************************)
EXTENDS Naturals

CONSTANTS Lots,       \* lots of the fab
          Source,     \* the lot a lot-driven job is about
          Lanes,      \* process scopes
          Place,      \* lane |-> equipment, chamber and recipe
          Through,    \* lane |-> lots that ran through it
          Excursion,  \* lane |-> lots exposed to its abnormal window
          Home,       \* the lane a query that names none resolves to
          NoLane

ASSUME ToolsAssumption ==
  /\ Source \in Lots
  /\ Home \in Lanes
  /\ NoLane \notin Lanes
  /\ Through \in [Lanes -> SUBSET Lots] /\ Source \in Through[Home]
  /\ Excursion \in [Lanes -> SUBSET Lots]

-----------------------------------------------------------------------------
(* _shared_exposure_lanes: every assignment of the lots that is on record. *)
LanesOf(lots) ==
  [l \in {m \in Lanes : Through[m] \cap lots # {}} |-> Through[l] \cap lots]

Target(lane) == IF lane = NoLane THEN Home ELSE lane

(* find_impact_lots.                                                       *)
Exposed(lane) == Excursion[Target(lane)] \cup {Source}

(* What EvidenceBuilder.from_tool demands of a query that is bound to a    *)
(* place: no lane it reports is anywhere else.                             *)
AllAt(lane, lanes) == lane # NoLane => \A l \in DOMAIN lanes : Place[l] = Place[lane]

(* find_impact_lots raises if the source lot did not run at the lane, and  *)
(* so does the evidence of a lane elsewhere.                               *)
ImpactRuns(lane) ==
  /\ Source \in Through[Target(lane)]
  /\ AllAt(lane, LanesOf(Exposed(lane)))

(* analyze_lot_genealogy, for the failing lots of a product window.        *)
GenealogyRuns(lane, failing) == AllAt(lane, LanesOf(failing))

-----------------------------------------------------------------------------
FdcTools == {"shift", "ooc", "basic", "advanced"}
OtherTools == {"impact", "genealogy", "quality", "shared", "cases"}

(* name and lane make the id (scoped_evidence_id); at and lots, the scope  *)
(* of the call, and by, the tool, make the payload.                        *)
Names == {"shift", "ooc", "spc", "no baseline", "no profile", "quality", "shared",
          "cases", "impact", "commonality"}

Observation == [name : Names, lane : Lanes \cup {NoLane}, at : Lanes \cup {NoLane},
                lots : SUBSET Lots, by : FdcTools \cup OtherTools]

SameId(o, p) == o.name = p.name /\ o.lane = p.lane

Observe(name, lane, at, lots, by) ==
  [name |-> name, lane |-> lane, at |-> at, lots |-> lots, by |-> by]

ShiftReport(lane, at, lots) == Observe("shift", lane, at, lots, "shift")

(* OOC events are those of the place, whatever lots are asked for.         *)
OocReport(lane, at) == Observe("ooc", lane, at, {}, "ooc")

(* Basic and advanced SPC report a parameter under one name, and that none *)
(* can be analysed under names of their own; measures holds the tools that *)
(* can analyse one at the place.                                           *)
BasicReport(lane, at, lots, measures) ==
  Observe(IF "basic" \in measures THEN "spc" ELSE "no baseline", lane, at, lots, "basic")

AdvancedReport(lane, at, lots, measures) ==
  Observe(IF "advanced" \in measures THEN "spc" ELSE "no profile",
          lane, at, lots, "advanced")

(* The excursion window, its lots and controls; the resource most lots     *)
(* share.                                                                  *)
ImpactReport(lane, at) == Observe("impact", lane, Target(at), Exposed(at), "impact")

GenealogyReport(lane, at, lots) ==
  Observe("commonality", lane, Target(at), lots, "genealogy")

(* Defects, metrology and WAT of the lots; a shared-exposure comparison    *)
(* has ids of its own.                                                     *)
QualityReport(name, lane, lots) == Observe(name, lane, NoLane, lots, name)

(* Historical cases for a query composed of the place and the findings.    *)
CasesReport(lane, at, lots) == Observe("cases", lane, at, lots, "cases")
=============================================================================
