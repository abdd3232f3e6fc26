------------------------------- MODULE JobView ------------------------------
(***************************************************************************)
(* The browser page of frontend/src/App.tsx following the Job it           *)
(* submitted.  The page has two sources: the EventSource of                *)
(* EventStream.tla, and refreshRCAJob, which reads the persisted Job and   *)
(* is called by a three-second timer and after every received event.       *)
(* Several refreshes can be in flight, and their answers arrive in any     *)
(* order.  The React effect that owns stream and timer is torn down when   *)
(* the shown status becomes terminal and set up again if it becomes active.*)
(* The page can be reloaded; it finds its Job again by the URL.            *)
(***************************************************************************)
EXTENDS EventStream, Functions

CONSTANT MaxInFlight    \* bound on refreshes under way

ASSUME ViewAssumption == MaxInFlight \in Nat \ {0}

VARIABLES view,       \* job.status on the page; "none" before a Job exists,
                      \* "loading" after a reload, "lost" if that failed
          requests,   \* refreshes sent and not yet read by the server
          answers     \* status |-> number of answers on their way back

pageVars == <<view, requests, answers>>
allVars  == <<vars, streamVars, pageVars>>

ActiveView == Waiting \cup Leased    \* ACTIVE_JOB_STATUSES

InFlight == requests + FoldFunction(+, 0, answers)

Ask == InFlight < MaxInFlight /\ requests' = requests + 1

-----------------------------------------------------------------------------
PageInit ==
  /\ Init
  /\ StreamInit("none")
  /\ view     = "none"
  /\ requests = 0
  /\ answers  = [s \in Statuses |-> 0]

(* runInvestigation: POST the Job, show it as queued, refresh it; the      *)
(* effect opens the stream.                                                *)
SubmitJob ==
  /\ view = "none"
  /\ Enqueue(Watched)
  /\ view' = "queued"
  /\ Ask
  /\ NoConnection("connecting")
  /\ UNCHANGED <<lastId, shown, drops, answers>>

(* cancelInvestigation: the answer carries the status the request left     *)
(* behind and is applied like that of a refresh; a refresh follows.  A     *)
(* repeated request changes nothing, one for a finished Job is an error.   *)
PressCancel ==
  /\ view \in ActiveView
  /\ InFlight + 2 <= MaxInFlight
  /\ RequestCancel(Watched) \/ (row[Watched].cancelRequested /\ UNCHANGED vars)
  /\ answers'  = [answers EXCEPT ![row'[Watched].status] = @ + 1]
  /\ requests' = requests + 1
  /\ UNCHANGED <<streamVars, view>>

(* The queue, its Workers and other clients move on.                       *)
QueueMoves ==
  /\ view # "none"
  /\ Next
  /\ UNCHANGED <<streamVars, pageVars>>

StreamMoves ==
  /\ view # "none"
  /\ Connect \/ SendEvents \/ CheckStatus \/ EndOfStream \/ Drop \/ Refused
  /\ UNCHANGED <<vars, pageVars>>

ReceiveEvent ==
  /\ Receive
  /\ Ask
  /\ UNCHANGED <<vars, view, answers>>

(* Mutant: the timer runs only while the stream is up.                     *)
PollWhileStreaming ==
  /\ view \in ActiveView
  /\ source = "open"
  /\ Ask
  /\ UNCHANGED <<vars, streamVars, view, answers>>

Poll ==
  /\ view \in ActiveView
  /\ Ask
  /\ UNCHANGED <<vars, streamVars, view, answers>>

(* GET /rca/jobs/{id} reads the row at some moment between the call and    *)
(* its answer.                                                             *)
ReadJob ==
  /\ requests > 0
  /\ requests' = requests - 1
  /\ answers'  = [answers EXCEPT ![row[Watched].status] = @ + 1]
  /\ UNCHANGED <<vars, streamVars, view>>

(* A failed refresh changes nothing, unless it was the first one after a   *)
(* reload: then the page gives the Job up.                                 *)
RefreshFails ==
  /\ requests > 0
  /\ drops < MaxDrops
  /\ drops'    = drops + 1
  /\ requests' = requests - 1
  /\ view' = IF view = "loading" THEN "lost" ELSE view
  /\ UNCHANGED <<vars, connection, lastId, shown, answers>>

(* A reload of the page: what was in flight is gone, restoreJob(true)      *)
(* refreshes the Job of the URL.                                           *)
Reload ==
  /\ view # "none"
  /\ drops < MaxDrops
  /\ drops'    = drops + 1
  /\ NoConnection("none")
  /\ lastId'   = 0
  /\ shown'    = {}
  /\ view'     = "loading"
  /\ requests' = 1
  /\ answers'  = [s \in Statuses |-> 0]
  /\ UNCHANGED vars

(* Mutant: the effect does not run again when the Job looks active again.  *)
ApplyOnce(s) ==
  /\ answers[s] > 0
  /\ answers' = [answers EXCEPT ![s] = @ - 1]
  /\ view' = s
  /\ IF s \in Terminal THEN NoConnection("none") /\ lastId' = 0
     ELSE UNCHANGED <<connection, lastId>>
  /\ UNCHANGED <<vars, shown, drops, requests>>

(* setJob with the status of the answer, whatever is shown already, and    *)
(* the effect that depends on rcaJobActive.                                *)
Apply(s) ==
  /\ answers[s] > 0
  /\ answers' = [answers EXCEPT ![s] = @ - 1]
  /\ view' = s
  /\ IF s \in ActiveView <=> view \in ActiveView
     THEN UNCHANGED <<connection, lastId>>
     ELSE /\ NoConnection(IF s \in ActiveView THEN "connecting" ELSE "none")
          /\ lastId' = 0
  /\ UNCHANGED <<vars, shown, drops, requests>>

PageNext == \/ SubmitJob
            \/ PressCancel
            \/ QueueMoves
            \/ StreamMoves
            \/ ReceiveEvent
            \/ Poll
            \/ ReadJob
            \/ RefreshFails
            \/ Reload
            \/ \E s \in Statuses : Apply(s)

PageSpec == PageInit /\ [][PageNext]_allVars

(* The timer keeps firing while the page shows an active Job, and a call   *)
(* that does not fail is answered.                                         *)
FairPage ==
  /\ WF_allVars(Poll)
  /\ WF_allVars(ReadJob)
  /\ \A s \in Statuses : WF_allVars(Apply(s))

FairPageSpec == PageSpec /\ FairPage

-----------------------------------------------------------------------------
(* Properties.                                                             *)

(* A terminal status on the page is the Job's status for good, even when   *)
(* answers overtake each other and the page went back to active meanwhile. *)
TerminalViewIsTrue == view \in Terminal => view = row[Watched].status

(* "keeps polling as a degraded fallback": once the Job has ended the page *)
(* settles on its terminal status and stays there, whatever happened to    *)
(* the stream and however late old answers arrive, unless it gave the Job  *)
(* up on a failed reload.                                                  *)
ViewConverges ==
  \A s \in Terminal :
    (view # "none" /\ row[Watched].status = s) ~> ([](view = s) \/ view = "lost")
=============================================================================
