----------------------------- MODULE EventStream ----------------------------
(***************************************************************************)
(* One client following the events of one Job over SSE: the generator      *)
(* event_stream of app.py on the server, reading the event table of        *)
(* JobStore.tla while the queue moves on, and the browser's EventSource    *)
(* that api.ts opens.  The generator reads the events and the Job status   *)
(* in two separate transactions.  The connection can be cut at any point;  *)
(* the EventSource then reconnects with the id of the last event it got.   *)
(***************************************************************************)
EXTENDS JobStore

CONSTANTS Watched,    \* the Job the client follows
          MaxDrops    \* bound on network failures

ASSUME StreamAssumption == Watched \in Jobs /\ MaxDrops \in Nat

VARIABLES source,   \* readyState of the EventSource
          lastId,   \* its Last-Event-ID
          server,   \* where the generator of the open connection is
          cursor,   \* its cursor
          wire,     \* ids of events sent and not yet received
          shown,    \* ids of events the client has shown (deduplicated)
          drops

connection == <<source, server, cursor, wire>>
streamVars == <<connection, lastId, shown, drops>>

Events == log[Watched]
JobEnded == row[Watched].status \in Terminal

NoConnection(state) ==
  source' = state /\ server' = "off" /\ cursor' = 0 /\ wire' = <<>>

-----------------------------------------------------------------------------
StreamInit(state) ==
  /\ source = state
  /\ server = "off"
  /\ lastId = 0
  /\ cursor = 0
  /\ wire   = <<>>
  /\ shown  = {}
  /\ drops  = 0

(* Mutant: a reconnecting client is sent new events only.                  *)
ConnectFromNow ==
  /\ source = "connecting"
  /\ row[Watched].status # "absent"
  /\ source' = "open"
  /\ server' = "list"
  /\ cursor' = Len(Events)
  /\ wire'   = <<>>
  /\ UNCHANGED <<lastId, shown, drops>>

(* GET /rca/jobs/{id}/events with Last-Event-ID: the Job must exist.       *)
Connect ==
  /\ source = "connecting"
  /\ row[Watched].status # "absent"
  /\ source' = "open"
  /\ server' = "list"
  /\ cursor' = lastId
  /\ wire'   = <<>>
  /\ UNCHANGED <<lastId, shown, drops>>

(* list_events(after_sequence = cursor), each event yielded in turn.       *)
SendEvents ==
  /\ server = "list"
  /\ wire' = wire \o [i \in 1 .. Len(Events) - cursor |-> cursor + i]
  /\ cursor' = IF Len(Events) > cursor THEN Len(Events) ELSE cursor
  /\ server' = "check"
  /\ UNCHANGED <<source, lastId, shown, drops>>

(* get_record: return on a terminal status, otherwise sleep and loop.      *)
CheckStatus ==
  /\ server = "check"
  /\ server' = IF JobEnded THEN "returned" ELSE "list"
  /\ UNCHANGED <<source, cursor, wire, lastId, shown, drops>>

(* The listener of api.ts gets the next event; App.tsx drops duplicates.   *)
Receive ==
  /\ source = "open"
  /\ wire # <<>>
  /\ wire'   = Tail(wire)
  /\ lastId' = Head(wire)
  /\ shown'  = shown \cup {Head(wire)}
  /\ UNCHANGED <<source, server, cursor, drops>>

(* The EventSource reads the end of the stream and reconnects.             *)
EndOfStream ==
  /\ server = "returned"
  /\ wire = <<>>
  /\ NoConnection("connecting")
  /\ UNCHANGED <<lastId, shown, drops>>

(* The network cuts the connection; what was on the wire is lost.          *)
Drop ==
  /\ source = "open"
  /\ drops < MaxDrops
  /\ drops' = drops + 1
  /\ NoConnection("connecting")
  /\ UNCHANGED <<lastId, shown>>

(* The request is answered with an error status; an EventSource does not   *)
(* retry after that.                                                       *)
Refused ==
  /\ source = "connecting"
  /\ drops < MaxDrops
  /\ drops' = drops + 1
  /\ NoConnection("dead")
  /\ UNCHANGED <<lastId, shown>>

Stream == Connect \/ SendEvents \/ CheckStatus \/ Receive \/ EndOfStream \/ Drop

-----------------------------------------------------------------------------
(* Properties.                                                             *)

(* The client sees the persisted order without gaps, through any number of *)
(* reconnects: it never shows an event while an earlier one is missing,    *)
(* and what is under way continues exactly where the client stands.        *)
NoGaps ==
  /\ \E n \in 0 .. Len(Events) : shown = 1 .. n
  /\ lastId = 0 \/ lastId \in shown
  /\ source = "open" => wire = [i \in 1 .. cursor - lastId |-> lastId + i]
=============================================================================
