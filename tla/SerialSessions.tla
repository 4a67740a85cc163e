---------------------------- MODULE SerialSessions ----------------------------
(***************************************************************************)
(* What the session manager promises its clients, with no locks in it: the *)
(* message streams of an open session are served one at a time, in the     *)
(* order in which they were sent, and nothing is served for a session that *)
(* has been closed.                                                        *)
(***************************************************************************)
EXTENDS Naturals, Sequences

CONSTANTS
  Session,   \* session ids
  Stream     \* message-stream requests, each sent once

VARIABLES
  phase,     \* phase[s]: "unborn", "open" or "gone"
  queue,     \* queue[s]: the streams of s that wait for their turn, in order
  serving    \* serving[s]: the streams the sandbox driver is working on for s

vars == <<phase, queue, serving>>

Init ==
  /\ phase = [s \in Session |-> "unborn"]
  /\ queue = [s \in Session |-> <<>>]
  /\ serving = [s \in Session |-> {}]

(* A session becomes known to its client.                                  *)
Open(s) ==
  /\ phase[s] = "unborn"
  /\ phase' = [phase EXCEPT ![s] = "open"]
  /\ UNCHANGED <<queue, serving>>

(* A session whose creation failed is never heard of.                      *)
Fail(s) ==
  /\ phase[s] = "unborn"
  /\ phase' = [phase EXCEPT ![s] = "gone"]
  /\ UNCHANGED <<queue, serving>>

(* A stream that finds the session idle, with no one before it, is served. *)
Start(s, t) ==
  /\ phase[s] = "open"
  /\ serving[s] = {}
  /\ queue[s] = <<>>
  /\ serving' = [serving EXCEPT ![s] = {t}]
  /\ UNCHANGED <<phase, queue>>

(* Every other stream queues behind those already there.                   *)
Submit(s, t) ==
  /\ phase[s] = "open"
  /\ serving[s] # {} \/ queue[s] # <<>>
  /\ queue' = [queue EXCEPT ![s] = Append(@, t)]
  /\ UNCHANGED <<phase, serving>>

(* The next in line is served once nobody else is.                         *)
Turn(s) ==
  /\ phase[s] = "open"
  /\ serving[s] = {}
  /\ queue[s] # <<>>
  /\ serving' = [serving EXCEPT ![s] = {Head(queue[s])}]
  /\ queue' = [queue EXCEPT ![s] = Tail(@)]
  /\ UNCHANGED phase

(* A waiting client goes away.                                             *)
Leave(s, i) ==
  /\ i \in DOMAIN queue[s]
  /\ queue' = [queue EXCEPT ![s] = SubSeq(@, 1, i - 1) \o SubSeq(@, i + 1, Len(@))]
  /\ UNCHANGED <<phase, serving>>

(* A stream is over, whatever the reason; its session may be gone by then. *)
Finish(s, t) ==
  /\ t \in serving[s]
  /\ serving' = [serving EXCEPT ![s] = @ \ {t}]
  /\ UNCHANGED <<phase, queue>>

(* Closing forgets the queue: those who wait are told there is no session. *)
Close(s) ==
  /\ phase[s] = "open"
  /\ phase' = [phase EXCEPT ![s] = "gone"]
  /\ queue' = [queue EXCEPT ![s] = <<>>]
  /\ UNCHANGED serving

Next ==
  \E s \in Session :
    \/ Open(s) \/ Fail(s) \/ Turn(s) \/ Close(s)
    \/ \E t \in Stream : Start(s, t) \/ Submit(s, t) \/ Finish(s, t)
    \/ \E i \in DOMAIN queue[s] : Leave(s, i)

Spec == Init /\ [][Next]_vars
===============================================================================
