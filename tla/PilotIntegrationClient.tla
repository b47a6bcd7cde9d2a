------------------------ MODULE PilotIntegrationClient ------------------------
(***************************************************************************)
(* PilotIntegrationClient (src/pilot/pilot_integration_client.cpp): one     *)
(* worker thread registers the component with the Pilot, publishes its      *)
(* catalog, then sends heartbeats and state updates; stopClient, on another *)
(* thread, asks it to stop, cancels its request and joins it.  Requests go  *)
(* through PilotHttpTransport (src/pilot/pilot_http_transport.cpp): one at a *)
(* time, each with deadlines.                                              *)
(* The Pilot is external.  It keeps the component's last registration, and  *)
(* may refuse anything, forget a session when its lease expires, restart,    *)
(* and receive a request the client has given up.                           *)
(***************************************************************************)
EXTENDS Naturals, FiniteSets

CONSTANTS
  ProviderStates,  \* ProviderState
  MaxSessions,     \* bound: registrations the Pilot accepts
  MaxSequence,     \* bound: the Pilot ends a session at this sequence
  MaxRestarts,     \* bound: restarts of the Pilot
  MaxLate,         \* bound: requests that were given up and may still arrive
  MaxStarts,       \* bound: startClient calls
  None

ASSUME BoundsAssumption ==
  /\ MaxSessions \in Nat /\ MaxSequence \in Nat \ {0} /\ MaxRestarts \in Nat
  /\ MaxLate \in Nat /\ MaxStarts \in Nat

VARIABLES
  pc,        \* the worker's next step
  session,   \* session_id, 0 when empty
  sequence,  \* sequence
  current,   \* m_current_state
  update,    \* m_pending_state
  server,    \* m_snapshot.server_instance_id
  snapshot,  \* m_snapshot.state
  stop,      \* m_stop_requested
  stopper,   \* stopClient's next step
  starts,    \* startClient calls so far
  request,   \* m_p_active_session's request, None when there is none
  result,    \* what finish() gave it, None before
  cancelled, \* the request was ended by cancelRequest
  pilot,     \* external: the component's registration at the Pilot
  sessions,  \* external: sessions given out
  instance,  \* external: the Pilot's server_instance_id
  late       \* external: requests that were given up and may still arrive

workerVars    == <<pc, session, sequence, server, snapshot>>
stateVars     == <<current, update>>
stopVars      == <<stop, stopper, starts>>
transportVars == <<request, result, cancelled>>
pilotVars     == <<pilot, sessions, instance, late>>
vars == <<workerVars, stateVars, stopVars, transportVars, pilotVars>>

Statuses == {"ok", "malformed", "contract", "replace", "unavailable", "error"}
Requests ==
  [type : {"register", "catalog", "state", "heartbeat", "disconnect"},
   session : 0 .. MaxSessions, sequence : 0 .. MaxSequence, state : ProviderStates]
Results == [status : Statuses, session : 0 .. MaxSessions, server : 0 .. MaxRestarts]
Registrations ==
  [session : 1 .. MaxSessions, state : ProviderStates, sequence : 0 .. MaxSequence,
   published : BOOLEAN]

ASSUME NoneAssumption ==
  /\ None \notin ProviderStates
  /\ None \notin Requests
  /\ None \notin Results
  /\ None \notin Registrations

Init ==
  /\ pc = "done" /\ session = 0 /\ sequence = 1
  /\ current \in ProviderStates /\ update = None
  /\ server = 0 /\ snapshot = "DISABLED"
  /\ stop = FALSE /\ stopper = "stopped" /\ starts = 0
  /\ request = None /\ result = None /\ cancelled = FALSE
  /\ pilot = None /\ sessions = 0 /\ instance = 0 /\ late = {}

-----------------------------------------------------------------------------
(***************************************************************************)
(* The transport: executeRequest runs from Execute to the step that takes   *)
(* the result.                                                             *)
(***************************************************************************)
Execute(r) ==
  /\ request' = r
  /\ result' = None
  /\ cancelled' = FALSE

\* A bug: the finished request stays the active one.
TakenNotReset(p) ==
  /\ pc = p
  /\ result # None
  /\ UNCHANGED <<request, result, cancelled>>

\* The step that takes the result of the request sent at step p.
Taken(p) ==
  /\ pc = p
  /\ result # None
  /\ request' = None /\ result' = None /\ cancelled' = FALSE

Ended(status) == [status |-> status, session |-> 0, server |-> 0]

\* A request the client gives up may have been written to the socket.
GivenUp ==
  \/ late' = late
  \/ Cardinality(late) < MaxLate /\ late' = late \cup {request}

\* Refused, reset, or a deadline exceeded before the Pilot has answered.
TransportFails ==
  /\ request # None /\ result = None
  /\ result' = Ended("error")
  /\ GivenUp
  /\ UNCHANGED <<workerVars, stateVars, stopVars, request, cancelled, pilot, sessions, instance>>

-----------------------------------------------------------------------------
(***************************************************************************)
(* The Pilot (external).                                                   *)
(***************************************************************************)
Knows(r) == pilot # None /\ pilot.session = r.session

Answer(status) == [status |-> status, session |-> sessions', server |-> instance]

\* The Pilot does what r asks for; this is its answer.
Accepts(r, status) ==
  \/ /\ r.type = "register" /\ sessions < MaxSessions
     /\ sessions' = sessions + 1
     /\ pilot' = [session |-> sessions + 1, state |-> r.state, sequence |-> 0, published |-> FALSE]
     /\ status = "ok"
  \/ /\ r.type = "catalog" /\ Knows(r)
     /\ pilot' = [pilot EXCEPT !.published = TRUE]
     /\ status = "ok" /\ UNCHANGED sessions
  \/ /\ r.type \in {"state", "heartbeat"} /\ Knows(r)
     /\ r.sequence > pilot.sequence /\ r.sequence < MaxSequence
     /\ pilot' = [pilot EXCEPT !.sequence = r.sequence,
                               !.state = IF r.type = "state" THEN r.state ELSE @]
     /\ status = "ok" /\ UNCHANGED sessions
  \/ /\ r.type = "disconnect" /\ Knows(r)
     /\ pilot' = None
     /\ status = "ok" /\ UNCHANGED sessions

\* Or refuses it: an unknown or expired session, a stale sequence (404, 409), a
\* contract error, or a failure of its own (503).
Refuses(r, status) ==
  /\ \/ status = "replace" /\ r.type # "register"
     \/ status = "contract" /\ r.type \in {"register", "catalog"}
     \/ status = "unavailable"
  /\ UNCHANGED <<pilot, sessions>>

\* The Pilot handles the request; the answer arrives, arrives malformed, or is lost.
PilotAnswers ==
  /\ request # None /\ result = None
  /\ \E status \in {"ok", "replace", "contract", "unavailable"} :
       /\ Accepts(request, status) \/ Refuses(request, status)
       /\ \E arrives \in {status, "malformed", "error"} : result' = Answer(arrives)
  /\ UNCHANGED <<workerVars, stateVars, stopVars, request, cancelled, instance, late>>

PilotReceivesLate ==
  /\ \E r \in late :
       /\ Accepts(r, "ok")
       /\ late' = late \ {r}
  /\ UNCHANGED <<workerVars, stateVars, stopVars, transportVars, instance>>

\* A lease expires, or the Pilot restarts.
PilotForgets ==
  /\ pilot' = None
  /\ \/ pilot # None /\ UNCHANGED instance
     \/ instance < MaxRestarts /\ instance' = instance + 1
  /\ UNCHANGED <<workerVars, stateVars, stopVars, transportVars, sessions, late>>
-----------------------------------------------------------------------------
(***************************************************************************)
(* The worker, runWorker.                                                  *)
(***************************************************************************)
\* The head of a loop that the worker leaves when m_stop_requested is set.
Leaves(p) ==
  /\ pc = p /\ stop
  /\ pc' = "end"
  /\ UNCHANGED <<session, sequence, server, snapshot, transportVars>>

\* A result that finds m_stop_requested set is not looked at.
LeavesWithResult(p) ==
  /\ Taken(p) /\ stop
  /\ pc' = "end"
  /\ UNCHANGED <<session, sequence, server, snapshot>>

Recovers == pc' = "backoff" /\ snapshot' = "RECOVERING"
Faults == pc' = "done" /\ snapshot' = "CONTRACT_FAULT"

Register ==
  /\ pc = "register" /\ ~stop
  /\ pc' = "registering" /\ snapshot' = "REGISTERING"
  /\ Execute([type |-> "register", session |-> 0, sequence |-> 0, state |-> current])
  /\ UNCHANGED <<session, sequence, server>>

Registered ==
  /\ Taken("registering") /\ ~stop
  /\ \/ /\ result.status = "ok"
        /\ session' = result.session /\ sequence' = 1 /\ server' = result.server
        /\ pc' = "publish" /\ UNCHANGED snapshot
     \/ result.status = "contract" /\ Faults /\ UNCHANGED <<session, sequence, server>>
     \/ /\ result.status \in {"malformed", "unavailable", "error"}
        /\ Recovers /\ UNCHANGED <<session, sequence, server>>

\* publishCatalog.
Publish ==
  /\ pc = "publish" /\ ~stop
  /\ pc' = "publishing"
  /\ Execute([type |-> "catalog", session |-> session, sequence |-> 0, state |-> current])
  /\ UNCHANGED <<session, sequence, server, snapshot>>

\* A bug: a conflict is taken for an earlier publication of this catalog.
ConflictIsPublished == result.status \in {"ok", "replace"}

\* parseCatalogAcceptedResponse accepts the answer.
AcceptedCatalog == result.status = "ok" /\ result.server = server

Published ==
  /\ Taken("publishing") /\ ~stop
  /\ \/ /\ AcceptedCatalog
        /\ pc' = "wait" /\ snapshot' = "ONLINE" /\ UNCHANGED session
     \/ /\ ~AcceptedCatalog /\ result.status \in {"ok", "malformed", "replace"}
        /\ Recovers /\ session' = 0
     \/ result.status = "contract" /\ Faults /\ UNCHANGED session
     \/ /\ result.status \in {"unavailable", "error"}
        /\ pc' = "retry" /\ UNCHANGED <<session, snapshot>>
  /\ UNCHANGED <<sequence, server>>

\* wait_for with the capped delay, which a stop ends early.
BackoffEnds ==
  /\ \/ pc = "backoff" /\ pc' = "register"
     \/ pc = "retry" /\ pc' = "publish"
  /\ UNCHANGED <<session, sequence, server, snapshot, stateVars, transportVars>>

\* A bug: a state update takes the number of the heartbeat before it.
SameSequence == sequence
NextSequence == sequence + 1

\* runSession sends a write of this type; the wait has taken m_pending_state.
Write(type, state) ==
  /\ pc = "wait" /\ ~stop
  /\ pc' = "writing"
  /\ Execute([type |-> type, session |-> session, sequence |-> sequence, state |-> state])
  /\ update' = None
  /\ sequence' = NextSequence
  /\ UNCHANGED <<session, server, snapshot, current>>

WriteState == update # None /\ Write("state", update)

\* A bug: the wait has no deadline, so that only an update ends it.
NoHeartbeat == FALSE

\* next_heartbeat has passed.
Heartbeat == update = None /\ Write("heartbeat", current)

AcceptedWrite == result.status = "ok" /\ result.server = server

Written ==
  /\ Taken("writing") /\ ~stop
  /\ \/ AcceptedWrite /\ pc' = "wait" /\ snapshot' = "ONLINE"
     \/ ~AcceptedWrite /\ Recovers
  /\ UNCHANGED <<session, sequence, server>>

\* The end of runWorker, with the disconnect of the last session it had.
Disconnect ==
  /\ pc = "end" /\ session # 0
  /\ pc' = "disconnecting" /\ snapshot' = "STOPPING"
  /\ Execute([type |-> "disconnect", session |-> session, sequence |-> 0, state |-> current])
  /\ UNCHANGED <<session, sequence, server>>

\* A bug: the disconnect is repeated until the Pilot accepts it.
FinishesOnceAccepted ==
  /\ \/ pc = "end" /\ session = 0 /\ pc' = "done" /\ UNCHANGED transportVars
     \/ Taken("disconnecting") /\ pc' = IF result.status = "ok" THEN "done" ELSE "end"
  /\ snapshot' = "STOPPED"
  /\ UNCHANGED <<session, sequence, server>>

Finishes ==
  /\ \/ pc = "end" /\ session = 0 /\ UNCHANGED transportVars
     \/ Taken("disconnecting")
  /\ pc' = "done" /\ snapshot' = "STOPPED"
  /\ UNCHANGED <<session, sequence, server>>

WorkerStep ==
  \/ /\ \/ Leaves("register") \/ Leaves("publish") \/ Leaves("wait")
        \/ LeavesWithResult("registering") \/ LeavesWithResult("publishing")
        \/ LeavesWithResult("writing")
        \/ Register \/ Registered \/ Publish \/ Published \/ Written
        \/ Disconnect \/ Finishes
     /\ UNCHANGED stateVars
  \/ BackoffEnds
  \/ WriteState
  \/ Heartbeat

-----------------------------------------------------------------------------
(***************************************************************************)
(* The other threads.                                                      *)
(***************************************************************************)
StartClient(initial) ==
  /\ stopper = "stopped" /\ starts < MaxStarts
  /\ starts' = starts + 1 /\ stopper' = "idle" /\ stop' = FALSE
  /\ current' = initial /\ update' = None
  /\ pc' = "register" /\ session' = 0 /\ sequence' = 1
  /\ server' = 0 /\ snapshot' = "DISABLED"
  /\ UNCHANGED <<transportVars, pilotVars>>

\* A bug: the state is sent, but a registration after it does not know it.
OnlyPending(state) == update' = state /\ UNCHANGED current
Remember(state) == current' = state /\ update' = state

UpdateProviderState(state) ==
  /\ stopper # "stopped"
  /\ Remember(state)
  /\ UNCHANGED <<workerVars, stopVars, transportVars, pilotVars>>

\* stopClient, up to the release of m_mutex.
StopClient ==
  /\ stopper = "idle"
  /\ stop' = TRUE /\ stopper' = "cancel"
  /\ UNCHANGED <<workerVars, stateVars, starts, transportVars, pilotVars>>

\* cancelRequest, of the request that is active by now.
CancelRequest ==
  /\ stopper = "cancel"
  /\ stopper' = "join"
  /\ \/ /\ request # None /\ result = None
        /\ result' = Ended("error") /\ cancelled' = TRUE
        /\ GivenUp
     \/ /\ request = None \/ result # None
        /\ UNCHANGED <<result, cancelled, late>>
  /\ UNCHANGED <<workerVars, stateVars, stop, starts, request, pilot, sessions, instance>>

Joined ==
  /\ stopper = "join" /\ pc = "done"
  /\ stopper' = "stopped"
  /\ UNCHANGED <<workerVars, stateVars, stop, starts, transportVars, pilotVars>>

-----------------------------------------------------------------------------
Worker == WorkerStep /\ UNCHANGED <<stopVars, pilotVars>>

Next ==
  \/ Worker
  \/ TransportFails \/ PilotAnswers \/ PilotReceivesLate \/ PilotForgets
  \/ \E state \in ProviderStates : StartClient(state) \/ UpdateProviderState(state)
  \/ StopClient \/ CancelRequest \/ Joined

Spec == Init /\ [][Next]_vars

\* The worker runs, every request ends (its deadlines), and so does stopClient.
FairSpec ==
  /\ Spec
  /\ WF_vars(Worker)
  /\ WF_vars(TransportFails \/ PilotAnswers)
  /\ WF_vars(CancelRequest) /\ WF_vars(Joined)

-----------------------------------------------------------------------------
(***************************************************************************)
(* Properties.                                                             *)
(***************************************************************************)
\* Type invariant; the worker has a request only at the steps that wait for one.
TypeOK ==
  /\ pc \in {"register", "registering", "publish", "publishing", "retry", "wait",
             "writing", "backoff", "end", "disconnecting", "done"}
  /\ session \in 0 .. MaxSessions
  /\ sequence \in 1 .. MaxSequence + 1
  /\ current \in ProviderStates /\ update \in ProviderStates \cup {None}
  /\ server \in 0 .. MaxRestarts /\ instance \in 0 .. MaxRestarts
  /\ snapshot \in {"DISABLED", "REGISTERING", "ONLINE", "RECOVERING", "CONTRACT_FAULT",
                   "STOPPING", "STOPPED"}
  /\ stop \in BOOLEAN /\ stopper \in {"idle", "cancel", "join", "stopped"}
  /\ starts \in 0 .. MaxStarts
  /\ request \in Requests \cup {None}
  /\ request # None <=> pc \in {"registering", "publishing", "writing", "disconnecting"}
  /\ result \in Results \cup {None}
  /\ result # None => request # None
  /\ cancelled \in BOOLEAN
  /\ pilot \in Registrations \cup {None} /\ (pilot # None => pilot.session <= sessions)
  /\ sessions \in 0 .. MaxSessions
  /\ late \subseteq Requests

AtPilot == pilot # None /\ pilot.session = session

\* When the worker waits with no update pending, the Pilot has the provider's
\* current state, if it still has the session: a state update that failed, was
\* overtaken by a later one or came during a registration is not lost.
StateConverges == pc = "wait" /\ update = None /\ AtPilot => pilot.state = current

\* A heartbeat or state update never carries a sequence the Pilot has already
\* seen in the session, whatever happened to the writes before it.
SequenceFresh ==
  pc = "writing" /\ result = None /\ AtPilot => request.sequence > pilot.sequence

\* The client says ONLINE only of a session whose catalog the Pilot has.
OnlineIsPublished == snapshot = "ONLINE" /\ AtPilot => pilot.published

\* stopClient's cancelRequest ends the request that stands in the way of the
\* stop, and never the disconnect.
CancelSparesDisconnect == ~(cancelled /\ request.type = "disconnect")

\* A session the Pilot has lost does not stay ONLINE.
LossNoticed == (snapshot = "ONLINE" /\ ~AtPilot) ~> snapshot # "ONLINE"

\* stopClient returns.
ClientStops == stop ~> stopper = "stopped"
=============================================================================
