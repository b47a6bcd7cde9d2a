-------------------------- MODULE ProviderHttpServer --------------------------
(***************************************************************************)
(* ProviderHttpServer and its HttpSessions                                 *)
(* (src/provider/http/provider_http_server.cpp) above PreviewPipeline.     *)
(* One I/O thread runs every handler, one at a time; a handler is one step. *)
(* An asynchronous operation is outstanding until the step that runs its    *)
(* handler, which may find it done, failed, timed out or aborted: each has  *)
(* a deadline of request_timeout_ms.  A completion that is already queued   *)
(* when the operation is cancelled still reports success; that is how a     *)
(* connection is accepted, a request read or a timer run after a stop.      *)
(***************************************************************************)
EXTENDS PreviewPipeline, FiniteSets

CONSTANTS
  Sessions,         \* session objects, reused when they are gone
  MaxConnections,   \* max_connections
  MaxStreamClients  \* max_stream_clients

ASSUME SessionsAssumption == IsFiniteSet(Sessions)
ASSUME LimitsAssumption == MaxConnections \in Nat /\ MaxStreamClients \in Nat

VARIABLES
  accepting,     \* m_acceptor.is_open()
  connected,     \* async_accept has a socket, its handler has not run
  connections,   \* m_active_connections
  streams,       \* m_active_stream_clients
  status,        \* status[s]: "free", "open" or "finished" (m_finished)
  op,            \* op[s]: the outstanding operation on the socket
  kind,          \* kind[s]: m_stream_kind, None unless m_streaming
  initial,       \* initial[s]: m_initial_stream_frame
  pending,       \* pending[s]: m_pending_stream_frame
  lastSent,      \* lastSent[s]: m_last_sent_identity, None before the first
  refresh,       \* refresh[s]: m_refresh_pending
  armed,         \* armed[s]: m_idle_timer is being waited for
  fired,         \* fired[s]: it expired and its handler has not run
  parts,         \* parts[s]: parts sent, counted to 2 (for the properties only)
  server         \* "running", then stopServer's progress: "stopping" (waiting for
                 \* the I/O thread), "draining" (poll_one) and "stopped"

acceptVars  == <<accepting, connected>>
countVars   == <<connections, streams>>
frameVars   == <<initial, pending, lastSent, refresh, parts>>
timerVars   == <<armed, fired>>
sessionVars == <<status, op, kind, frameVars, timerVars>>
vars == <<pipelineVars, posted, started, acceptVars, countVars, sessionVars, server>>

Open(s) == status[s] = "open"
Streaming(s) == kind[s] # None
WriteInProgress(s) == op[s] \in {"header", "part"}

Init ==
  /\ PipelineInit
  /\ accepting = TRUE /\ connected = FALSE
  /\ connections = 0 /\ streams = 0
  /\ status = [s \in Sessions |-> "free"]
  /\ op = [s \in Sessions |-> "none"]
  /\ kind = [s \in Sessions |-> None]
  /\ initial = [s \in Sessions |-> None]
  /\ pending = [s \in Sessions |-> None]
  /\ lastSent = [s \in Sessions |-> None]
  /\ refresh = [s \in Sessions |-> FALSE]
  /\ armed = [s \in Sessions |-> FALSE]
  /\ fired = [s \in Sessions |-> FALSE]
  /\ parts = [s \in Sessions |-> 0]
  /\ server = "running"

-----------------------------------------------------------------------------
(***************************************************************************)
(* Accepting.                                                              *)
(***************************************************************************)
ClientConnects ==
  /\ accepting /\ ~connected
  /\ connected' = TRUE
  /\ UNCHANGED <<pipelineVars, posted, started, accepting, countVars, sessionVars, server>>

\* The session object is gone, or has never been.
Gone(s) == ~Open(s) /\ op[s] = "none" /\ ~fired[s]

\* The handler of async_accept, with room for a session.
AcceptsSession(s) ==
  /\ connected
  /\ connections < MaxConnections
  /\ Gone(s)
  /\ connected' = FALSE
  /\ connections' = connections + 1
  /\ status' = [status EXCEPT ![s] = "open"]
  /\ op' = [op EXCEPT ![s] = "read"]
  /\ kind' = [kind EXCEPT ![s] = None]
  /\ initial' = [initial EXCEPT ![s] = None]
  /\ pending' = [pending EXCEPT ![s] = None]
  /\ lastSent' = [lastSent EXCEPT ![s] = None]
  /\ refresh' = [refresh EXCEPT ![s] = FALSE]
  /\ parts' = [parts EXCEPT ![s] = 0]
  /\ UNCHANGED <<pipelineVars, posted, started, accepting, streams, timerVars, server>>

\* The same handler at the connection limit: the socket is closed.
AcceptRefuses ==
  /\ connected
  /\ connections >= MaxConnections
  /\ connected' = FALSE
  /\ UNCHANGED <<pipelineVars, posted, started, accepting, countVars, sessionVars, server>>

-----------------------------------------------------------------------------
(***************************************************************************)
(* Sessions.  A handler is written as the operators it calls, each of which *)
(* assigns the session's variables.                                        *)
(***************************************************************************)
\* A counter after n closes, each of which leaves it alone at 0.
LessBy(count, n) == IF count > n THEN count - n ELSE 0

\* A bug: a closed stream keeps its place among the stream clients.
CloseKeepsStreams(C) ==
  /\ connections' = LessBy(connections, Cardinality(C))
  /\ streams' = streams

\* closeSession's counters, for the sessions of C.
CloseSession(C) ==
  /\ connections' = LessBy(connections, Cardinality(C))
  /\ streams' = LessBy(streams, Cardinality({s \in C : Streaming(s)}))

\* cancelSession: nothing but the timer is left of a session that is finished.
CancelSessions(C) ==
  /\ status' = [s \in Sessions |-> IF s \in C /\ Open(s) THEN "finished" ELSE status[s]]
  /\ armed' = [s \in Sessions |-> armed[s] /\ s \notin C]
  /\ CloseSession({s \in C : Open(s)})

\* writeLatestStreamFrame: the initial frame if it has not been sent, else the
\* newest fresh preview, if it is newer than the frame sent last.
FrameToSend(s) == IF initial[s] # None THEN initial[s] ELSE AcquireFreshPreview(kind[s])

\* A bug: what has been sent is not compared with.
AnyFrameToSend(s, sent) == FrameToSend(s) # None

HasFrameToSend(s, sent) == FrameToSend(s) # None /\ Newer(FrameToSend(s), sent)

\* The sessions of W call writeLatestStreamFrame; sent is what each has sent,
\* ops and wanted the operations and refresh flags of the others.  With nothing
\* to send they call waitForStreamFrame, which arms the idle timer.
WriteLatestStreamFrame(W, sent, ops, wanted) ==
  LET writes == {s \in W : HasFrameToSend(s, sent[s])}
  IN  /\ op' = [s \in Sessions |-> IF s \in writes THEN "part" ELSE ops[s]]
      /\ pending' = [s \in Sessions |-> IF s \in writes THEN FrameToSend(s) ELSE pending[s]]
      /\ initial' = [s \in Sessions |-> IF s \in W THEN None ELSE initial[s]]
      /\ refresh' = [s \in Sessions |-> wanted[s] /\ s \notin writes]
      /\ armed' = [s \in Sessions |-> IF s \in W THEN s \notin writes ELSE armed[s]]

\* A handler that ends in cancelSession; op[s] is done.
EndsSession(s) ==
  /\ CancelSessions({s})
  /\ op' = [op EXCEPT ![s] = "none"]
  /\ UNCHANGED <<kind, frameVars, fired>>

\* sendResponse: every request that is not an admitted stream, the refused
\* streams (503 no_fresh_frame, 429 stream_limit_reached) among them.
SendResponse(s) ==
  /\ op' = [op EXCEPT ![s] = "response"]
  /\ UNCHANGED <<countVars, status, kind, frameVars, timerVars>>

\* admitStream.  A bug: off by one.
AdmitOneMore == streams <= MaxStreamClients
AdmitStream == streams < MaxStreamClients

\* startStream.
StartStream(s, k) ==
  /\ AcquireFreshPreview(k) # None
  /\ AdmitStream
  /\ streams' = streams + 1
  /\ kind' = [kind EXCEPT ![s] = k]
  /\ initial' = [initial EXCEPT ![s] = AcquireFreshPreview(k)]
  /\ op' = [op EXCEPT ![s] = "header"]
  /\ UNCHANGED <<connections, status, pending, lastSent, refresh, parts, timerVars>>

HandleRead(s) ==
  /\ op[s] = "read"
  /\ \/ EndsSession(s)
     \/ SendResponse(s)
     \/ \E k \in Kinds : StartStream(s, k)

ResponseWritten(s) ==
  /\ op[s] = "response"
  /\ EndsSession(s)

HandleStreamHeaderWritten(s) ==
  /\ op[s] = "header"
  /\ \/ EndsSession(s)
     \/ /\ Open(s)
        /\ WriteLatestStreamFrame({s}, lastSent, [op EXCEPT ![s] = "none"], refresh)
        /\ UNCHANGED <<countVars, status, kind, lastSent, parts, fired>>

HandleStreamPartWritten(s) ==
  /\ op[s] = "part"
  /\ \/ EndsSession(s)
     \/ /\ Open(s)
        /\ lastSent' = [lastSent EXCEPT ![s] = pending[s]]
        /\ parts' = [parts EXCEPT ![s] = IF parts[s] < 2 THEN parts[s] + 1 ELSE 2]
        /\ \/ /\ refresh[s]
              /\ WriteLatestStreamFrame({s}, lastSent', [op EXCEPT ![s] = "none"],
                                        [refresh EXCEPT ![s] = FALSE])
           \/ /\ ~refresh[s]
              /\ op' = [op EXCEPT ![s] = "none"]
              /\ armed' = [armed EXCEPT ![s] = TRUE]
              /\ UNCHANGED <<initial, pending, refresh>>
        /\ UNCHANGED <<countVars, status, kind, fired>>

\* The idle timer expires: its handler is queued and can no longer be cancelled.
TimerExpires(s) ==
  /\ armed[s] /\ ~fired[s]
  /\ armed' = [armed EXCEPT ![s] = FALSE]
  /\ fired' = [fired EXCEPT ![s] = TRUE]
  /\ UNCHANGED <<countVars, status, op, kind, frameVars>>

\* A bug: the handler leaves the session as it is.
IdleTimeoutIgnored(s) ==
  /\ fired[s]
  /\ fired' = [fired EXCEPT ![s] = FALSE]
  /\ UNCHANGED <<countVars, status, armed, op, kind, frameVars>>

IdleTimeout(s) ==
  /\ fired[s]
  /\ fired' = [fired EXCEPT ![s] = FALSE]
  /\ CancelSessions({s})
  /\ UNCHANGED <<op, kind, frameVars>>

OperationEnds(s) ==
  \/ HandleRead(s)
  \/ ResponseWritten(s)
  \/ HandleStreamHeaderWritten(s)
  \/ HandleStreamPartWritten(s)

-----------------------------------------------------------------------------
(***************************************************************************)
(* What other threads post to the I/O thread.                              *)
(***************************************************************************)
\* notifySessions, with HttpSession::notifyStreamFrame: a session that is
\* writing remembers the notification in refresh.
Busy(k) == {s \in Sessions : Open(s) /\ kind[s] = k /\ WriteInProgress(s)}
Idle(k) == {s \in Sessions : Open(s) /\ kind[s] = k /\ ~WriteInProgress(s)}

\* A bug: a notification that comes during a write is dropped.
DropsRefresh(k) == refresh

RefreshAfter(k) == [s \in Sessions |-> refresh[s] \/ s \in Busy(k)]

NotifySessions ==
  /\ posted # <<>>
  /\ Head(posted) \in Kinds
  /\ posted' = Tail(posted)
  /\ WriteLatestStreamFrame(Idle(Head(posted)), lastSent, op, RefreshAfter(Head(posted)))
  /\ UNCHANGED <<acceptVars, countVars, status, kind, lastSent, parts, fired, started, server>>

\* stopServer up to the wait for the I/O thread.
StopServer ==
  /\ started
  /\ started' = FALSE
  /\ posted' = Append(posted, "stop")
  /\ server' = "stopping"
  /\ UNCHANGED <<pipelineVars, acceptVars, countVars, sessionVars>>

\* A bug: the acceptor stays open.
StopLeavesAcceptor ==
  /\ posted # <<>>
  /\ Head(posted) = "stop"
  /\ posted' = Tail(posted)
  /\ CancelSessions({s \in Sessions : Open(s)})
  /\ UNCHANGED <<acceptVars, started, op, kind, frameVars, fired, server>>

StopOnIoThread ==
  /\ posted # <<>>
  /\ Head(posted) = "stop"
  /\ posted' = Tail(posted)
  /\ accepting' = FALSE
  /\ CancelSessions({s \in Sessions : Open(s)})
  /\ UNCHANGED <<connected, started, op, kind, frameVars, fired, server>>

\* m_worker_exit is not ready in time: io_context.stop().
StopTimesOut ==
  /\ server = "stopping"
  /\ server' = "draining"
  /\ UNCHANGED <<pipelineVars, posted, started, acceptVars, countVars, sessionVars>>

\* The rest of stopServer: when the I/O thread has run out of work, or when
\* poll_one finds no handler that is ready; an operation may be outstanding.
StopEnds ==
  /\ posted = <<>> /\ ~connected
  /\ \A s \in Sessions : ~fired[s]
  /\ \/ server = "draining"
     \/ server = "stopping" /\ ~accepting /\ \A s \in Sessions : op[s] = "none" /\ ~armed[s]
  /\ server' = "stopped"
  /\ connections' = 0 /\ streams' = 0
  /\ UNCHANGED <<pipelineVars, posted, started, acceptVars, sessionVars>>

-----------------------------------------------------------------------------
AcceptHandler == AcceptRefuses \/ \E s \in Sessions : AcceptsSession(s)
PostedHandler == (NotifySessions \/ StopOnIoThread) /\ UNCHANGED pipelineVars
SessionHandler(s) ==
  /\ OperationEnds(s) \/ TimerExpires(s) \/ IdleTimeout(s)
  /\ UNCHANGED <<pipelineVars, posted, started, acceptVars, server>>

\* The I/O thread, or poll_one after it.
IoStep ==
  /\ server # "stopped"
  /\ AcceptHandler \/ PostedHandler \/ \E s \in Sessions : SessionHandler(s)

Next ==
  \/ PipelineNext /\ UNCHANGED <<acceptVars, countVars, sessionVars, server>>
  \/ server # "stopped" /\ ClientConnects
  \/ IoStep
  \/ StopServer \/ StopTimesOut \/ StopEnds

Spec == Init /\ [][Next]_vars

\* The I/O thread runs every handler that is queued; every operation has a
\* deadline, so its handler is queued sooner or later, and so is the timer's;
\* the wait of stopServer has a deadline.
Fairness ==
  /\ WF_vars(server # "stopped" /\ AcceptHandler)
  /\ WF_vars(server # "stopped" /\ PostedHandler)
  /\ \A s \in Sessions :
       /\ WF_vars(server # "stopped" /\ OperationEnds(s)
                  /\ UNCHANGED <<pipelineVars, posted, started, acceptVars, server>>)
       /\ WF_vars(server # "stopped" /\ (TimerExpires(s) \/ IdleTimeout(s))
                  /\ UNCHANGED <<pipelineVars, posted, started, acceptVars, server>>)
  /\ WF_vars(StopTimesOut)
  /\ WF_vars(StopEnds)

FairSpec == Spec /\ Fairness

-----------------------------------------------------------------------------
(***************************************************************************)
(* Properties.                                                             *)
(***************************************************************************)
\* Type invariant; the counters of ProviderHttpServer never pass their limits.
TypeOK ==
  /\ PipelineTypeOK
  /\ posted \in Seq(Kinds \cup {"stop"})
  /\ accepting \in BOOLEAN /\ connected \in BOOLEAN
  /\ connections \in 0 .. MaxConnections
  /\ streams \in 0 .. MaxStreamClients
  /\ status \in [Sessions -> {"free", "open", "finished"}]
  /\ op \in [Sessions -> {"none", "read", "response", "header", "part"}]
  /\ kind \in [Sessions -> Kinds \cup {None}]
  /\ initial \in [Sessions -> Identities \cup {None}]
  /\ pending \in [Sessions -> Identities \cup {None}]
  /\ lastSent \in [Sessions -> Identities \cup {None}]
  /\ refresh \in [Sessions -> BOOLEAN]
  /\ armed \in [Sessions -> BOOLEAN]
  /\ fired \in [Sessions -> BOOLEAN]
  /\ parts \in [Sessions -> 0 .. 2]
  /\ server \in {"running", "stopping", "draining", "stopped"}

\* While the server runs, m_active_connections and m_active_stream_clients are
\* the sessions that are open and the streams among them: no end of a session
\* (client error, response, idle timeout) is counted twice or not at all.
CountsMatch ==
  server = "running" =>
    /\ connections = Cardinality({s \in Sessions : Open(s)})
    /\ streams = Cardinality({s \in Sessions : Open(s) /\ Streaming(s)})

\* A session that is open always has a handler that will run: an operation
\* with a deadline, or the idle timer.  None is left behind holding its place.
SessionHasHandler ==
  \A s \in Sessions : Open(s) => op[s] # "none" \/ armed[s] \/ fired[s]

\* Every part a stream sends is newer than the part before: a notification
\* that is late, or for a frame already sent, never repeats or goes back.
PartsGetNewer ==
  \A s \in Sessions :
    op[s] = "part" /\ lastSent[s] # None => IsNewer(pending[s], lastSent[s])

Waiting(s) == Open(s) /\ Streaming(s) /\ op[s] = "none"
NotificationOnItsWay(k) ==
  encoder = At("notify", k) \/ \E i \in 1 .. Len(posted) : posted[i] = k
MissesFrame(s) ==
  /\ Waiting(s)
  /\ AcquireFreshPreview(kind[s]) # None
  /\ Newer(AcquireFreshPreview(kind[s]), lastSent[s])
  /\ ~NotificationOnItsWay(kind[s])

\* A stream waits only when there is nothing newer to send, or a notification
\* is on its way to wake it (handleStreamPartWritten and m_refresh_pending).
NoLostWakeup == started => \A s \in Sessions : ~MissesFrame(s)

\* The same once a stream has sent two parts, so that the frame it took at
\* startStream is behind it.
NoLostWakeupLater == started => \A s \in Sessions : parts[s] = 2 => ~MissesFrame(s)

\* stopServer returns, whatever the clients do.
StopReturns == server = "stopping" ~> server = "stopped"

\* Every session ends, unless the server stops first: no client keeps its place
\* by being slow or silent (there are finitely many frames to send it).
SessionsEnd == \A s \in Sessions : Open(s) ~> ~Open(s) \/ server = "stopped"
=============================================================================
