-------------------------- MODULE VisionApplication --------------------------
(***************************************************************************)
(* The life of the application (src/runtime/vision_application.cpp): which  *)
(* thread uses which object while startApplication builds them and          *)
(* stopApplication takes them down, and what becomes of the provider state. *)
(*   - the main thread runs startApplication, which holds m_mutex from end  *)
(*     to end, and stopApplication, which holds it at its ends only;        *)
(*   - the capture and encoder threads run until m_stop_requested;          *)
(*   - the provider's I/O thread runs one route at a time.                  *)
(* The application may be started again after a stop: every object is made  *)
(* anew, and the camera counts generations and frames from the beginning,   *)
(* so that a frame is told from one of an earlier run by nothing but the    *)
(* order in which stores are cleared and threads joined.  run, in objects   *)
(* and frames, says which start they belong to; the code has no such field. *)
(* The Pilot client is seen from outside: the state it was told last.       *)
(***************************************************************************)
EXTENDS Naturals

CONSTANTS
  MaxRuns,  \* bound: calls of startApplication
  Numbers,  \* frame numbers the camera gives, in any order
  None

ASSUME RunsAssumption == MaxRuns \in Nat
ASSUME NumbersAssumption == Numbers \subseteq Nat

VARIABLES
  main,           \* the main thread's next step
  locked,         \* startApplication holds m_mutex
  run,            \* calls of startApplication so far
  started,        \* m_started
  stopRequested,  \* m_stop_requested
  state,          \* m_health.state
  listening,      \* m_health.listening
  adapter,        \* m_p_adapter
  server,         \* m_p_server
  manager,        \* m_p_recording_manager
  client,         \* m_p_pilot_client
  told,           \* the client's m_current_state
  capture,        \* m_capture_thread's next step; "none" is not joinable
  got,            \* the frame it has read
  encoder,        \* m_encoder_thread's next step
  encoding,       \* the frame it has taken
  store,          \* m_frame_store
  preview,        \* m_preview_cache
  route,          \* the route the I/O thread is in
  served          \* the frame a query was answered with last

objectVars  == <<adapter, server, manager, client>>
healthVars  == <<started, stopRequested, state, listening>>
captureVars == <<capture, got>>
encoderVars == <<encoder, encoding>>
storeVars   == <<store, preview>>
routeVars   == <<route, served>>
vars == <<main, locked, run, healthVars, objectVars, told, captureVars, encoderVars,
          storeVars, routeVars>>

States == {"STARTING", "READY", "DEGRADED", "STOPPING"}
StartSteps == {"server", "connect", "stream", "encoder", "capture", "pilot"}
StopSteps == {"tell", "stop_client", "stop_server", "join_server", "join_capture",
              "join_encoder", "finalize", "stop_camera", "clear", "unlisten"}

Frames == [run : 1 .. MaxRuns, number : Numbers]
ASSUME NoneIsNoFrame == None \notin Frames
Object(r, phase) == [run |-> r, phase |-> phase]
NoObject == Object(0, "none")
Ours(object) == object.run = run
In(object, phase) == [object EXCEPT !.phase = phase]

\* A critical section of m_mutex, other than startApplication's.
LockFree == ~locked

\* The phases of a manager that has not been finalized.  "faulted": a stop's
\* evidence could not be written, and the worker of that recording still has
\* to lock the manager's mutex before it returns.
ManagerInService == {"idle", "recording", "faulted"}

\* The phases of a client whose m_started is set; "workerless" is one whose
\* startClient threw.
ClientStarted == {"running", "workerless"}

Init ==
  /\ main = "idle" /\ locked = FALSE /\ run = 0
  /\ started = FALSE /\ stopRequested = FALSE /\ state = "STARTING" /\ listening = FALSE
  /\ adapter = NoObject /\ server = NoObject /\ manager = NoObject /\ client = NoObject
  /\ told = None
  /\ capture = "none" /\ got = None /\ encoder = "none" /\ encoding = None
  /\ store = None /\ preview = None
  /\ route = "none" /\ served = None

-----------------------------------------------------------------------------
(***************************************************************************)
(* startApplication.                                                       *)
(***************************************************************************)
\* FrameStore::clear and EncodedPreviewCache::clear.  A bug: they forget the
\* age of a frame, and not the frame.
ClearsAgeOnly == UNCHANGED storeVars
ClearStores == store' = None /\ preview' = None

\* Up to the construction of the recording manager, which may throw: its root
\* cannot be prepared.  The old manager is then still there.
StartApplication ==
  /\ main = "idle" /\ ~started /\ LockFree
  /\ run < MaxRuns
  /\ run' = run + 1
  /\ stopRequested' = FALSE /\ state' = "STARTING" /\ listening' = FALSE
  /\ ClearStores
  /\ adapter' = Object(run', "new")
  /\ \/ /\ manager' = Object(run', "idle")
        /\ main' = "server" /\ locked' = TRUE
     \/ UNCHANGED <<manager, main, locked>>
  /\ UNCHANGED <<started, server, client, told, captureVars, encoderVars, routeVars>>

\* m_p_server is replaced and started.  When it cannot bind, startApplication
\* throws and m_started stays false.
StartServer ==
  /\ main = "server"
  /\ \/ /\ server' = Object(run, "running")
        /\ started' = TRUE /\ listening' = TRUE
        /\ main' = "connect" /\ UNCHANGED locked
     \/ /\ server' = Object(run, "new")
        /\ main' = "idle" /\ locked' = FALSE
        /\ UNCHANGED <<started, listening>>
  /\ UNCHANGED <<run, stopRequested, state, adapter, manager, client, told, captureVars,
                 encoderVars, storeVars, routeVars>>

\* The catch around camera and threads.
Degrades == state' = "DEGRADED" /\ main' = "pilot"

ConnectCamera ==
  /\ main = "connect"
  /\ \/ adapter' = In(adapter, "connected") /\ main' = "stream" /\ UNCHANGED state
     \/ Degrades /\ UNCHANGED adapter
  /\ UNCHANGED <<locked, run, started, stopRequested, listening, server, manager, client, told,
                 captureVars, encoderVars, storeVars, routeVars>>

StartStream ==
  /\ main = "stream"
  /\ \/ adapter' = In(adapter, "streaming") /\ state' = "READY" /\ main' = "encoder"
     \/ Degrades /\ UNCHANGED adapter
  /\ UNCHANGED <<locked, run, started, stopRequested, listening, server, manager, client, told,
                 captureVars, encoderVars, storeVars, routeVars>>

\* A thread that cannot be started leaves the application degraded, with the
\* threads it has.
StartEncoder ==
  /\ main = "encoder"
  /\ \/ encoder' = "loop" /\ encoding' = None /\ main' = "capture" /\ UNCHANGED state
     \/ Degrades /\ UNCHANGED encoderVars
  /\ UNCHANGED <<locked, run, started, stopRequested, listening, objectVars, told,
                 captureVars, storeVars, routeVars>>

StartCapture ==
  /\ main = "capture"
  /\ \/ capture' = "loop" /\ main' = "pilot" /\ UNCHANGED state
     \/ Degrades /\ UNCHANGED capture
  /\ UNCHANGED <<locked, run, started, stopRequested, listening, objectVars, told, got,
                 encoderVars, storeVars, routeVars>>

\* The client is replaced and started with the provider state.  startClient
\* throws when the catalog, the transport or the thread cannot be made; it has
\* its state by then, and m_started of the application stays true, so that the
\* run is still to be stopped.
StartPilot ==
  /\ main = "pilot"
  /\ \/ client' = Object(run, "running")
     \/ client' = Object(run, "workerless")
  /\ told' = state
  /\ main' = "run" /\ locked' = FALSE
  /\ UNCHANGED <<run, healthVars, adapter, server, manager, captureVars, encoderVars,
                 storeVars, routeVars>>

-----------------------------------------------------------------------------
(***************************************************************************)
(* The capture thread.                                                     *)
(***************************************************************************)
CaptureRest == <<main, locked, run, started, stopRequested, listening, objectVars,
                 encoderVars, preview, routeVars>>

CaptureLoops ==
  /\ capture = "loop"
  /\ capture' = IF stopRequested THEN "done" ELSE "read"
  /\ UNCHANGED <<CaptureRest, state, told, got, store>>

\* readFrame: a frame, or an exception after a timeout or a device error.
CaptureReads ==
  /\ capture = "read"
  /\ \/ /\ \E n \in Numbers : got' = [run |-> run, number |-> n]
        /\ capture' = "publish"
     \/ capture' = "failed" /\ UNCHANGED got
  /\ UNCHANGED <<CaptureRest, state, told, store>>

\* A bug: the newest frame is the last one that came.
NewerOrNot(f, g) == TRUE

\* isNewerIdentity, of frames of one generation: each run has generation 1.
Newer(f, g) == g # None => f.number > g.number

\* FrameStore::publishFrame.
CapturePublishes ==
  /\ capture = "publish"
  /\ store' = IF Newer(got, store) THEN got ELSE store
  /\ capture' = "submit"
  /\ UNCHANGED <<CaptureRest, state, told, got>>

\* trySubmitFrame returns.
CaptureSubmits ==
  /\ capture = "submit"
  /\ capture' = "loop" /\ got' = None
  /\ UNCHANGED <<CaptureRest, state, told, store>>

\* The catch of the capture loop, up to its test of m_stop_requested.  A bug:
\* the camera is tried again until it gives a frame.
CaptureRetries ==
  /\ capture = "failed"
  /\ capture' = "read"
  /\ UNCHANGED <<CaptureRest, state, told, got, store>>

CaptureFails ==
  /\ capture = "failed"
  /\ capture' = IF stopRequested THEN "loop" ELSE "report"
  /\ UNCHANGED <<CaptureRest, state, told, got, store>>

\* Its critical section.  A bug: the test for a change is the wrong way round.
CaptureReportsLater ==
  /\ capture = "report" /\ LockFree
  /\ state' = "DEGRADED"
  /\ capture' = IF state = "DEGRADED" THEN "tell" ELSE "loop"
  /\ UNCHANGED <<CaptureRest, told, got, store>>

CaptureReports ==
  /\ capture = "report" /\ LockFree
  /\ state' = "DEGRADED"
  /\ capture' = IF state = "DEGRADED" THEN "loop" ELSE "tell"
  /\ UNCHANGED <<CaptureRest, told, got, store>>

\* updateProviderState, which a client that has stopped ignores.
Tell(news) == told' = IF client.phase \in ClientStarted THEN news ELSE told

CaptureTells ==
  /\ capture = "tell"
  /\ Tell("DEGRADED")
  /\ capture' = "loop"
  /\ UNCHANGED <<CaptureRest, state, got, store>>

-----------------------------------------------------------------------------
(***************************************************************************)
(* The encoder thread; PreviewPipeline has its details.                    *)
(***************************************************************************)
EncoderRest == <<main, locked, run, healthVars, objectVars, told, captureVars, store,
                 routeVars>>

\* waitForFrameAfter gives up after a while, so that the loop comes back to
\* its test.
EncoderLoops ==
  /\ encoder = "loop"
  /\ \/ stopRequested /\ encoder' = "done" /\ UNCHANGED encoding
     \/ /\ ~stopRequested
        /\ store # None /\ Newer(store, encoding)
        /\ encoder' = "encode" /\ encoding' = store
  /\ UNCHANGED <<EncoderRest, preview>>

\* publishPreview, which refuses a frame that is not newer, or the encoding fails.
EncoderPublishes ==
  /\ encoder = "encode"
  /\ \/ IF Newer(encoding, preview)
        THEN preview' = encoding /\ encoder' = "notify"
        ELSE encoder' = "loop" /\ UNCHANGED preview
     \/ encoder' = "fail" /\ UNCHANGED preview
  /\ UNCHANGED <<EncoderRest, encoding>>

\* notifyStreamFrame, or the critical section that sets last_error.
EncoderEnds ==
  /\ encoder = "notify" \/ (encoder = "fail" /\ LockFree)
  /\ encoder' = "loop"
  /\ UNCHANGED <<EncoderRest, encoding, preview>>

-----------------------------------------------------------------------------
(***************************************************************************)
(* The I/O thread, which handles requests until stopServer has stopped it.  *)
(***************************************************************************)
RouteRest == <<main, locked, run, healthVars, adapter, server, client, told, captureVars,
               encoderVars, storeVars>>

RouteBegins ==
  /\ server.phase \in {"running", "stopping"} /\ route = "none"
  /\ route' \in {"health", "recording", "query"}
  /\ UNCHANGED <<RouteRest, manager, served>>

\* getHealthSnapshot.
HealthRoute ==
  /\ route = "health" /\ LockFree
  /\ route' = "none"
  /\ UNCHANGED <<RouteRest, manager, served>>

\* beginFinalizationLocked: the evidence of the stop is written, or not.
EndRecording ==
  /\ manager.phase = "recording"
  /\ manager' \in {In(manager, "idle"), In(manager, "faulted")}

\* getStatus, a replay or a refusal; a start; a stop; and the start that joins
\* the worker of a faulted recording with the manager's mutex held, which that
\* worker needs: neither ever goes on (RecordingManager's StartBlocksInJoin).
RecordingRoute ==
  /\ route = "recording"
  /\ \/ route' = "none" /\ UNCHANGED manager
     \/ /\ route' = "none"
        /\ manager.phase = "idle" /\ manager' = In(manager, "recording")
     \/ route' = "none" /\ EndRecording
     \/ route' = "blocked" /\ manager.phase = "faulted" /\ UNCHANGED manager
  /\ UNCHANGED <<RouteRest, served>>

\* The recording worker, in critical sections of the manager's mutex: the
\* recording reaches its duration, or the worker of a faulted one is through.
RecordingWorker ==
  /\ route # "blocked"
  /\ \/ EndRecording
     \/ manager.phase = "faulted" /\ manager' = In(manager, "idle")
  /\ UNCHANGED <<RouteRest, routeVars>>

\* acquireFreshFrame: 503 when there is none, or none that is fresh.
QueryRoute ==
  /\ route = "query"
  /\ route' = "none"
  /\ \/ store # None /\ served' = store
     \/ UNCHANGED served
  /\ UNCHANGED <<RouteRest, manager>>

-----------------------------------------------------------------------------
(***************************************************************************)
(* stopApplication.                                                        *)
(***************************************************************************)
\* A bug: m_mutex is held while threads are joined.
StopHoldingLock ==
  /\ main = "run" /\ LockFree
  /\ started' = FALSE /\ state' = "STOPPING" /\ stopRequested' = TRUE
  /\ main' = "tell" /\ locked' = TRUE
  /\ UNCHANGED <<run, listening, objectVars, told, captureVars, encoderVars, storeVars, routeVars>>

StopApplication ==
  /\ main = "run" /\ LockFree
  /\ started' = FALSE /\ state' = "STOPPING" /\ stopRequested' = TRUE
  /\ main' = "tell"
  /\ UNCHANGED <<locked, run, listening, objectVars, told, captureVars, encoderVars,
                 storeVars, routeVars>>

StopRest == <<locked, run, started, stopRequested, state, routeVars>>

TellStopping ==
  /\ main = "tell"
  /\ Tell("STOPPING")
  /\ main' = "stop_client"
  /\ UNCHANGED <<StopRest, listening, objectVars, captureVars, encoderVars, storeVars>>

StopClient ==
  /\ main = "stop_client"
  /\ client' = In(client, "stopped")
  /\ main' = "stop_server"
  /\ UNCHANGED <<StopRest, listening, adapter, server, manager, told, captureVars, encoderVars,
                 storeVars>>

\* The stop is posted; requests that have come are still handled.
StopServer ==
  /\ main = "stop_server"
  /\ server' = In(server, "stopping")
  /\ main' = "join_server"
  /\ UNCHANGED <<StopRest, listening, adapter, manager, client, told, captureVars, encoderVars,
                 storeVars>>

\* The I/O context is out of work, or stopped after the timeout: the thread
\* ends with the route it is in.
JoinServer ==
  /\ main = "join_server"
  /\ \/ server.phase = "stopping" /\ server' = In(server, "draining") /\ UNCHANGED main
     \/ /\ server.phase = "draining" /\ route = "none"
        /\ server' = In(server, "stopped") /\ main' = "join_capture"
  /\ UNCHANGED <<StopRest, listening, adapter, manager, client, told, captureVars, encoderVars,
                 storeVars>>

\* A bug: the thread is not waited for.
DetachCapture ==
  /\ main = "join_capture"
  /\ main' = "join_encoder"
  /\ UNCHANGED <<StopRest, listening, objectVars, told, captureVars, encoderVars, storeVars>>

JoinCapture ==
  /\ main = "join_capture"
  /\ capture \in {"none", "done"}
  /\ capture' = "none" /\ got' = None
  /\ main' = "join_encoder"
  /\ UNCHANGED <<StopRest, listening, objectVars, told, encoderVars, storeVars>>

\* A bug: the thread is not waited for.
DetachEncoder ==
  /\ main = "join_encoder"
  /\ main' = "finalize"
  /\ UNCHANGED <<StopRest, listening, objectVars, told, captureVars, encoderVars, storeVars>>

JoinEncoder ==
  /\ main = "join_encoder"
  /\ encoder \in {"none", "done"}
  /\ encoder' = "none" /\ encoding' = None
  /\ main' = "finalize"
  /\ UNCHANGED <<StopRest, listening, objectVars, told, captureVars, storeVars>>

\* RecordingManager::finalize.
Finalize ==
  /\ main = "finalize"
  /\ manager' = In(manager, "stopped")
  /\ main' = "stop_camera"
  /\ UNCHANGED <<StopRest, listening, adapter, server, client, told, captureVars, encoderVars,
                 storeVars>>

\* stopStream and disconnectCamera.
StopCamera ==
  /\ main = "stop_camera"
  /\ adapter' = In(adapter, "stopped")
  /\ main' = "clear"
  /\ UNCHANGED <<StopRest, listening, server, manager, client, told, captureVars, encoderVars,
                 storeVars>>

StopClears ==
  /\ main = "clear"
  /\ ClearStores
  /\ main' = "unlisten"
  /\ UNCHANGED <<StopRest, listening, objectVars, told, captureVars, encoderVars>>

StopEnds ==
  /\ main = "unlisten" /\ LockFree
  /\ listening' = FALSE
  /\ main' = "idle"
  /\ UNCHANGED <<StopRest, objectVars, told, captureVars, encoderVars, storeVars>>

-----------------------------------------------------------------------------
Start == StartServer \/ ConnectCamera \/ StartStream \/ StartEncoder \/ StartCapture \/ StartPilot
Capture == \/ CaptureLoops \/ CaptureReads \/ CapturePublishes \/ CaptureSubmits
           \/ CaptureFails \/ CaptureReports \/ CaptureTells
Encoder == EncoderLoops \/ EncoderPublishes \/ EncoderEnds
RouteEnds == HealthRoute \/ RecordingRoute \/ QueryRoute
Stop == \/ TellStopping \/ StopClient \/ StopServer \/ JoinServer \/ JoinCapture
        \/ JoinEncoder \/ Finalize \/ StopCamera \/ StopClears \/ StopEnds

Next ==
  \/ StartApplication \/ Start
  \/ Capture \/ Encoder
  \/ RouteBegins \/ RouteEnds \/ RecordingWorker
  \/ StopApplication \/ Stop

Spec == Init /\ [][Next]_vars

\* Every thread that can take a step takes one.  Nobody has to start or stop
\* the application, to send a request or to end a recording.
FairSpec ==
  /\ Spec
  /\ WF_vars(Start) /\ WF_vars(Stop)
  /\ WF_vars(Capture) /\ WF_vars(Encoder) /\ WF_vars(RouteEnds)

-----------------------------------------------------------------------------
(***************************************************************************)
(* Properties.                                                             *)
(***************************************************************************)
Objects(phases) == [run : 0 .. MaxRuns, phase : phases]

\* Type invariant; m_mutex is held throughout startApplication, and at no
\* step of stopApplication that waits for another thread.
TypeOK ==
  /\ main \in {"idle", "run"} \cup StartSteps \cup StopSteps
  /\ locked \in BOOLEAN /\ (locked <=> main \in StartSteps)
  /\ run \in 0 .. MaxRuns
  /\ started \in BOOLEAN /\ stopRequested \in BOOLEAN /\ listening \in BOOLEAN
  /\ state \in States
  /\ adapter \in Objects({"none", "new", "connected", "streaming", "stopped"})
  /\ server \in Objects({"none", "new", "running", "stopping", "draining", "stopped"})
  /\ manager \in Objects({"none", "stopped"} \cup ManagerInService)
  /\ client \in Objects({"none", "stopped"} \cup ClientStarted)
  /\ told \in States \cup {None}
  /\ capture \in {"none", "loop", "read", "publish", "submit", "failed", "report", "tell", "done"}
  /\ got \in Frames \cup {None}
  /\ encoder \in {"none", "loop", "encode", "notify", "fail", "done"}
  /\ encoding \in Frames \cup {None}
  /\ store \in Frames \cup {None} /\ preview \in Frames \cup {None}
  /\ route \in {"none", "health", "recording", "blocked", "query"}
  /\ served \in Frames \cup {None}

\* A thread uses only objects of its own run that are still in service: the
\* camera streams while it is read, the recording manager has not been
\* finalized when a frame or a request reaches it (what RecordingManager
\* assumes of its callers), and neither client nor server is about to be
\* replaced, although the threads read these pointers without m_mutex.
UsesLiveObjects ==
  /\ capture = "read" => Ours(adapter) /\ adapter.phase = "streaming"
  /\ capture = "submit" => Ours(manager) /\ manager.phase \in ManagerInService
  /\ capture = "tell" => Ours(client)
  /\ encoder = "notify" => Ours(server)
  /\ route \in {"recording", "blocked"} =>
       Ours(manager) /\ manager.phase \in ManagerInService
  /\ route = "health" /\ LockFree => Ours(adapter) /\ Ours(server) /\ Ours(client)

\* Between two runs nothing goes on: no thread, no route, no server, no client,
\* and no frame is left for the next run.  A start that throws before the server
\* listens is between two runs; one that throws in startClient is a run, which
\* has still to be stopped.
QuietAtRest ==
  main = "idle" =>
    /\ capture = "none" /\ encoder = "none" /\ route = "none"
    /\ server.phase \in {"none", "new", "stopped"}
    /\ client.phase \notin ClientStarted
    /\ ~listening
    /\ store = None /\ preview = None

\* The stores hold frames of this run only.  A frame that stayed behind would
\* be served as fresh, and would keep out the new run's frames until their
\* numbers pass its own.
FramesOfThisRun ==
  /\ store # None => store.run = run
  /\ preview # None => preview.run = run

\* As long as the application is not stopped, the Pilot client has been told
\* the provider state, or the capture thread is about to tell it: a failure
\* of the camera during startApplication is not lost between the state that
\* startClient is given and the updates that follow.
PilotIsTold == main = "run" /\ capture # "tell" => told = state

\* The frames that queries are answered with never go back within a run.
AnswersGoForward ==
  [][served' # served /\ served # None /\ served.run = served'.run
       => served'.number > served.number]_vars

\* Once the Pilot client has been told that the application stops, a stop
\* tells it nothing else.
NoStateAfterStopping ==
  [][stopRequested' /\ told = "STOPPING" => told' = "STOPPING"]_vars

\* A health request is answered, although its route needs the mutex that
\* startApplication holds while it waits for the camera.
HealthAnswered == route = "health" ~> route = "none"

\* stopApplication returns, but for one case: a start request has been blocked
\* in the join of a faulted recording's worker.  stopServer then waits for an I/O
\* thread that never ends.
StopReturns == main = "tell" ~> main = "idle" \/ route = "blocked"
=============================================================================
