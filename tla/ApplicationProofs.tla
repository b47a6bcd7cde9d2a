-------------------------- MODULE ApplicationProofs --------------------------
(***************************************************************************)
(* Proofs about VisionApplication for every number of starts and every set *)
(* of frame numbers.                                                       *)
(***************************************************************************)
EXTENDS VisionApplication, TLAPS

-----------------------------------------------------------------------------
(***************************************************************************)
(* The inductive invariant: at each step of the main thread, which threads *)
(* may exist, in which phase each object is, and whose frames are around.  *)
(***************************************************************************)
\* The steps of the main thread from the end of startApplication to the one
\* that has waited for the I/O, capture and encoder thread.
UntilServerJoined  == {"run", "tell", "stop_client", "stop_server", "join_server"}
UntilCaptureJoined == UntilServerJoined \cup {"join_capture"}
UntilEncoderJoined == UntilCaptureJoined \cup {"join_encoder"}

\* A thread exists from the step that starts it to the one that joins it, and
\* a route is handled only as long as the server has not been joined.
ThreadInv ==
  /\ main # "idle" => run > 0
  /\ capture # "none" => main \in UntilCaptureJoined \cup {"pilot"}
  /\ capture = "tell" => main # "pilot"
  /\ encoder # "none" => main \in UntilEncoderJoined \cup {"capture", "pilot"}
  /\ route # "none" => server.phase \in {"running", "stopping", "draining"}
  /\ main \in {"idle", "server"} => ~listening

\* The phase of each object, and that it belongs to this run.
ObjectInv ==
  /\ main # "idle" => Ours(adapter)
  /\ main \in {"encoder", "capture"} \/ capture # "none" => adapter.phase = "streaming"
  /\ main \in StartSteps \cup UntilEncoderJoined \cup {"finalize"}
       => Ours(manager) /\ manager.phase \in ManagerInService
  /\ main \in {"run"} \cup StopSteps => Ours(client)
  /\ client.phase \in ClientStarted <=> main \in {"run", "tell", "stop_client"}
  /\ main \notin {"idle", "server"} => Ours(server)
  /\ main \in {"idle", "server"} => server.phase \in {"none", "new", "stopped"}
  /\ main \in (StartSteps \ {"server"}) \cup {"run", "tell", "stop_client", "stop_server"}
       => server.phase = "running"
  /\ main = "join_server" => server.phase \in {"stopping", "draining"}
  /\ main \in StopSteps \ UntilServerJoined => server.phase = "stopped"

\* The frames of the capture thread, the encoder thread and the stores are of
\* this run, and between two runs there are none.
FrameInv ==
  /\ capture \in {"publish", "submit"} => got \in Frames /\ got.run = run
  /\ encoder = "none" => encoding = None
  /\ encoder = "encode" => encoding # None
  /\ encoding # None => encoding.run = run
  /\ FramesOfThisRun
  /\ main \in {"unlisten", "idle", "server"} => store = None /\ preview = None

\* What the Pilot client was told, and what the capture thread will tell it.
ToldInv ==
  /\ PilotIsTold
  /\ main = "run" /\ capture = "tell" => state = "DEGRADED"

\* The frame a query was answered with last is no newer than the latest frame,
\* as long as there can be another answer in this run.
ServedInv ==
  served # None =>
    /\ served.run <= run
    /\ served.run = run /\ main \notin {"unlisten", "idle"}
         => store # None /\ store.number >= served.number

Inv == TypeOK /\ ThreadInv /\ ObjectInv /\ FrameInv /\ ToldInv /\ ServedInv

\* An application that was never started satisfies the invariant.
LEMMA InitInv == Init => Inv
<1> SUFFICES ASSUME Init PROVE Inv
  OBVIOUS
<1> USE DEF Init
<1>1. TypeOK
  <2>1. 0 \in 0 .. MaxRuns
    BY RunsAssumption
  <2>2. /\ adapter \in Objects({"none", "new", "connected", "streaming", "stopped"})
        /\ server \in Objects({"none", "new", "running", "stopping", "draining", "stopped"})
        /\ manager \in Objects({"none", "stopped"} \cup ManagerInService)
        /\ client \in Objects({"none", "stopped"} \cup ClientStarted)
    BY <2>1 DEF Objects, NoObject, Object
  <2>3. locked <=> main \in StartSteps
    BY DEF StartSteps
  <2>4. QED
    BY <2>1, <2>2, <2>3 DEF TypeOK, States
<1>2. ThreadInv
  BY DEF ThreadInv
<1>3. ObjectInv
  BY DEF ObjectInv, ClientStarted, NoObject, Object, Ours, StartSteps, StopSteps,
         UntilServerJoined, UntilCaptureJoined, UntilEncoderJoined
<1>4. FrameInv /\ ToldInv /\ ServedInv
  BY DEF FrameInv, ToldInv, ServedInv, PilotIsTold, FramesOfThisRun
<1>5. QED
  BY <1>1, <1>2, <1>3, <1>4 DEF Inv

\* Every step keeps the types.
LEMMA TypeStep ==
  ASSUME Inv, [Next]_vars
  PROVE  TypeOK'
<1> USE RunsAssumption, NumbersAssumption
    DEF Inv, TypeOK, ThreadInv, Objects, ManagerInService, ClientStarted, Frames, States,
        StartSteps, StopSteps, LockFree,
        UntilServerJoined, UntilCaptureJoined, UntilEncoderJoined,
        vars, objectVars, healthVars, captureVars, encoderVars, storeVars, routeVars
<1>1. CASE StartApplication
  <2> USE <1>1 DEF StartApplication
  <2>1. run' \in 1 .. MaxRuns
    OBVIOUS
  <2>2. /\ adapter' \in Objects({"none", "new", "connected", "streaming", "stopped"})
        /\ manager' \in Objects({"none", "stopped"} \cup ManagerInService)
    BY <2>1 DEF Object
  <2>3. locked' \in BOOLEAN /\ (locked' <=> main' \in StartSteps)
    <3>1. CASE main' = "server" /\ locked' = TRUE
      BY <3>1
    <3>2. CASE UNCHANGED <<manager, main, locked>>
      BY <3>2
    <3>3. QED
      BY <3>1, <3>2
  <2>4. stopRequested' \in BOOLEAN /\ listening' \in BOOLEAN
    OBVIOUS
  <2>5. QED
    BY <2>1, <2>2, <2>3, <2>4 DEF ClearStores
<1>2. CASE StartServer
  <2> USE <1>2 DEF StartServer
  <2>1. CASE server' = Object(run, "running")
    <3>1. main' = "connect" /\ started' = TRUE /\ listening' = TRUE /\ locked' = locked
      BY <2>1 DEF Object
    <3>2. QED
      BY <2>1, <3>1 DEF Object
  <2>2. CASE server' = Object(run, "new")
    <3>1. main' = "idle" /\ locked' = FALSE /\ UNCHANGED <<started, listening>>
      BY <2>2 DEF Object
    <3>2. /\ server' \in Objects({"none", "new", "running", "stopping", "draining", "stopped"})
          /\ locked' \in BOOLEAN /\ (locked' <=> main' \in StartSteps)
      BY <2>2, <3>1 DEF Object
    <3>3. QED
      BY <3>1, <3>2
  <2>3. QED
    BY <2>1, <2>2
<1>3. CASE ConnectCamera
  BY <1>3 DEF ConnectCamera, Degrades, In
<1>4. CASE StartStream
  BY <1>4 DEF StartStream, Degrades, In
<1>5. CASE StartEncoder
  BY <1>5 DEF StartEncoder, Degrades
<1>6. CASE StartCapture
  BY <1>6 DEF StartCapture, Degrades
<1>7. CASE StartPilot
  <2> USE <1>7 DEF StartPilot
  <2>1. client' \in Objects({"none", "stopped"} \cup ClientStarted)
    BY DEF Object
  <2>2. locked' \in BOOLEAN /\ (locked' <=> main' \in StartSteps)
    OBVIOUS
  <2>3. QED
    BY <2>1, <2>2
<1>8. CASE CaptureLoops
  BY <1>8 DEF CaptureLoops, CaptureRest
<1>9. CASE CaptureReads
  BY <1>9 DEF CaptureReads, CaptureRest
<1>10. CASE CapturePublishes
  BY <1>10 DEF CapturePublishes, Newer, CaptureRest
<1>11. CASE CaptureSubmits
  BY <1>11 DEF CaptureSubmits, CaptureRest
<1>12. CASE CaptureFails
  BY <1>12 DEF CaptureFails, CaptureRest
<1>13. CASE CaptureReports
  BY <1>13 DEF CaptureReports, CaptureRest
<1>14. CASE CaptureTells
  BY <1>14 DEF CaptureTells, Tell, CaptureRest
<1>15. CASE EncoderLoops
  BY <1>15 DEF EncoderLoops, Newer, EncoderRest
<1>16. CASE EncoderPublishes
  BY <1>16 DEF EncoderPublishes, Newer, EncoderRest
<1>17. CASE EncoderEnds
  BY <1>17 DEF EncoderEnds, EncoderRest
<1>18. CASE RouteBegins
  BY <1>18 DEF RouteBegins, RouteRest
<1>19. CASE HealthRoute
  BY <1>19 DEF HealthRoute, RouteRest
<1>20. CASE RecordingRoute \/ RecordingWorker
  BY <1>20 DEF RecordingRoute, RecordingWorker, EndRecording, In, RouteRest
<1>21. CASE QueryRoute
  BY <1>21 DEF QueryRoute, RouteRest
<1>22. CASE StopApplication
  <2> USE <1>22 DEF StopApplication
  <2>1. started' \in BOOLEAN /\ stopRequested' \in BOOLEAN
    OBVIOUS
  <2>2. QED
    BY <2>1
<1>23. CASE TellStopping
  BY <1>23 DEF TellStopping, Tell, StopRest
<1>24. CASE StopClient
  BY <1>24 DEF StopClient, In, StopRest
<1>25. CASE StopServer
  BY <1>25 DEF StopServer, In, StopRest
<1>26. CASE JoinServer
  BY <1>26 DEF JoinServer, In, StopRest
<1>27. CASE JoinCapture
  BY <1>27 DEF JoinCapture, StopRest
<1>28. CASE JoinEncoder
  BY <1>28 DEF JoinEncoder, StopRest
<1>29. CASE Finalize
  BY <1>29 DEF Finalize, In, StopRest
<1>30. CASE StopCamera
  BY <1>30 DEF StopCamera, In, StopRest
<1>31. CASE StopClears
  BY <1>31 DEF StopClears, ClearStores, StopRest
<1>32. CASE StopEnds
  <2> USE <1>32 DEF StopEnds, StopRest
  <2>1. listening' \in BOOLEAN
    OBVIOUS
  <2>2. QED
    BY <2>1
<1>33. CASE UNCHANGED vars
  BY <1>33
<1>34. QED
  BY <1>1, <1>2, <1>3, <1>4, <1>5, <1>6, <1>7, <1>8, <1>9, <1>10, <1>11, <1>12,
     <1>13, <1>14, <1>15, <1>16, <1>17, <1>18, <1>19, <1>20, <1>21, <1>22, <1>23,
     <1>24, <1>25, <1>26, <1>27, <1>28, <1>29, <1>30, <1>31, <1>32, <1>33 DEF Next,
     Start, Capture, Encoder, RouteEnds, Stop

\* Every step keeps the threads' lives within their steps of the main thread.
LEMMA ThreadStep ==
  ASSUME Inv, [Next]_vars
  PROVE  ThreadInv'
<1> USE RunsAssumption
    DEF Inv, TypeOK, ThreadInv, ObjectInv, Objects, ManagerInService, ClientStarted,
        LockFree, StartSteps, StopSteps, UntilServerJoined, UntilCaptureJoined, UntilEncoderJoined,
        vars, objectVars, healthVars, captureVars, encoderVars, storeVars, routeVars
<1>1. CASE StartApplication
  BY <1>1 DEF StartApplication, Object, ClearStores
<1>2. CASE StartServer
  <2>1. CASE server' = Object(run, "running") /\ main' = "connect"
    BY <1>2, <2>1 DEF StartServer, Object
  <2>2. CASE server' = Object(run, "new") /\ main' = "idle"
    BY <1>2, <2>2 DEF StartServer, Object
  <2>3. QED
    BY <1>2, <2>1, <2>2 DEF StartServer
<1>3. CASE ConnectCamera
  BY <1>3 DEF ConnectCamera, Degrades, In
<1>4. CASE StartStream
  BY <1>4 DEF StartStream, Degrades, In
<1>5. CASE StartEncoder
  BY <1>5 DEF StartEncoder, Degrades
<1>6. CASE StartCapture
  BY <1>6 DEF StartCapture, Degrades
<1>7. CASE StartPilot
  BY <1>7 DEF StartPilot, Object
<1>8. CASE Capture
  BY <1>8 DEF Capture, CaptureLoops, CaptureRest, CaptureReads, CapturePublishes,
     Newer, CaptureSubmits, CaptureFails, CaptureReports, CaptureTells, Tell
<1>9. CASE Encoder
  BY <1>9 DEF Encoder, EncoderLoops, Newer, EncoderRest, EncoderPublishes, EncoderEnds
<1>10. CASE RouteBegins \/ RouteEnds \/ RecordingWorker
  BY <1>10 DEF RouteEnds, RouteBegins, RouteRest, HealthRoute, RecordingRoute,
     RecordingWorker, EndRecording, In, QueryRoute
<1>11. CASE StopApplication
  BY <1>11 DEF StopApplication
<1>12. CASE TellStopping
  BY <1>12 DEF TellStopping, Tell, StopRest
<1>13. CASE StopClient
  BY <1>13 DEF StopClient, In, StopRest
<1>14. CASE StopServer
  BY <1>14 DEF StopServer, In, StopRest
<1>15. CASE JoinServer
  BY <1>15 DEF JoinServer, In, StopRest
<1>16. CASE JoinCapture
  BY <1>16 DEF JoinCapture, StopRest
<1>17. CASE JoinEncoder
  BY <1>17 DEF JoinEncoder, StopRest
<1>18. CASE Finalize
  BY <1>18 DEF Finalize, In, StopRest
<1>19. CASE StopCamera
  BY <1>19 DEF StopCamera, In, StopRest
<1>20. CASE StopClears
  BY <1>20 DEF StopClears, ClearStores, StopRest
<1>21. CASE StopEnds
  BY <1>21 DEF StopEnds, StopRest
<1>22. CASE UNCHANGED vars
  BY <1>22
<1>23. QED
  BY <1>1, <1>2, <1>3, <1>4, <1>5, <1>6, <1>7, <1>8, <1>9, <1>10, <1>11, <1>12, <1>13,
     <1>14, <1>15, <1>16, <1>17, <1>18, <1>19, <1>20, <1>21, <1>22 DEF Next, Start,
     Stop

\* Every step keeps the objects in the phases of the main thread's step.
LEMMA ObjectStep ==
  ASSUME Inv, [Next]_vars
  PROVE  ObjectInv'
<1> USE DEF Inv, TypeOK, ThreadInv, ObjectInv, Objects, ManagerInService, ClientStarted, Ours,
        LockFree, StartSteps, StopSteps,
        UntilServerJoined, UntilCaptureJoined, UntilEncoderJoined,
        vars, objectVars, healthVars, captureVars, encoderVars, storeVars, routeVars
<1>1. CASE StartApplication
  BY <1>1 DEF StartApplication, Object, ClearStores
<1>2. CASE StartServer
  <2>1. CASE server' = Object(run, "running") /\ main' = "connect"
    BY <1>2, <2>1 DEF StartServer, Object
  <2>2. CASE server' = Object(run, "new") /\ main' = "idle"
    BY <1>2, <2>2 DEF StartServer, Object
  <2>3. QED
    BY <1>2, <2>1, <2>2 DEF StartServer
<1>3. CASE ConnectCamera
  BY <1>3 DEF ConnectCamera, Degrades, In
<1>4. CASE StartStream
  BY <1>4 DEF StartStream, Degrades, In
<1>5. CASE StartEncoder
  BY <1>5 DEF StartEncoder, Degrades
<1>6. CASE StartCapture
  BY <1>6 DEF StartCapture, Degrades
<1>7. CASE StartPilot
  BY <1>7 DEF StartPilot, Object
<1>8. CASE Capture
  BY <1>8 DEF Capture, CaptureLoops, CaptureRest, CaptureReads, CapturePublishes,
     Newer, CaptureSubmits, CaptureFails, CaptureReports, CaptureTells, Tell
<1>9. CASE Encoder
  BY <1>9 DEF Encoder, EncoderLoops, Newer, EncoderRest, EncoderPublishes, EncoderEnds
<1>10. CASE RouteBegins \/ RouteEnds \/ RecordingWorker
  BY <1>10 DEF RouteEnds, RouteBegins, RouteRest, HealthRoute, RecordingRoute,
     RecordingWorker, EndRecording, In, QueryRoute
<1>11. CASE StopApplication
  BY <1>11 DEF StopApplication
<1>12. CASE TellStopping
  BY <1>12 DEF TellStopping, Tell, StopRest
<1>13. CASE StopClient
  BY <1>13 DEF StopClient, In, StopRest
<1>14. CASE StopServer
  BY <1>14 DEF StopServer, In, StopRest
<1>15. CASE JoinServer
  BY <1>15 DEF JoinServer, In, StopRest
<1>16. CASE JoinCapture
  BY <1>16 DEF JoinCapture, StopRest
<1>17. CASE JoinEncoder
  BY <1>17 DEF JoinEncoder, StopRest
<1>18. CASE Finalize
  BY <1>18 DEF Finalize, In, StopRest
<1>19. CASE StopCamera
  BY <1>19 DEF StopCamera, In, StopRest
<1>20. CASE StopClears
  BY <1>20 DEF StopClears, ClearStores, StopRest
<1>21. CASE StopEnds
  BY <1>21 DEF StopEnds, StopRest
<1>22. CASE UNCHANGED vars
  BY <1>22
<1>23. QED
  BY <1>1, <1>2, <1>3, <1>4, <1>5, <1>6, <1>7, <1>8, <1>9, <1>10, <1>11, <1>12, <1>13,
     <1>14, <1>15, <1>16, <1>17, <1>18, <1>19, <1>20, <1>21, <1>22 DEF Next, Start,
     Stop

\* The number of a frame is a natural number.
LEMMA FrameFacts ==
  ASSUME NEW f \in Frames
  PROVE  f.number \in Nat /\ f.run \in 1 .. MaxRuns
BY NumbersAssumption DEF Frames

\* Every step keeps frames of other runs out.
LEMMA FrameStep ==
  ASSUME Inv, [Next]_vars
  PROVE  FrameInv'
<1> USE NoneIsNoFrame, NumbersAssumption
    DEF Inv, TypeOK, ThreadInv, FrameInv, FramesOfThisRun, Frames, StartSteps, StopSteps,
        UntilServerJoined, UntilCaptureJoined, UntilEncoderJoined,
        vars, objectVars, healthVars, captureVars, encoderVars, storeVars, routeVars
<1>1. CASE StartApplication
  BY <1>1 DEF StartApplication, Object, ClearStores
<1>2. CASE StartServer
  BY <1>2 DEF StartServer, Object
<1>3. CASE ConnectCamera
  BY <1>3 DEF ConnectCamera, Degrades, In
<1>4. CASE StartStream
  BY <1>4 DEF StartStream, Degrades, In
<1>5. CASE StartEncoder
  BY <1>5 DEF StartEncoder, Degrades
<1>6. CASE StartCapture
  BY <1>6 DEF StartCapture, Degrades
<1>7. CASE StartPilot
  BY <1>7 DEF StartPilot, Object
<1>8. CASE Capture
  BY <1>8 DEF Capture, CaptureLoops, CaptureRest, CaptureReads, CapturePublishes,
     Newer, CaptureSubmits, CaptureFails, CaptureReports, CaptureTells, Tell
<1>9. CASE Encoder
  BY <1>9 DEF Encoder, EncoderLoops, Newer, EncoderRest, EncoderPublishes, EncoderEnds
<1>10. CASE RouteBegins \/ RouteEnds \/ RecordingWorker
  BY <1>10 DEF RouteEnds, RouteBegins, RouteRest, HealthRoute, RecordingRoute,
     RecordingWorker, EndRecording, In, QueryRoute
<1>11. CASE StopApplication
  BY <1>11 DEF StopApplication
<1>12. CASE TellStopping
  BY <1>12 DEF TellStopping, Tell, StopRest
<1>13. CASE StopClient
  BY <1>13 DEF StopClient, In, StopRest
<1>14. CASE StopServer
  BY <1>14 DEF StopServer, In, StopRest
<1>15. CASE JoinServer
  BY <1>15 DEF JoinServer, In, StopRest
<1>16. CASE JoinCapture
  BY <1>16 DEF JoinCapture, StopRest
<1>17. CASE JoinEncoder
  BY <1>17 DEF JoinEncoder, StopRest
<1>18. CASE Finalize
  BY <1>18 DEF Finalize, In, StopRest
<1>19. CASE StopCamera
  BY <1>19 DEF StopCamera, In, StopRest
<1>20. CASE StopClears
  BY <1>20 DEF StopClears, ClearStores, StopRest
<1>21. CASE StopEnds
  BY <1>21 DEF StopEnds, StopRest
<1>22. CASE UNCHANGED vars
  BY <1>22
<1>23. QED
  BY <1>1, <1>2, <1>3, <1>4, <1>5, <1>6, <1>7, <1>8, <1>9, <1>10, <1>11, <1>12, <1>13,
     <1>14, <1>15, <1>16, <1>17, <1>18, <1>19, <1>20, <1>21, <1>22 DEF Next, Start,
     Stop

\* Every step keeps the Pilot client told.
LEMMA ToldStep ==
  ASSUME Inv, [Next]_vars
  PROVE  ToldInv'
<1> USE DEF Inv, TypeOK, ThreadInv, ObjectInv, ClientStarted, ToldInv, PilotIsTold,
        LockFree, StartSteps, StopSteps,
        UntilServerJoined, UntilCaptureJoined, UntilEncoderJoined,
        vars, objectVars, healthVars, captureVars, encoderVars, storeVars, routeVars
<1>1. CASE StartApplication
  BY <1>1 DEF StartApplication, Object, ClearStores
<1>2. CASE StartServer
  BY <1>2 DEF StartServer, Object
<1>3. CASE ConnectCamera
  BY <1>3 DEF ConnectCamera, Degrades, In
<1>4. CASE StartStream
  BY <1>4 DEF StartStream, Degrades, In
<1>5. CASE StartEncoder
  BY <1>5 DEF StartEncoder, Degrades
<1>6. CASE StartCapture
  BY <1>6 DEF StartCapture, Degrades
<1>7. CASE StartPilot
  BY <1>7 DEF StartPilot, Object
<1>8. CASE Capture
  BY <1>8 DEF Capture, CaptureLoops, CaptureRest, CaptureReads, CapturePublishes,
     Newer, CaptureSubmits, CaptureFails, CaptureReports, CaptureTells, Tell
<1>9. CASE Encoder
  BY <1>9 DEF Encoder, EncoderLoops, Newer, EncoderRest, EncoderPublishes, EncoderEnds
<1>10. CASE RouteBegins \/ RouteEnds \/ RecordingWorker
  BY <1>10 DEF RouteEnds, RouteBegins, RouteRest, HealthRoute, RecordingRoute,
     RecordingWorker, EndRecording, In, QueryRoute
<1>11. CASE StopApplication
  BY <1>11 DEF StopApplication
<1>12. CASE TellStopping
  BY <1>12 DEF TellStopping, Tell, StopRest
<1>13. CASE StopClient
  BY <1>13 DEF StopClient, In, StopRest
<1>14. CASE StopServer
  BY <1>14 DEF StopServer, In, StopRest
<1>15. CASE JoinServer
  BY <1>15 DEF JoinServer, In, StopRest
<1>16. CASE JoinCapture
  BY <1>16 DEF JoinCapture, StopRest
<1>17. CASE JoinEncoder
  BY <1>17 DEF JoinEncoder, StopRest
<1>18. CASE Finalize
  BY <1>18 DEF Finalize, In, StopRest
<1>19. CASE StopCamera
  BY <1>19 DEF StopCamera, In, StopRest
<1>20. CASE StopClears
  BY <1>20 DEF StopClears, ClearStores, StopRest
<1>21. CASE StopEnds
  BY <1>21 DEF StopEnds, StopRest
<1>22. CASE UNCHANGED vars
  BY <1>22
<1>23. QED
  BY <1>1, <1>2, <1>3, <1>4, <1>5, <1>6, <1>7, <1>8, <1>9, <1>10, <1>11, <1>12, <1>13,
     <1>14, <1>15, <1>16, <1>17, <1>18, <1>19, <1>20, <1>21, <1>22 DEF Next, Start,
     Stop

\* Every step keeps the last answer no newer than the latest frame.
LEMMA ServedStep ==
  ASSUME Inv, [Next]_vars
  PROVE  ServedInv'
<1> USE NoneIsNoFrame, NumbersAssumption, RunsAssumption
    DEF Inv, TypeOK, ThreadInv, ObjectInv, FrameInv, FramesOfThisRun, ServedInv, Frames,
        StartSteps, StopSteps,
        UntilServerJoined, UntilCaptureJoined, UntilEncoderJoined,
        vars, objectVars, healthVars, captureVars, encoderVars, storeVars, routeVars
<1>1. CASE StartApplication
  BY <1>1 DEF StartApplication, Object, ClearStores
<1>2. CASE StartServer
  BY <1>2 DEF StartServer, Object
<1>3. CASE ConnectCamera
  BY <1>3 DEF ConnectCamera, Degrades, In
<1>4. CASE StartStream
  BY <1>4 DEF StartStream, Degrades, In
<1>5. CASE StartEncoder
  BY <1>5 DEF StartEncoder, Degrades
<1>6. CASE StartCapture
  BY <1>6 DEF StartCapture, Degrades
<1>7. CASE StartPilot
  BY <1>7 DEF StartPilot, Object
<1>8. CASE CaptureLoops \/ CaptureReads
  BY <1>8 DEF CaptureLoops, CaptureRest, CaptureReads
<1>9. CASE CapturePublishes
  <2>1. got \in Frames /\ got.run = run /\ got # None /\ got.number \in Nat
    BY <1>9, FrameFacts DEF CapturePublishes
  <2>2. ASSUME store # None
        PROVE  store' # None /\ store'.number \in Nat /\ store'.number >= store.number
    <3>1. store.number \in Nat
      BY <2>2, FrameFacts
    <3>2. CASE got.number > store.number
      BY <1>9, <2>1, <2>2, <3>1, <3>2 DEF CapturePublishes, Newer
    <3>3. CASE ~(got.number > store.number)
      BY <1>9, <2>1, <2>2, <3>1, <3>3 DEF CapturePublishes, Newer
    <3>4. QED
      BY <3>2, <3>3
  <2>3. run' = run /\ main' = main /\ served' = served
    BY <1>9 DEF CapturePublishes, CaptureRest
  <2>4. ASSUME served # None, served.run = run, main \notin {"unlisten", "idle"}
        PROVE  store' # None /\ store'.number >= served.number
    <3>1. store # None /\ store.number >= served.number
      BY <2>4
    <3>2. served.number \in Nat /\ store.number \in Nat
      BY <2>4, <3>1, FrameFacts
    <3>3. QED
      BY <2>2, <3>1, <3>2
  <2>5. QED
    BY <2>3, <2>4
<1>10. CASE CaptureSubmits \/ CaptureFails \/ CaptureReports \/ CaptureTells
  BY <1>10 DEF CaptureSubmits, CaptureRest, CaptureFails, CaptureReports,
     CaptureTells, Tell
<1>11. CASE Encoder
  BY <1>11 DEF Encoder, EncoderLoops, Newer, EncoderRest, EncoderPublishes,
     EncoderEnds
<1>12. CASE RouteBegins \/ HealthRoute \/ RecordingRoute \/ RecordingWorker
  BY <1>12 DEF RouteBegins, RouteRest, HealthRoute, RecordingRoute, RecordingWorker
<1>13. CASE QueryRoute
  <2>1. route = "query" /\ main \notin {"unlisten", "idle"}
    BY <1>13 DEF QueryRoute
  <2>2. CASE store # None /\ served' = store
    <3>1. store \in Frames /\ store.run = run /\ store.number \in Nat
      BY <2>2, FrameFacts
    <3>2. store' = store /\ run' = run /\ main' = main
      BY <1>13 DEF QueryRoute, RouteRest
    <3>3. QED
      BY <2>2, <3>1, <3>2
  <2>3. CASE UNCHANGED served
    BY <1>13, <2>3 DEF QueryRoute, RouteRest
  <2>4. QED
    BY <1>13, <2>2, <2>3 DEF QueryRoute
<1>14. CASE StopApplication
  BY <1>14 DEF StopApplication
<1>15. CASE TellStopping
  BY <1>15 DEF TellStopping, Tell, StopRest
<1>16. CASE StopClient
  BY <1>16 DEF StopClient, In, StopRest
<1>17. CASE StopServer
  BY <1>17 DEF StopServer, In, StopRest
<1>18. CASE JoinServer
  BY <1>18 DEF JoinServer, In, StopRest
<1>19. CASE JoinCapture
  BY <1>19 DEF JoinCapture, StopRest
<1>20. CASE JoinEncoder
  BY <1>20 DEF JoinEncoder, StopRest
<1>21. CASE Finalize
  BY <1>21 DEF Finalize, In, StopRest
<1>22. CASE StopCamera
  BY <1>22 DEF StopCamera, In, StopRest
<1>23. CASE StopClears
  BY <1>23 DEF StopClears, ClearStores, StopRest
<1>24. CASE StopEnds
  BY <1>24 DEF StopEnds, StopRest
<1>25. CASE UNCHANGED vars
  BY <1>25
<1>26. QED
  BY <1>1, <1>2, <1>3, <1>4, <1>5, <1>6, <1>7, <1>8, <1>9, <1>10, <1>11, <1>12, <1>13,
     <1>14, <1>15, <1>16, <1>17, <1>18, <1>19, <1>20, <1>21, <1>22, <1>23, <1>24,
     <1>25 DEF Next, Start, Stop, Capture, RouteEnds

-----------------------------------------------------------------------------
(***************************************************************************)
(* Theorems.                                                               *)
(***************************************************************************)
\* The invariant holds throughout, whatever the interleaving of the main,
\* capture, encoder and I/O threads and whichever step of startApplication
\* fails.
THEOREM Invariance == Spec => []Inv
<1>1. Inv /\ [Next]_vars => Inv'
  BY TypeStep, ThreadStep, ObjectStep, FrameStep, ToldStep, ServedStep DEF Inv
<1>2. QED
  BY InitInv, <1>1, PTL DEF Spec

\* VisionApplication is type correct, and m_mutex is held exactly while
\* startApplication runs.
THEOREM TypeCorrect == Spec => []TypeOK
<1>1. Inv => TypeOK
  BY DEF Inv
<1>2. QED
  BY Invariance, <1>1, PTL

\* The capture, encoder and I/O threads use objects of their own run that are
\* in service, although they read the pointers without m_mutex.
THEOREM LiveObjects == Spec => []UsesLiveObjects
<1>1. Inv => UsesLiveObjects
  BY DEF Inv, TypeOK, ThreadInv, ObjectInv, UsesLiveObjects, Ours, LockFree, StartSteps,
         StopSteps, UntilServerJoined, UntilCaptureJoined, UntilEncoderJoined
<1>2. QED
  BY Invariance, <1>1, PTL

\* Between two runs of the application no thread, route, server or client is
\* left, and no frame: what the stop's joins and clears are for.
THEOREM Quiet == Spec => []QuietAtRest
<1>1. Inv => QuietAtRest
  BY DEF Inv, TypeOK, ThreadInv, ObjectInv, ClientStarted, FrameInv, QuietAtRest,
         StartSteps, StopSteps,
         UntilServerJoined, UntilCaptureJoined, UntilEncoderJoined
<1>2. QED
  BY Invariance, <1>1, PTL

\* FrameStore and EncodedPreviewCache never hold a frame of an earlier run.
THEOREM OwnFrames == Spec => []FramesOfThisRun
<1>1. Inv => FramesOfThisRun
  BY DEF Inv, FrameInv
<1>2. QED
  BY Invariance, <1>1, PTL

\* Until the application is stopped, the Pilot client has been told the
\* provider state, or is about to be.
THEOREM Told == Spec => []PilotIsTold
<1>1. Inv => PilotIsTold
  BY DEF Inv, ToldInv
<1>2. QED
  BY Invariance, <1>1, PTL

\* Only a query changes the last answer, and its frame is newer than an
\* earlier answer of the same run.
LEMMA AnswerStep ==
  ASSUME Inv, [Next]_vars, served' # served, served # None, served.run = served'.run
  PROVE  served'.number > served.number
<1> USE DEF vars, objectVars, healthVars, captureVars, encoderVars, storeVars, routeVars
<1>1. QueryRoute
  BY DEF Next, StartApplication, Start, StartServer, ConnectCamera, StartStream,
         StartEncoder, StartCapture, StartPilot, Capture, CaptureLoops, CaptureReads,
         CapturePublishes, CaptureSubmits, CaptureFails, CaptureReports, CaptureTells,
         CaptureRest, Encoder, EncoderLoops, EncoderPublishes, EncoderEnds, EncoderRest,
         RouteBegins, RouteEnds, HealthRoute, RecordingRoute, RecordingWorker, RouteRest,
         StopApplication, Stop, TellStopping, StopClient, StopServer, JoinServer, JoinCapture,
         JoinEncoder, Finalize, StopCamera, StopClears, StopEnds, StopRest
<1>2. store # None /\ served' = store
  BY <1>1 DEF QueryRoute
<1>3. main \notin {"unlisten", "idle"}
  BY <1>1 DEF QueryRoute, Inv, TypeOK, ThreadInv, ObjectInv, StopSteps, UntilServerJoined
<1>4. store \in Frames /\ served \in Frames /\ store.run = run
  BY <1>2 DEF Inv, TypeOK, FrameInv, FramesOfThisRun
<1>5. store.number >= served.number
  BY <1>2, <1>3, <1>4 DEF Inv, ServedInv
<1>6. store.number # served.number
  BY <1>2, <1>4 DEF Frames
<1>7. QED
  BY <1>2, <1>4, <1>5, <1>6, FrameFacts

\* Within a run, the frames that queries are answered with never go back.
THEOREM Forward == Spec => AnswersGoForward
<1>1. Inv /\ [Next]_vars
        => [served' # served /\ served # None /\ served.run = served'.run
              => served'.number > served.number]_vars
  BY AnswerStep
<1>2. QED
  BY Invariance, <1>1, PTL DEF Spec, AnswersGoForward
=============================================================================
