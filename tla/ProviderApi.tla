------------------------------ MODULE ProviderApi ------------------------------
(***************************************************************************)
(* The provider from its configuration document to its answers: the         *)
(* document is parsed, the objects startApplication builds check it again,  *)
(* the camera gives frames, and every request goes through                  *)
(* HttpSession::handleRead (src/provider/http/provider_http_server.cpp) to  *)
(* a route of startApplication (src/runtime/vision_application.cpp).        *)
(* Only the values count here: the steps of the threads in between are in   *)
(* VisionApplication, PreviewPipeline and ProviderHttpServer, what becomes   *)
(* of a recording in RecordingManager, and of a registration in             *)
(* PilotIntegrationClient.  A handler of this module is one step, and a     *)
(* request is answered at once: everything else happens between requests.   *)
(***************************************************************************)
EXTENDS VisionEndpoints, CameraFrames, Pcd1

CONSTANTS
  Documents,               \* the configuration documents
  Requests,                \* the requests clients make
  POINTCLOUD_MAX_POINTS,
  MaxNumber,               \* bound: the frames of the fake camera
  MaxDeviceNumber,         \* bound: the last frame number of the D435
  MaxTimeouts,             \* bound: the failed reads
  None

ASSUME BoundAssumption ==
  POINTCLOUD_MAX_POINTS \in Nat \ {0} /\ {MaxNumber, MaxDeviceNumber, MaxTimeouts} \subseteq Nat

\* The limits of the code, 4096 pixels and 100000 points, at most; a std::int64_t has
\* eight bytes, and holds the number and the time of the last frame.
ASSUME WordsAssumption ==
  /\ MaxSide <= 4096 /\ POINTCLOUD_MAX_POINTS <= 100000 /\ Shifted(Int64Max)[7] < 128
  /\ (MaxStart + MaxNumber) * MICROSECONDS_PER_SECOND <= Int64Max /\ MaxDeviceNumber <= Int64Max

\* The numbers of a document fit their types, its angles are whole quarter turns, and
\* the path of a URL is one name after another.
NumbersFit(o) ==
  \A key \in DOMAIN o :
    /\ o[key].type = "int64"  => o[key].v \in -Int64Max - 1 .. Int64Max
    /\ o[key].type = "uint64" => o[key].v \in 0 .. 2 * Int64Max + 1
AnglesFit(o) == \A key \in {"r1", "r2", "r3"} : IsFiniteNumber(o, key) => o[key].v \in QuarterTurns
PathFits(o, key) == IsText(o, key) => o[key].v.path \in Seq(STRING)

ASSUME DocumentsAssumption ==
  \A d \in Documents : \A section \in DOMAIN d :
    IsObject(d, section) =>
      /\ NumbersFit(d[section].v) /\ PathFits(d[section].v, "advertised_base_url")
      /\ \A key \in DOMAIN d[section].v :
           IsObject(d[section].v, key) => NumbersFit(d[section].v[key].v) /\ AnglesFit(d[section].v[key].v)

\* So is a target, and parsePixelRequest and parseRoiRequest give integers.
ASSUME RequestsAssumption ==
  \A request \in Requests :
    /\ request.target \in Seq(STRING)
    /\ request.target = <<"/query/pixel_to_point">> /\ request.body.shape = "ok" =>
         {request.body.x, request.body.y} \subseteq Int
    /\ request.target = <<"/query/roi_depth">> /\ request.body.shape = "ok" =>
         {request.body.x, request.body.y, request.body.width, request.body.height} \subseteq Int

VARIABLES
  doc,         \* the document the process was started with, until it is parsed
  phase,       \* of the process
  config,      \* m_config
  refusals,    \* what refused the configuration after it was parsed
  state,       \* m_health.state
  camera,      \* m_p_adapter
  frame,       \* m_frame_store, and whether the frame is fresh
  preview,     \* m_preview_cache: for each kind the identity, and whether it is fresh
  encoded,     \* last_encoded_identity of the encoder thread
  advertised,  \* the catalog the Pilot was sent
  exchange     \* the request that was answered, and the answer

vars == <<doc, phase, config, refusals, state, camera, frame, preview, encoded, advertised, exchange>>

POINTCLOUD_STRIDE_PIXELS == 1
Kinds == {"COLOR", "DEPTH"}
NoPreviews == [k \in Kinds |-> None]

Init ==
  /\ doc \in Documents
  /\ phase = "boot" /\ config = None /\ refusals = {} /\ state = "STARTING"
  /\ camera = NewCamera /\ frame = None /\ preview = NoPreviews /\ encoded = None
  /\ advertised = None /\ exchange = None

-----------------------------------------------------------------------------
(***************************************************************************)
(* From the document to the running application.                            *)
(***************************************************************************)
ParseConfig ==
  /\ phase = "boot"
  /\ IF ParsesConfig(doc)
     THEN phase' = "parsed" /\ config' = VisionConfigOf(doc)
     ELSE phase' = "rejected" /\ UNCHANGED config
  /\ doc' = None
  /\ UNCHANGED <<refusals, state, camera, frame, preview, encoded, advertised, exchange>>

\* buildCameraMountTransform
BuildsMountTransform(c) ==
  /\ \A text \in c.calibration : text.shape # "empty"
  /\ Len(c.pose.axes) = 3 /\ \A i \in 1 .. 3 : c.pose.axes[i] \in Axes
  /\ ValidMatrix(MountFromCameraOptical(c.pose))

\* The constructor of the adapter.
BuildsAdapter(c) ==
  IF c.adapter = "fake" THEN c.camera.width > 0 /\ c.camera.height > 0 /\ c.camera.fps > 0
  ELSE ValidIntelD435AdapterConfig(c.camera)

\* The constructors of RecordingManager and RecordingStore.
BuildsRecordingManager(c) ==
  /\ c.recording.root = "absolute"
  /\ c.recording.queue_capacity_frames > 0 /\ c.recording.max_duration_ms > 0
  /\ c.recording.minimum_free_bytes > 0 /\ c.recording.finalize_timeout_ms > 0
  /\ c.recording.preset = "veryfast" /\ c.recording.tune = "zerolatency"
  /\ \A text \in c.calibration \cup {c.device_id, c.component_id} : text.shape # "empty"

\* ColorVideoWriter::initialize, at every start of a recording.
BuildsWriter(c) ==
  LET profile == ColorProfile(c) IN
  /\ profile.width > 0 /\ profile.height > 0 /\ profile.fps > 0
  /\ profile.width % 2 = 0 /\ profile.height % 2 = 0
  /\ c.recording.bit_rate_bps > 0
  /\ c.recording.preset = "veryfast" /\ c.recording.tune = "zerolatency"

\* The constructor of PilotHttpTransport, parseBaseUrl included.
BuildsTransport(c) ==
  /\ c.pilot.base_url.scheme = "http" /\ c.pilot.base_url.marks \cap {"@", "?", "#"} = {}
  /\ c.pilot.base_url.host # "" /\ c.pilot.base_url.port \in 1 .. MAX_PORT
  /\ c.pilot.connect_timeout_ms > 0 /\ c.pilot.max_response_bytes > 0
  /\ c.pilot.request_timeout_ms > 0 /\ c.pilot.shutdown_timeout_ms > 0

\* What makes startApplication throw, whatever the machine it runs on.
StartRefusals(c) ==
  {check \in {"mount", "adapter", "recording", "bind_host", "transport"} :
     CASE check = "mount"     -> ~BuildsMountTransform(c)
       [] check = "adapter"   -> ~BuildsAdapter(c)
       [] check = "recording" -> c.recording.enabled /\ ~BuildsRecordingManager(c)
       [] check = "bind_host" -> c.provider.bind_host # "address"  \* asio::ip::make_address
       [] check = "transport" -> c.pilot.enabled /\ ~BuildsTransport(c)}

FirstNumber(c) == IF c.adapter = "fake" THEN c.camera.start_frame_number - 1 ELSE 0

\* The fake camera always connects.  A D435 may not be there (degraded, with no
\* thread), or connect and then not stream.
StartApplication ==
  /\ phase = "parsed"
  /\ refusals' = StartRefusals(config)
  /\ IF refusals' # {}
     THEN phase' = "refused" /\ UNCHANGED <<state, camera>>
     ELSE /\ phase' = "running"
          /\ \/ /\ camera' = StartStream(ConnectCamera(NewCamera), FirstNumber(config))
                /\ state' = "READY"
             \/ /\ config.adapter = "intel_d435"
                /\ camera' \in {NewCamera, ConnectCamera(NewCamera)}
                /\ state' = "DEGRADED"
  /\ UNCHANGED <<doc, config, frame, preview, encoded, advertised, exchange>>

\* The client's worker registers and publishes.  Nothing catches what
\* serializeRegistrationRequest throws, and the process ends; what
\* serializeCatalogPublicationRequest throws is retried for ever.
PilotRegisters ==
  /\ phase = "running" /\ exchange = None
  /\ config.pilot.enabled /\ advertised = None
  /\ IF SerializesRegistration(config) /\ SerializesCatalog(config)
     THEN advertised' = BuildCatalog(config) /\ UNCHANGED <<phase, refusals>>
     ELSE /\ refusals' = refusals \cup {"pilot"}
          /\ phase' = IF SerializesRegistration(config) THEN phase ELSE "terminated"
          /\ UNCHANGED advertised
  /\ UNCHANGED <<doc, config, state, camera, frame, preview, encoded, exchange>>

-----------------------------------------------------------------------------
(***************************************************************************)
(* Frames.                                                                 *)
(***************************************************************************)
Newer(f, g) ==
  g # None => \/ f.generation > g.generation
              \/ f.generation = g.generation /\ f.number > g.number

\* The frames readFrame may give next.  The D435's numbers are the device's, in any order.
NextFrames ==
  IF config.adapter = "fake"
  THEN {FakeFrame(DepthProfile(config), config.camera.pattern_seed, camera.generation,
                  camera.number + 1)}
  ELSE {D435Frame(DepthProfile(config), camera.generation, number,
                  [i \in Indices(DepthProfile(config)) |-> depth]) :
          number \in 1 .. MaxDeviceNumber, depth \in {0, 1500}}

LastNumber(c) == IF c.adapter = "fake" THEN FirstNumber(c) + MaxNumber ELSE MaxDeviceNumber

\* readFrame and publishFrame: a frame that is not newer is dropped.
CaptureFrame ==
  /\ phase = "running" /\ exchange = None /\ camera.streaming
  /\ camera.number < LastNumber(config)
  /\ \E f \in NextFrames :
       /\ camera' = FrameRead(camera, f.identity.number)
       /\ frame' = IF frame = None \/ Newer(f.identity, frame.captured.identity)
                   THEN [captured |-> f, fresh |-> TRUE] ELSE frame
  /\ UNCHANGED <<doc, phase, config, refusals, state, preview, encoded, advertised, exchange>>

\* The D435's readFrame fails.
CaptureFails ==
  /\ phase = "running" /\ exchange = None /\ camera.streaming /\ config.adapter = "intel_d435"
  /\ camera.timeouts < MaxTimeouts
  /\ camera' = ReadTimedOut(camera)
  /\ state' = "DEGRADED"
  /\ UNCHANGED <<doc, phase, config, refusals, frame, preview, encoded, advertised, exchange>>

\* The encoder takes the latest frame and publishes its previews.  One may be missing:
\* the frame has no color, the D435's depth could not be colorized, or encoding failed.
\* There is one generation, so that invalidateGeneration drops nothing.
EncodePreviews ==
  /\ phase = "running" /\ exchange = None
  /\ frame # None /\ Newer(frame.captured.identity, encoded)
  /\ encoded' = frame.captured.identity
  /\ \E views \in SUBSET (IF IsColorEnabled(config) THEN Kinds ELSE {"DEPTH"}) :
       preview' = [k \in Kinds |-> IF k \in views THEN [identity |-> encoded', fresh |-> TRUE]
                                   ELSE preview[k]]
  /\ UNCHANGED <<doc, phase, config, refusals, state, camera, frame, advertised, exchange>>

\* max_frame_age_ms passes with no new frame, or no new preview.
FrameAges ==
  /\ exchange = None /\ frame # None /\ frame.fresh
  /\ frame' = [frame EXCEPT !.fresh = FALSE]
  /\ UNCHANGED <<doc, phase, config, refusals, state, camera, preview, encoded, advertised, exchange>>
PreviewAges ==
  /\ exchange = None
  /\ \E k \in Kinds :
       /\ preview[k] # None /\ preview[k].fresh
       /\ preview' = [preview EXCEPT ![k].fresh = FALSE]
  /\ UNCHANGED <<doc, phase, config, refusals, state, camera, frame, encoded, advertised, exchange>>

-----------------------------------------------------------------------------
(***************************************************************************)
(* Requests.  A request has a method, a target, an Origin (or None) and a   *)
(* body, whose shape is "ok" or says what is wrong with it.                 *)
(***************************************************************************)
Error(status, code) == [status |-> status, code |-> code]
Answered(status) == [status |-> status, code |-> "ok"]
Answer(result) == [status |-> 200, code |-> "ok", result |-> result]
NoFreshFrame == Error(503, "no_fresh_frame")
InvalidRequest == Error(400, "invalid_request")
QueryFailed == Error(409, "query_failed")
ProviderFailure == Error(500, "provider_failure")

\* acquireFreshFrame
FreshFrame == IF frame # None /\ frame.fresh THEN frame.captured ELSE None

Mount == MountFromCameraOptical(config.pose)

\* A record with one more field.
WithField(record, name, value) ==
  [field \in DOMAIN record \cup {name} |-> IF field = name THEN value ELSE record[field]]

\* The serializers add the point in the mount frame.
Serialized(result, point) ==
  IF ValidMatrix(Mount)
  THEN Answer(WithField(result, "mountPoint", TransformCameraPointToMount(point, Mount)))
  ELSE QueryFailed

\* parseRoiRequest and parsePixelRequest return: an object with as many fields as
\* there should be, these among them, and each of them an int.
Parses(body) == body.shape = "ok"

IsPixelRequestValid(body, profile) ==
  body.x >= 0 /\ body.y >= 0 /\ body.x < profile.width /\ body.y < profile.height

PostPixelPoint(body) ==
  IF ~Parses(body) THEN InvalidRequest
  ELSE IF FreshFrame = None THEN NoFreshFrame
  ELSE IF ~IsPixelRequestValid(body, FreshFrame.profile) THEN InvalidRequest
  ELSE LET result == QueryPixelPoint(FreshFrame, body.x, body.y)
       IN IF result.valid THEN Serialized(result, result.point) ELSE Answer(result)

\* Mutant of IsRoiRequestValid: a region of no width is accepted.
IsRoiRequestInside(body, profile) ==
  /\ body.x >= 0 /\ body.y >= 0 /\ body.x < profile.width /\ body.y < profile.height
  /\ body.width * body.height <= profile.width * profile.height

IsRoiRequestValid(body, profile) ==
  /\ body.x >= 0 /\ body.y >= 0 /\ body.width > 0 /\ body.height > 0
  /\ body.x < profile.width /\ body.y < profile.height
  /\ body.width * body.height <= profile.width * profile.height

PostRoiDepth(body) ==
  IF ~Parses(body) THEN {InvalidRequest}
  ELSE IF FreshFrame = None THEN {NoFreshFrame}
  ELSE IF ~IsRoiRequestValid(body, FreshFrame.profile) THEN {InvalidRequest}
  ELSE {IF Throws(result) THEN QueryFailed ELSE Serialized(result, result.medianPoint) :
          result \in QueryDepthInRoi(FreshFrame, Roi(body.x, body.y, body.width, body.height))}

\* The cloud with the matrix of its mount.
WithMount(cloud) == WithField(cloud, "matrix", Matrix3x4(Mount))

\* What these throw reaches handleRead.
GetPointcloudSnapshot ==
  LET cloud == BuildPointCloudSnapshot(FreshFrame, POINTCLOUD_MAX_POINTS, POINTCLOUD_STRIDE_PIXELS)
      written == WritePcd1V2(WithMount(cloud))
  IN IF FreshFrame = None THEN NoFreshFrame
     ELSE IF Throws(cloud) \/ Throws(written) THEN ProviderFailure
     ELSE Answer(written)

GetSnapshot(k) ==
  IF preview[k] = None \/ ~preview[k].fresh THEN NoFreshFrame ELSE Answer(preview[k].identity)

\* startStream.  The limit is reached or not: see ProviderHttpServer.
StreamReplies(k) ==
  IF k = "COLOR" /\ ~IsColorEnabled(config) THEN {Error(409, "stream_disabled")}
  ELSE IF GetSnapshot(k) = NoFreshFrame THEN {NoFreshFrame}
  ELSE {GetSnapshot(k), Error(429, "stream_limit_reached")}

\* The recording routes.  A body that is no object, has another number of fields,
\* another schema version, device, calibration or profile, or an identifier that is not
\* safe is refused with invalid_argument; one that is not JSON, lacks a field or has
\* another type in it makes boost::json throw something else.  The rest is
\* RecordingManager's.
RecordingRefusal(body) ==
  IF body.shape \in {"not_object", "count", "mismatch", "unsafe"} THEN InvalidRequest
  ELSE Error(409, "recording_conflict")

PostRecordingStart(body) ==
  IF ~config.recording.enabled THEN {Error(503, "recording_disabled")}
  ELSE IF body.shape # "ok" THEN {RecordingRefusal(body)}
  ELSE IF ~BuildsWriter(config) THEN {InvalidRequest}
  ELSE {Answered(201), Answered(200), Error(409, "recording_conflict")}

PostRecordingStop(body) ==
  IF ~config.recording.enabled THEN {Error(503, "recording_disabled")}
  ELSE IF body.shape # "ok" THEN {RecordingRefusal(body)}
  ELSE {Answered(202), Answered(200), Error(404, "recording_not_found"),
        Error(409, "recording_conflict")}

GetHealth ==
  Answer([state |-> state, camera |-> camera, recording |-> config.recording.enabled])

PostRoutes == {"/query/roi_depth", "/query/pixel_to_point", "/recordings/start", "/recordings/stop"}

\* The routes handleRead knows, of those startApplication has filled in.
RouteReplies(path, body) ==
  CASE path = "/query/roi_depth"      -> PostRoiDepth(body)
    [] path = "/query/pixel_to_point" -> {PostPixelPoint(body)}
    [] path = "/recordings/start"     -> PostRecordingStart(body)
    [] path = "/recordings/stop"      -> PostRecordingStop(body)
    [] path = "/recordings/current"   -> {Answered(200)}
    [] path = "/health"               -> {GetHealth}
    [] path = "/metadata"             -> {Answer(MetadataEndpoints(config))}
    [] path = "/snapshot/color" /\ IsColorEnabled(config) -> {GetSnapshot("COLOR")}
    [] path = "/snapshot/depth"       -> {GetSnapshot("DEPTH")}
    [] path = "/snapshot/pointcloud.bin" -> {GetPointcloudSnapshot}
    [] OTHER                          -> {Error(404, "route_not_found")}

\* handleRead compares the whole target with each path.
Path(target) == IF Len(target) = 1 THEN target[1] ELSE "other"

Replies(request) ==
  LET path == Path(request.target)
      methodNotAllowed == {Error(405, "method_not_allowed")}
      streams == [p \in {"/stream/color.mjpg", "/stream/depth.mjpg"} |->
                    IF p = "/stream/color.mjpg" THEN "COLOR" ELSE "DEPTH"]
  IN IF request.origin # None /\ request.origin \notin config.origins
     THEN {Error(403, "cors_origin_denied")}
     ELSE IF request.method = "OPTIONS"
     THEN {IF request.origin = None THEN Error(403, "cors_origin_required") ELSE Answered(204)}
     ELSE IF request.method # (IF path \in PostRoutes THEN "POST" ELSE "GET")
     THEN methodNotAllowed
     ELSE IF path \in DOMAIN streams THEN StreamReplies(streams[path])
     ELSE RouteReplies(path, request.body)

HandleRequest ==
  /\ phase = "running" /\ exchange = None
  /\ \E request \in Requests : \E reply \in Replies(request) :
       exchange' = [request |-> request, reply |-> reply, captured |-> FreshFrame]
  /\ UNCHANGED <<doc, phase, config, refusals, state, camera, frame, preview, encoded, advertised>>

\* Every answer but a stream ends its session.
CloseSession ==
  /\ exchange # None
  /\ exchange' = None
  /\ UNCHANGED <<doc, phase, config, refusals, state, camera, frame, preview, encoded, advertised>>

StopApplication ==
  /\ phase = "running" /\ exchange = None
  /\ phase' = "stopped" /\ state' = "STOPPING"
  /\ camera' = DisconnectCamera(StopStream(camera))
  /\ frame' = None /\ preview' = NoPreviews
  /\ UNCHANGED <<doc, config, refusals, encoded, advertised, exchange>>

Next ==
  \/ ParseConfig \/ StartApplication \/ PilotRegisters
  \/ CaptureFrame \/ CaptureFails \/ EncodePreviews \/ FrameAges \/ PreviewAges
  \/ HandleRequest \/ CloseSession \/ StopApplication

Spec == Init /\ [][Next]_vars

-----------------------------------------------------------------------------
(***************************************************************************)
(* Properties.                                                             *)
(***************************************************************************)
\* A configuration parseVisionConfig accepts is refused by nothing that checks it
\* again: the mount transform, the adapter, the recording manager, the transport to
\* the Pilot and the messages to it at startup, and the video writer at a start of a
\* recording that is well formed.  The one exception is a bind_host that is no
\* address, which only startServer tries.
AcceptedConfigStarts ==
  /\ refusals \subseteq {"bind_host"}
  /\ phase # "terminated"
  /\ exchange # None =>
       ~(/\ exchange.request.target = <<"/recordings/start">>
         /\ exchange.request.body.shape = "ok"
         /\ exchange.reply = InvalidRequest)

\* The answers that say a resource is not served at all.
NotServed == {"route_not_found", "method_not_allowed", "stream_disabled", "recording_disabled"}

\* What the Pilot is told, what /metadata lists and what the routes serve are the same:
\* a request without an Origin is told its resource is not served exactly when it is no
\* descriptor of the catalog.  (/recordings/current alone is always served.)  The
\* advertised URL must have no path of its own, which the routes know nothing of.
AdvertisedIsServed ==
  advertised # None /\ config.provider.advertised_base_url.path \in {<<>>, <<"/">>} =>
    LET catalog == ToSet(advertised) IN
    /\ {d.target : d \in catalog} = {<<path>> : path \in MetadataEndpoints(config)}
    /\ exchange # None /\ exchange.request.origin = None /\ exchange.request.method # "OPTIONS"
         /\ exchange.request.target # <<"/recordings/current">> =>
         (exchange.reply.code \in NotServed <=>
            ~\E d \in catalog : /\ d.target = exchange.request.target
                                /\ d.method = exchange.request.method)

\* A request that passes the checks of its route is answered: no query throws
\* (query_failed), and no route does (provider_failure).
NoInternalError ==
  exchange # None => exchange.reply.code \notin {"query_failed", "provider_failure"}

\* The frame the last answer was computed from, the request and what it returned.
Queried(path) ==
  exchange # None /\ exchange.request.target = <<path>> /\ "result" \in DOMAIN exchange.reply

\* A query of the fake camera answers for the pixels that were asked for: the depth and
\* the point of the pixel, the count, extremes, sum and upper median of the valid pixels
\* of the region, and the points of the finest grid that fits, each with its own color.
\* Points in the mount frame are those the mount's rotations and translation give.
QueriesMatchReference ==
  LET body == exchange.request.body
      result == exchange.reply.result
      f == exchange.captured
      deproject(x, y) == Deproject(x, y, FakeDepth(x, y))
  IN exchange # None /\ exchange.captured # None /\ config.adapter = "fake" =>
       /\ Queried("/query/pixel_to_point") =>
            /\ result.valid <=> FakeDepth(body.x, body.y) > 0
            /\ result.valid =>
                 /\ result.point = deproject(body.x, body.y)
                 /\ result.mountPoint = PointInMount(config.pose, deproject(body.x, body.y))
       /\ Queried("/query/roi_depth") =>
            /\ RoiMatches(f.profile, body, result)
            /\ result.mountPoint =
                 PointInMount(config.pose,
                   IF result.valid THEN deproject(result.medianPixel[1], result.medianPixel[2])
                   ELSE <<0, 0, 0>>)
       /\ Queried("/snapshot/pointcloud.bin") =>
            CloudMatches(f.profile, f.identity.number, config.camera.pattern_seed,
                         POINTCLOUD_MAX_POINTS, ReadPcd1V2(result.bytes))

\* Reading a point cloud gives back what was written, and a payload that lost or gained
\* a byte is refused.
CloudRoundTrips ==
  Queried("/snapshot/pointcloud.bin") =>
    LET bytes == exchange.reply.result.bytes
        cloud == BuildPointCloudSnapshot(exchange.captured, POINTCLOUD_MAX_POINTS,
                                         POINTCLOUD_STRIDE_PIXELS)
    IN /\ ReadPcd1V2(bytes) = Readable(WithMount(cloud))
       /\ Throws(ReadPcd1V2(Append(bytes, 0))) /\ Throws(ReadPcd1V2(Front(bytes)))
===============================================================================
