---------------------------- MODULE VisionEndpoints ----------------------------
(***************************************************************************)
(* What the provider says it serves, in two places that are written         *)
(* independently of its routes: the catalog it publishes to the Pilot       *)
(* (src/pilot/vision_endpoint_catalog.cpp, checked by                       *)
(* src/pilot/pilot_contract_codec.cpp) and the list in its metadata         *)
(* (makeMetadataJson, src/runtime/vision_application.cpp).                  *)
(***************************************************************************)
EXTENDS VisionConfig, SequencesExt

\* makeEndpoint: the target of a URL under the advertised base, whose own trailing
\* slash is dropped.
MakeEndpoint(base, path) ==
  (IF base.path # <<>> /\ Last(base.path) = "/" THEN Front(base.path) ELSE base.path) \o <<path>>

MakeService(c, id, capability, path, method) ==
  [id |-> id, kind |-> "service", capability |-> capability, method |-> method,
   target |-> MakeEndpoint(c.provider.advertised_base_url, path)]

\* A stream has no method: it is asked for with GET.
MakeStream(c, id, capability, path) ==
  [id |-> id, kind |-> "stream", capability |-> capability, method |-> "GET",
   target |-> MakeEndpoint(c.provider.advertised_base_url, path)]

\* What buildCatalog lists for every camera, for one with color, and with recording.
CameraEndpoints(c) == <<
  MakeService(c, "health", "camera.health.get", "/health", "GET"),
  MakeService(c, "metadata", "camera.metadata.get", "/metadata", "GET"),
  MakeStream(c, "depth-preview", "camera.stream.depth.preview", "/stream/depth.mjpg"),
  MakeService(c, "depth-snapshot", "camera.snapshot.depth.preview", "/snapshot/depth", "GET"),
  MakeService(c, "roi-depth", "camera.query.roi_depth", "/query/roi_depth", "POST"),
  MakeService(c, "pixel-to-point", "camera.query.pixel_to_point", "/query/pixel_to_point", "POST"),
  MakeService(c, "pointcloud-binary", "camera.snapshot.pointcloud", "/snapshot/pointcloud.bin", "GET")>>
ColorEndpoints(c) == <<
  MakeStream(c, "color-preview", "camera.stream.color.preview", "/stream/color.mjpg"),
  MakeService(c, "color-snapshot", "camera.snapshot.color", "/snapshot/color", "GET")>>
RecordingEndpoints(c) == <<
  MakeService(c, "recording-start", "camera.recording.start", "/recordings/start", "POST"),
  MakeService(c, "recording-stop", "camera.recording.stop", "/recordings/stop", "POST"),
  MakeService(c, "recording-current", "camera.recording.current", "/recordings/current", "GET")>>

\* buildCatalog, before std::sort.
BuildCatalog(c) ==
  CameraEndpoints(c) \o (IF IsColorEnabled(c) THEN ColorEndpoints(c) ELSE <<>>)
                     \o (IF c.recording.enabled THEN RecordingEndpoints(c) ELSE <<>>)

\* Mutant of MetadataEndpoints: the color endpoints are listed whatever the camera.
MetadataOfAnyCamera(c) ==
  {"/health", "/metadata", "/stream/depth.mjpg", "/snapshot/depth", "/query/roi_depth",
   "/query/pixel_to_point", "/snapshot/pointcloud.bin", "/stream/color.mjpg", "/snapshot/color"}
  \cup (IF c.recording.enabled
        THEN {"/recordings/start", "/recordings/stop", "/recordings/current"} ELSE {})

\* makeMetadataJson: the paths, with no base.
MetadataEndpoints(c) ==
  {"/health", "/metadata", "/stream/depth.mjpg", "/snapshot/depth", "/query/roi_depth",
   "/query/pixel_to_point", "/snapshot/pointcloud.bin"}
  \cup (IF IsColorEnabled(c) THEN {"/stream/color.mjpg", "/snapshot/color"} ELSE {})
  \cup (IF c.recording.enabled
        THEN {"/recordings/start", "/recordings/stop", "/recordings/current"} ELSE {})

\* validateIdentifier
IsIdentifier(text) == text.shape \notin {"empty", "long"}

\* serializeRegistrationRequest and serializeCatalogPublicationRequest do not throw:
\* what was sorted is strictly increasing.
SerializesRegistration(c) ==
  /\ IsIdentifier(c.component_id)
  /\ c.pilot.clock_domain = "monotonic_same_host"
  /\ IsInjective([i \in DOMAIN BuildCatalog(c) |-> BuildCatalog(c)[i].capability])
SerializesCatalog(c) ==
  /\ IsInjective([i \in DOMAIN BuildCatalog(c) |-> BuildCatalog(c)[i].id])
  /\ \A i \in DOMAIN BuildCatalog(c) : BuildCatalog(c)[i].target # <<>>
===============================================================================
