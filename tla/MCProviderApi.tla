----------------------------- MODULE MCProviderApi -----------------------------
(***************************************************************************)
(* The documents and the requests ProviderApi is checked with: four         *)
(* accepted documents, and each of them with one field out of its range, at *)
(* an end of it, of another type, missing or unknown; mounts turned about   *)
(* three axes; and for every route requests that are right, wrong in one    *)
(* way, or on the border of the image.                                      *)
(***************************************************************************)
EXTENDS ProviderApi

Int64(v) == [type |-> "int64", v |-> v]
Double(v) == [type |-> "double", v |-> v]
Bool(v) == [type |-> "bool", v |-> v]
Text(v) == [type |-> "string", v |-> v, shape |-> "plain"]
Object(v) == [type |-> "object", v |-> v]
Array(v) == [type |-> "array", v |-> v]
HugeUint64 == [type |-> "uint64", v |-> 2147483647]

Url(host, port, path, marks) ==
  [scheme |-> "http", host |-> host, port |-> port, path |-> path, marks |-> marks]
Origin == Url("viewer", 80, <<>>, {})

Fake(width, height) ==
  [adapter |-> Text("fake"),
   fake |-> Object([width |-> Int64(width), height |-> Int64(height), fps |-> Int64(30),
                    start_frame_number |-> Int64(255), pattern_seed |-> Int64(7)])]
D435(color) ==
  [adapter |-> Text("intel_d435"),
   intel_d435 |-> Object(
     [serial_number |-> Text("0"), enable_color |-> Bool(color),
      depth_width |-> Int64(2), depth_height |-> Int64(1), depth_fps |-> Int64(30),
      color_width |-> Int64(2), color_height |-> Int64(2), color_fps |-> Int64(30),
      depth_min_m |-> Double(100), depth_max_m |-> Double(4000)])]

Mounted(axes, r1, r2, r3) ==
  [calibration_id |-> Text("calibration"), sensor_frame |-> Text("sensor"),
   mount_frame |-> Text("mount"),
   mount_local_transform |-> Object(
     [x |-> Int64(10), y |-> Double(-20), z |-> Int64(30),
      r1 |-> Double(r1), r2 |-> Double(r2), r3 |-> Int64(r3), euler_type |-> Text(axes)])]

Document(device, calibration, path, pilot, recording) ==
  [schema_version |-> Int64(1), device_id |-> Text("camera"), component_id |-> Text("vision"),
   device |-> Object(device), calibration |-> Object(calibration),
   provider |-> Object(
     [bind_host |-> Text("address"), port |-> Int64(8080),
      advertised_base_url |-> Text(Url("camera", 8080, path, {})),
      max_connections |-> Int64(8), max_stream_clients |-> Int64(4),
      request_timeout_ms |-> Int64(5000), max_header_bytes |-> Int64(8192),
      max_body_bytes |-> Int64(4096), max_frame_age_ms |-> Int64(500),
      allowed_origins |-> Array(<<Text(Origin)>>)]),
   pilot |-> Object(
     [enabled |-> Bool(pilot), base_url |-> Text(Url("pilot", 9000, <<"/">>, {})),
      clock_domain |-> Text("monotonic_same_host"), connect_timeout_ms |-> Int64(1000),
      request_timeout_ms |-> Int64(2000), max_response_bytes |-> Int64(65536),
      retry_initial_delay_ms |-> Int64(100), retry_max_delay_ms |-> Int64(5000),
      shutdown_timeout_ms |-> Int64(2000)]),
   recording |-> Object(
     [enabled |-> Bool(recording), root |-> Text("absolute"), queue_capacity_frames |-> Int64(8),
      max_duration_ms |-> Int64(60000), minimum_free_bytes |-> Int64(2),
      finalize_timeout_ms |-> Int64(5000), bit_rate_bps |-> Int64(4000000),
      preset |-> Text("veryfast"), tune |-> Text("zerolatency")])]

Turned123 == Mounted(<<"Z", "Y", "X">>, 1, 2, 3)
RecordingDocument == Document(Fake(2, 2), Turned123, <<"/">>, TRUE, TRUE)
D435Document == Document(D435(TRUE), Turned123, <<>>, TRUE, TRUE)
BaseDocuments ==
  {RecordingDocument, D435Document,
   Document(Fake(3, 3), Turned123, <<>>, TRUE, FALSE),
   Document(D435(FALSE), Turned123, <<>>, TRUE, FALSE)}

TurnedDocuments ==
  {Document(Fake(3, 2), Mounted(axes, r[1], r[2], r[3]), <<>>, TRUE, FALSE) :
     axes \in SUPPORTED_EULER_TYPES, r \in {<<1, 1, 1>>, <<0, 3, 1>>}}

-----------------------------------------------------------------------------
(***************************************************************************)
(* One field changed.                                                      *)
(***************************************************************************)
Without(o, key) == [k \in DOMAIN o \ {key} |-> o[k]]
With(o, key, values) == {[k \in DOMAIN o \cup {key} |-> IF k = key THEN v ELSE o[k]] : v \in values}

Outside(limits) == {Int64(limits[1] - 1), Int64(limits[2] + 1), HugeUint64, Double(limits[1])}
\* All the fields at one end of their ranges.
AtEnd(o, limits, end) ==
  [k \in DOMAIN o |-> IF k \in DOMAIN limits THEN Int64(limits[k][end]) ELSE o[k]]
BadTexts == {[type |-> "string", v |-> shape, shape |-> shape] : shape \in {"empty", "long", "control"}}
Mistyped(value) == [value EXCEPT !.type = "null"]
BadUrls == {Text(u) : u \in {[Url("camera", 8080, <<>>, {}) EXCEPT !.scheme = "https"],
                             Url("", 8080, <<>>, {}), Url("camera", 0, <<>>, {}),
                             Url("camera", 65536, <<>>, {}), Url("camera", -1, <<>>, {}),
                             Url("camera", 8081, <<>>, {})}
                            \cup {Url("camera", 8080, <<>>, {mark}) : mark \in {"0.0.0.0", "*", "@", "?", "#"}}}

\* The objects that differ from o in one field: bounded integers, texts, and the rest.
Changed(o, limits, texts, rest) ==
  (UNION {With(o, key, Outside(limits[key])) : key \in DOMAIN limits})
  \cup {AtEnd(o, limits, end) : end \in {1, 2}}
  \cup (UNION {With(o, key, BadTexts) : key \in texts})
  \cup (UNION {With(o, key, rest[key]) : key \in DOMAIN rest})
  \cup {Without(o, key) : key \in DOMAIN o}
  \cup {[o EXCEPT ![key] = Mistyped(@)] : key \in DOMAIN o}
  \cup With(o, "unknown", {Int64(1)})

ChangedFake(o) == Changed(o, FakeLimits, {}, [width |-> {Int64(1), Int64(3)}, height |-> {Int64(1), Int64(3)}])
ChangedD435(o) ==
  Changed(o, D435Limits, {"serial_number"},
          [enable_color |-> {Bool(FALSE)}, color_width |-> {Int64(3)}, color_height |-> {Int64(1)},
           depth_min_m |-> {Double(-1), Double(0), Double(4000), Double(4001), Int64(100)},
           depth_max_m |-> {Double(0), Double(99), Int64(4000)}])
ChangedMount(o) ==
  Changed(o, [x |-> <<-10000, 10000>>, z |-> <<-10000, 10000>>], {},
          [y |-> {Double(-10001)}, r1 |-> {Int64(2)},
           euler_type |-> {Text(<<"X", "Y", "X">>), Text(<<"X", "Y">>), Text(<<>>)}])
ChangedCalibration(o) ==
  Changed(o, <<>>, {"calibration_id", "sensor_frame", "mount_frame"},
          [mount_local_transform |->
             {Object(m) : m \in ChangedMount(o["mount_local_transform"].v)}])
ChangedProvider(o) ==
  Changed(o, [key \in DOMAIN ProviderLimits \ {"port"} |-> ProviderLimits[key]]
             @@ [max_stream_clients |-> <<1, 8>>], {"bind_host"},
          [bind_host |-> {Text("name")}, port |-> {Int64(0), Int64(8081), HugeUint64},
           advertised_base_url |-> BadUrls \cup {Text(Url("camera", 8080, <<"/", "p">>, {}))},
           allowed_origins |->
             {Array(<<>>), Array(<<Text(Origin), Text(Origin)>>),
              Array(<<Text([Origin EXCEPT !.path = <<"/">>])>>),
              Array([i \in 1 .. 17 |-> Text([Origin EXCEPT !.port = i])])}])
ChangedPilot(o) ==
  Changed(o, PilotLimits, {}, [enabled |-> {Bool(FALSE)}, base_url |-> BadUrls,
                               clock_domain |-> {Text("utc")}])
ChangedRecording(o) ==
  Changed(o, RecordingLimits @@ [minimum_free_bytes |-> <<1, MaxFreeBytes>>], {},
          [enabled |-> {Bool(FALSE)}, root |-> {Text("relative")},
           preset |-> {Text("fast")}, tune |-> {Text("film")}])

ChangedDevice(o) ==
  LET adapter == o["adapter"].v
      changed == IF adapter = "fake" THEN ChangedFake(o["fake"].v) ELSE ChangedD435(o["intel_d435"].v)
  IN Changed(o, <<>>, {"adapter"},
             [k \in {adapter} |-> {Object(c) : c \in changed}]
             @@ [adapter |-> {Text("other")}])
     \cup With(o, CHOOSE other \in {"fake", "intel_d435"} : other # adapter, {o[adapter]})

ChangedIn(document, section, changed) ==
  With(document, section, {Object(o) : o \in changed})

MCDocuments ==
  BaseDocuments \cup TurnedDocuments
  \cup (UNION {ChangedIn(d, "device", ChangedDevice(d["device"].v)) :
                 d \in {RecordingDocument, D435Document}})
  \cup ChangedIn(RecordingDocument, "recording", ChangedRecording(RecordingDocument["recording"].v))
  \cup ChangedIn(RecordingDocument, "calibration",
                 ChangedCalibration(RecordingDocument["calibration"].v))
  \cup ChangedIn(RecordingDocument, "provider", ChangedProvider(RecordingDocument["provider"].v))
  \cup ChangedIn(RecordingDocument, "pilot", ChangedPilot(RecordingDocument["pilot"].v))
  \cup Changed(RecordingDocument, [schema_version |-> <<1, 1>>], {"device_id", "component_id"}, <<>>)

-----------------------------------------------------------------------------
(***************************************************************************)
(* The requests.                                                           *)
(***************************************************************************)
NoBody == [shape |-> "malformed"]
Request(method, path, origin, body) ==
  [method |-> method, target |-> <<path>>, origin |-> origin, body |-> body]
Post(path, bodies) == {Request("POST", path, None, body) : body \in bodies}

PixelBodies ==
  {[shape |-> "ok", x |-> p[1], y |-> p[2]] :
     p \in {<<0, 0>>, <<1, 0>>, <<0, 1>>, <<1, 1>>, <<2, 1>>, <<2, 2>>, <<-1, 0>>, <<0, -1>>,
            <<3, 0>>, <<0, 3>>}} \cup {[shape |-> "count"]}
RoiBodies ==
  {[shape |-> "ok", x |-> r[1], y |-> r[2], width |-> r[3], height |-> r[4]] :
     r \in {<<0, 0, 3, 3>>, <<0, 0, 1, 1>>, <<1, 1, 1, 1>>, <<1, 0, 2, 1>>, <<1, 1, 9, 1>>,
            <<2, 0, 1, 9>>, <<0, 0, 4, 1>>, <<0, 0, 2, 2>>, <<0, 1, 3, 2>>, <<0, 0, 5, 2>>,
            <<-1, 0, 2, 2>>, <<0, -1, 1, 1>>, <<3, 0, 1, 1>>, <<0, 3, 1, 1>>, <<0, 0, 0, 1>>,
            <<0, 0, 1, 0>>, <<0, 0, -1, -1>>}} \cup {[shape |-> "count"]}
RecordingBodies ==
  {[shape |-> shape] : shape \in {"ok", "not_object", "count", "mismatch", "unsafe", "missing"}}

Paths ==
  {"/health", "/metadata", "/stream/depth.mjpg", "/stream/color.mjpg", "/snapshot/depth",
   "/snapshot/color", "/query/roi_depth", "/query/pixel_to_point", "/snapshot/pointcloud.bin",
   "/recordings/start", "/recordings/stop", "/recordings/current", "/other"}

MCRequests ==
  {Request(method, path, None, NoBody) : method \in {"GET", "POST"}, path \in Paths}
  \cup Post("/query/pixel_to_point", PixelBodies)
  \cup Post("/query/roi_depth", RoiBodies)
  \cup Post("/recordings/start", RecordingBodies)
  \cup Post("/recordings/stop", RecordingBodies)
  \cup {Request("GET", "/health", origin, NoBody) : origin \in {Origin, [Origin EXCEPT !.port = 81]}}
  \cup {Request("OPTIONS", "/query/roi_depth", origin, NoBody) : origin \in {Origin, None}}
  \cup {[Request("GET", "/health", None, NoBody) EXCEPT !.target = <<"/", "p", "/health">>]}
===============================================================================
