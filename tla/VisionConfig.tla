----------------------------- MODULE VisionConfig -----------------------------
(***************************************************************************)
(* parseVisionConfig (src/config/vision_config.cpp): which configuration   *)
(* documents are accepted, and the typed configuration they become.        *)
(* A JSON object is a function from its keys to values, and a value is a   *)
(* record of its JSON type and of what it holds; a string also has a       *)
(* shape, all that the length and control character tests see of it:       *)
(* "plain", "empty", "long" (over 128 bytes) or "control".  A URL is the    *)
(* record of its parts: its port is -1 when there is none or it is not made *)
(* of digits, its path a sequence of characters and names, and its marks    *)
(* what it may not hold anywhere.  The document is refused when any test    *)
(* throws.                                                                  *)
(***************************************************************************)
EXTENDS CameraMountTransform, FiniteSets

CONSTANTS
  MaxSide,       \* the largest image width and height, 4096 in the code
  MaxStart,      \* the largest start_frame_number, 10^9 in the code
  MaxFreeBytes,  \* the largest minimum_free_bytes, 2^40 in the code
  Int64Max       \* the largest std::int64_t, 2^63 - 1

ASSUME LimitsAssumption == {MaxSide, MaxStart, MaxFreeBytes} \subseteq Nat \ {0}
ASSUME WidthAssumption ==
  Int64Max \in Nat /\ \A limit \in {100000000, MaxSide, MaxStart, MaxFreeBytes} : limit <= Int64Max

MAX_MOUNT_TRANSLATION_M == 10000  \* in millimetres
MAX_PORT == 65535
SUPPORTED_EULER_TYPES ==
  {<<"X", "Y", "Z">>, <<"X", "Z", "Y">>, <<"Y", "X", "Z">>, <<"Y", "Z", "X">>,
   <<"Z", "X", "Y">>, <<"Z", "Y", "X">>, <<"Z", "X", "Z">>, <<"Z", "Y", "Z">>}

-----------------------------------------------------------------------------
(***************************************************************************)
(* The tests of one field or object.                                       *)
(***************************************************************************)
Has(o, key, type) == key \in DOMAIN o /\ o[key].type = type
IsObject(o, key) == Has(o, key, "object")
IsBoolean(o, key) == Has(o, key, "bool")
IsText(o, key) == Has(o, key, "string") /\ o[key].shape = "plain"
IsTextOrEmpty(o, key) == Has(o, key, "string") /\ o[key].shape \in {"plain", "empty"}
IsFiniteNumber(o, key) == key \in DOMAIN o /\ o[key].type \in {"double", "int64", "uint64"}

\* rejectUnknownFields
HasOnly(o, allowed) == DOMAIN o \subseteq allowed

\* static_cast<std::int64_t>(value.as_uint64())
Wrapped(v) == IF v > Int64Max THEN v - Int64Max - 1 - Int64Max - 1 ELSE v

IsBoundedInt(o, key, low, high) ==
  /\ key \in DOMAIN o
  /\ \/ o[key].type = "int64" /\ o[key].v \in low..high
     \/ o[key].type = "uint64" /\ Wrapped(o[key].v) \in low..high

IsBoundedUint64(o, key, low, high) ==
  key \in DOMAIN o /\ o[key].type \in {"int64", "uint64"} /\ o[key].v \in low..high

AreBoundedInts(o, limits) ==
  \A key \in DOMAIN limits : IsBoundedInt(o, key, limits[key][1], limits[key][2])

IsAdvertisedUrlValid(url) ==
  /\ url.scheme = "http"
  /\ url.marks = {}      \* none of 0.0.0.0 * @ ? #, anywhere
  /\ url.host # ""
  /\ url.port \in 1..MAX_PORT

AreAllowedOrigins(o, key) ==
  /\ Has(o, key, "array")
  /\ LET origins == o[key].v IN
     /\ Len(origins) <= 16
     /\ \A i \in 1..Len(origins) :
          /\ origins[i].type = "string" /\ origins[i].shape = "plain"
          /\ IsAdvertisedUrlValid(origins[i].v) /\ origins[i].v.path = <<>>
     /\ \A i, j \in 1..Len(origins) : i # j => origins[i].v # origins[j].v

-----------------------------------------------------------------------------
(***************************************************************************)
(* The sections.                                                           *)
(***************************************************************************)
FakeLimits ==
  [width |-> <<1, MaxSide>>, height |-> <<1, MaxSide>>, fps |-> <<1, 240>>,
   start_frame_number |-> <<1, MaxStart>>, pattern_seed |-> <<0, 255>>]

FakeAccepted(fake) == HasOnly(fake, DOMAIN FakeLimits) /\ AreBoundedInts(fake, FakeLimits)

D435Limits ==
  [depth_width |-> <<1, MaxSide>>, depth_height |-> <<1, MaxSide>>, depth_fps |-> <<1, 240>>,
   color_width |-> <<1, MaxSide>>, color_height |-> <<1, MaxSide>>, color_fps |-> <<1, 240>>]

\* validateIntelD435AdapterConfig does not throw.
ValidIntelD435AdapterConfig(d) ==
  /\ d.depth_width > 0 /\ d.depth_height > 0 /\ d.depth_fps > 0
  /\ d.enable_color => d.color_width > 0 /\ d.color_height > 0 /\ d.color_fps > 0
  /\ d.depth_min_m >= 0 /\ d.depth_max_m > 0 /\ d.depth_min_m <= d.depth_max_m

\* The values of an object's fields, with no types.
Values(o) == [key \in DOMAIN o |-> o[key].v]

D435Accepted(d) ==
  /\ HasOnly(d, DOMAIN D435Limits \cup {"serial_number", "enable_color", "depth_min_m", "depth_max_m"})
  /\ IsTextOrEmpty(d, "serial_number")
  /\ AreBoundedInts(d, D435Limits)
  /\ IsBoolean(d, "enable_color")
  /\ Has(d, "depth_min_m", "double") /\ Has(d, "depth_max_m", "double")
  /\ ValidIntelD435AdapterConfig(Values(d))

DeviceAccepted(device) ==
  /\ HasOnly(device, {"adapter", "fake", "intel_d435"})
  /\ IsText(device, "adapter")
  /\ \/ /\ device["adapter"].v = "fake" /\ "intel_d435" \notin DOMAIN device
        /\ IsObject(device, "fake") /\ FakeAccepted(device["fake"].v)
     \/ /\ device["adapter"].v = "intel_d435" /\ "fake" \notin DOMAIN device
        /\ IsObject(device, "intel_d435") /\ D435Accepted(device["intel_d435"].v)

MountAccepted(m) ==
  /\ HasOnly(m, {"x", "y", "z", "r1", "r2", "r3", "euler_type"})
  /\ \A key \in {"x", "y", "z", "r1", "r2", "r3"} : IsFiniteNumber(m, key)
  /\ IsText(m, "euler_type")
  /\ \A key \in {"x", "y", "z"} : m[key].v \in -MAX_MOUNT_TRANSLATION_M..MAX_MOUNT_TRANSLATION_M
  /\ m["euler_type"].v \in SUPPORTED_EULER_TYPES

CalibrationAccepted(c) ==
  /\ HasOnly(c, {"calibration_id", "sensor_frame", "mount_frame", "mount_local_transform"})
  /\ \A key \in {"calibration_id", "sensor_frame", "mount_frame"} : IsText(c, key)
  /\ IsObject(c, "mount_local_transform") /\ MountAccepted(c["mount_local_transform"].v)

ProviderLimits ==
  [port |-> <<1, MAX_PORT>>, max_connections |-> <<1, 1024>>, request_timeout_ms |-> <<1000, 60000>>,
   max_header_bytes |-> <<1, 1048576>>, max_body_bytes |-> <<1, 10485760>>,
   max_frame_age_ms |-> <<1, 60000>>]

ProviderAccepted(p) ==
  /\ HasOnly(p, DOMAIN ProviderLimits \cup
                {"bind_host", "advertised_base_url", "max_stream_clients", "allowed_origins"})
  /\ IsText(p, "bind_host")
  /\ AreBoundedInts(p, ProviderLimits)
  /\ IsText(p, "advertised_base_url") /\ IsAdvertisedUrlValid(p["advertised_base_url"].v)
  /\ IsBoundedInt(p, "max_stream_clients", 1, p["max_connections"].v)
  /\ "allowed_origins" \in DOMAIN p => AreAllowedOrigins(p, "allowed_origins")
  /\ p["advertised_base_url"].v.port = p["port"].v

\* The field may be left out: no origin is then allowed.
AllowedOrigins(p) ==
  IF "allowed_origins" \in DOMAIN p
  THEN LET origins == p["allowed_origins"].v IN {origins[i].v : i \in 1..Len(origins)}
  ELSE {}

PilotLimits ==
  [connect_timeout_ms |-> <<1000, 60000>>, request_timeout_ms |-> <<1000, 60000>>,
   max_response_bytes |-> <<1, 10485760>>, retry_initial_delay_ms |-> <<1, 60000>>,
   retry_max_delay_ms |-> <<1, 60000>>, shutdown_timeout_ms |-> <<1000, 60000>>]

PilotAccepted(p) ==
  /\ HasOnly(p, DOMAIN PilotLimits \cup {"enabled", "base_url", "clock_domain"})
  /\ IsBoolean(p, "enabled")
  /\ IsText(p, "base_url") /\ IsAdvertisedUrlValid(p["base_url"].v)
  /\ IsText(p, "clock_domain") /\ p["clock_domain"].v = "monotonic_same_host"
  /\ AreBoundedInts(p, PilotLimits)
  /\ p["retry_initial_delay_ms"].v <= p["retry_max_delay_ms"].v

RecordingLimits ==
  [queue_capacity_frames |-> <<1, 4096>>, max_duration_ms |-> <<1, 3600000>>,
   finalize_timeout_ms |-> <<1000, 600000>>, bit_rate_bps |-> <<1, 100000000>>]

RecordingAccepted(r) ==
  /\ HasOnly(r, DOMAIN RecordingLimits \cup {"enabled", "root", "minimum_free_bytes", "preset", "tune"})
  /\ IsBoolean(r, "enabled")
  /\ IsText(r, "root") /\ r["root"].v = "absolute"    \* path::is_absolute
  /\ AreBoundedInts(r, RecordingLimits)
  /\ IsBoundedUint64(r, "minimum_free_bytes", 1, MaxFreeBytes)
  /\ IsText(r, "preset") /\ r["preset"].v = "veryfast"
  /\ IsText(r, "tune") /\ r["tune"].v = "zerolatency"

-----------------------------------------------------------------------------
(***************************************************************************)
(* The configuration.                                                      *)
(***************************************************************************)
\* camera is the section of the configured adapter; calibration has the three names
\* and pose the placement.  Identifiers keep their shape.
VisionConfigOf(doc) ==
  LET device == doc["device"].v
      calibration == doc["calibration"].v
      mount == Values(calibration["mount_local_transform"].v)
  IN [device_id    |-> doc["device_id"],
      component_id |-> doc["component_id"],
      adapter      |-> device["adapter"].v,
      camera       |-> Values(device[device["adapter"].v].v),
      calibration  |-> {calibration[key] : key \in DOMAIN calibration \ {"mount_local_transform"}},
      pose         |-> [translation |-> <<mount.x, mount.y, mount.z>>,
                        turns |-> <<mount.r1, mount.r2, mount.r3>>, axes |-> mount.euler_type],
      provider     |-> Values(doc["provider"].v),
      origins      |-> AllowedOrigins(doc["provider"].v),
      pilot        |-> Values(doc["pilot"].v),
      recording    |-> Values(doc["recording"].v)]

IsColorEnabled(c) == c.adapter = "fake" \/ c.camera.enable_color

\* The color profile (of the fake adapter, the only profile) and the depth profile.
ColorProfile(c) ==
  IF c.adapter = "fake"
  THEN [width |-> c.camera.width, height |-> c.camera.height, fps |-> c.camera.fps]
  ELSE [width |-> c.camera.color_width, height |-> c.camera.color_height, fps |-> c.camera.color_fps]
DepthProfile(c) ==
  IF c.adapter = "fake" THEN ColorProfile(c)
  ELSE [width |-> c.camera.depth_width, height |-> c.camera.depth_height, fps |-> c.camera.depth_fps]

\* Mutant of RecordingFitsCamera: an odd height is accepted.
RecordingFitsWidth(c) ==
  c.recording.enabled => IsColorEnabled(c) /\ ColorProfile(c).width % 2 = 0

\* "requires an enabled even-dimension RGB color profile"
RecordingFitsCamera(c) ==
  c.recording.enabled =>
    IsColorEnabled(c) /\ ColorProfile(c).width % 2 = 0 /\ ColorProfile(c).height % 2 = 0

\* parseVisionConfig returns.
ParsesConfig(doc) ==
  /\ HasOnly(doc, {"schema_version", "device_id", "component_id", "device", "calibration",
                   "provider", "pilot", "recording"})
  /\ IsBoundedInt(doc, "schema_version", 1, 1)
  /\ IsText(doc, "device_id") /\ IsText(doc, "component_id")
  /\ IsObject(doc, "device") /\ DeviceAccepted(doc["device"].v)
  /\ IsObject(doc, "calibration") /\ CalibrationAccepted(doc["calibration"].v)
  /\ IsObject(doc, "provider") /\ ProviderAccepted(doc["provider"].v)
  /\ IsObject(doc, "pilot") /\ PilotAccepted(doc["pilot"].v)
  /\ IsObject(doc, "recording") /\ RecordingAccepted(doc["recording"].v)
  /\ RecordingFitsCamera(VisionConfigOf(doc))
===============================================================================
