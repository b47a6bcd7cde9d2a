------------------------------- MODULE ApiProofs -------------------------------
(***************************************************************************)
(* Proofs about ProviderApi for every set of documents and requests: what   *)
(* is accepted starts, what is advertised is served, no route throws, and   *)
(* the answers are those of the pixels that were asked for.                 *)
(***************************************************************************)
EXTENDS ProviderApi, QueryProofs

\* The documents that are accepted.
Accepted == {d \in Documents : ParsesConfig(d)}

-----------------------------------------------------------------------------
(***************************************************************************)
(* What an accepted configuration looks like.                              *)
(***************************************************************************)
\* A bounded integer is within its bounds when they are not negative, although a uint64
\* is cast before it is compared.
LEMMA BoundedIsBounded ==
  ASSUME NEW o, NumbersFit(o), NEW key, NEW low \in Nat, NEW high \in Nat,
         IsBoundedInt(o, key, low, high)
  PROVE  key \in DOMAIN o /\ o[key].v \in Nat /\ o[key].v \in low..high
<1>1. key \in DOMAIN o /\ Int64Max \in Nat
  BY WidthAssumption DEF IsBoundedInt
<1>2. CASE o[key].type = "int64" /\ o[key].v \in low..high
  BY <1>1, <1>2
<1>3. CASE o[key].type = "uint64" /\ Wrapped(o[key].v) \in low..high
  <2>1. o[key].v \in 0 .. 2 * Int64Max + 1
    BY <1>1, <1>3 DEF NumbersFit
  <2>2. QED
    BY <1>1, <1>3, <2>1 DEF Wrapped
<1>4. QED
  BY <1>1, <1>2, <1>3 DEF IsBoundedInt

\* A bounded integer is positive when its bounds are.
LEMMA BoundedIsPositive ==
  ASSUME NEW o, NumbersFit(o), NEW key, NEW low \in Nat, NEW high \in Nat,
         IsBoundedInt(o, key, low, high), low > 0
  PROVE  key \in DOMAIN o /\ o[key].v \in Int /\ o[key].v > 0 /\ o[key].v \in low..high
<1>1. key \in DOMAIN o /\ o[key].v \in Nat /\ o[key].v \in low..high
  BY BoundedIsBounded, Zenon
<1>2. QED
  BY <1>1

\* The rates are checked against the same limits everywhere.
LEMMA RateIsPositive ==
  ASSUME NEW o, NumbersFit(o), NEW key, IsBoundedInt(o, key, 1, 240)
  PROVE  key \in DOMAIN o /\ o[key].v \in Int /\ o[key].v > 0 /\ o[key].v \in 1..240
<1> DEFINE high == 240
<1>1. 1 \in Nat /\ high \in Nat /\ 1 > 0 /\ IsBoundedInt(o, key, 1, high)
  OBVIOUS
<1> HIDE DEF high
<1>2. key \in DOMAIN o /\ o[key].v \in Int /\ o[key].v > 0 /\ o[key].v \in 1..high
  BY <1>1, BoundedIsPositive, Zenon
<1>3. QED
  BY <1>2, Zenon DEF high

\* The sections of an accepted document, and what fits in them.
LEMMA Sections ==
  ASSUME NEW d \in Accepted
  PROVE  /\ {"device", "calibration", "provider", "pilot", "recording"} \subseteq DOMAIN d
         /\ NumbersFit(d["recording"].v) /\ NumbersFit(d["pilot"].v)
         /\ DeviceAccepted(d["device"].v) /\ CalibrationAccepted(d["calibration"].v)
         /\ ProviderAccepted(d["provider"].v) /\ PilotAccepted(d["pilot"].v)
         /\ RecordingAccepted(d["recording"].v)
         /\ IsText(d, "device_id") /\ IsText(d, "component_id")
         /\ RecordingFitsCamera(VisionConfigOf(d))
<1>1. d \in Documents /\ ParsesConfig(d)
  BY DEF Accepted
<1>2. /\ IsObject(d, "device") /\ IsObject(d, "calibration") /\ IsObject(d, "provider")
      /\ IsObject(d, "pilot") /\ IsObject(d, "recording")
  BY <1>1 DEF ParsesConfig
<1>3. {"device", "calibration", "provider", "pilot", "recording"} \subseteq DOMAIN d
  BY <1>2 DEF IsObject, Has
<1>4. NumbersFit(d["recording"].v) /\ NumbersFit(d["pilot"].v)
  BY <1>1, <1>2, <1>3, DocumentsAssumption
<1>5. QED
  BY <1>1, <1>3, <1>4 DEF ParsesConfig

\* The nested objects of a section.
LEMMA Subsections ==
  ASSUME NEW d \in Accepted, NEW section \in {"device", "calibration"}, NEW key,
         IsObject(d[section].v, key)
  PROVE  NumbersFit(d[section].v[key].v) /\ AnglesFit(d[section].v[key].v)
<1>1. d \in Documents /\ IsObject(d, section) /\ section \in DOMAIN d
  BY DEF Accepted, ParsesConfig, IsObject, Has
<1>2. key \in DOMAIN d[section].v
  BY DEF IsObject, Has
<1>3. QED
  BY <1>1, <1>2, DocumentsAssumption

\* The mount of an accepted configuration.
LEMMA AcceptedPose ==
  ASSUME NEW d \in Accepted
  PROVE  /\ VisionConfigOf(d).pose \in Poses
         /\ Len(VisionConfigOf(d).pose.axes) = 3
         /\ \A row \in 1..3 : /\ -MAX_MOUNT_TRANSLATION_M <= VisionConfigOf(d).pose.translation[row]
                              /\ VisionConfigOf(d).pose.translation[row] <= MAX_MOUNT_TRANSLATION_M
<1> DEFINE calibration == d["calibration"].v
           m == calibration["mount_local_transform"].v
<1>1. /\ IsObject(calibration, "mount_local_transform")
      /\ MountAccepted(m) /\ AnglesFit(m)
  BY Sections, Subsections DEF CalibrationAccepted
<1> HIDE DEF m
<1>2. {"x", "y", "z", "r1", "r2", "r3", "euler_type"} \subseteq DOMAIN m
  BY <1>1 DEF MountAccepted, IsFiniteNumber, IsText, Has
<1>3. \A key \in {"x", "y", "z"} :
        /\ m[key].v \in Int
        /\ -MAX_MOUNT_TRANSLATION_M <= m[key].v /\ m[key].v <= MAX_MOUNT_TRANSLATION_M
  <2>1. \A key \in {"x", "y", "z"} :
          m[key].v \in -MAX_MOUNT_TRANSLATION_M..MAX_MOUNT_TRANSLATION_M
    BY <1>1 DEF MountAccepted
  <2>2. \A n \in -MAX_MOUNT_TRANSLATION_M..MAX_MOUNT_TRANSLATION_M :
          n \in Int /\ -MAX_MOUNT_TRANSLATION_M <= n /\ n <= MAX_MOUNT_TRANSLATION_M
    BY DEF MAX_MOUNT_TRANSLATION_M
  <2>3. QED
    BY <2>1, <2>2
<1>4. \A key \in {"r1", "r2", "r3"} : m[key].v \in QuarterTurns
  BY <1>1 DEF MountAccepted, AnglesFit
<1>5. m["euler_type"].v \in [1..3 -> Axes] /\ Len(m["euler_type"].v) = 3
  <2>1. m["euler_type"].v \in SUPPORTED_EULER_TYPES
    BY <1>1 DEF MountAccepted
  <2>2. \A axes \in SUPPORTED_EULER_TYPES : axes \in [1..3 -> Axes] /\ Len(axes) = 3
    BY DEF SUPPORTED_EULER_TYPES, Axes
  <2>3. QED
    BY <2>1, <2>2
<1>6. VisionConfigOf(d).pose =
        [translation |-> <<m["x"].v, m["y"].v, m["z"].v>>,
         turns |-> <<m["r1"].v, m["r2"].v, m["r3"].v>>, axes |-> m["euler_type"].v]
  BY <1>2 DEF VisionConfigOf, Values, m
<1>7. <<m["x"].v, m["y"].v, m["z"].v>> \in Vectors
  BY <1>3 DEF Vectors
<1>8. <<m["r1"].v, m["r2"].v, m["r3"].v>> \in [1..3 -> QuarterTurns]
  BY <1>4
<1>9. /\ VisionConfigOf(d).pose \in Poses /\ Len(VisionConfigOf(d).pose.axes) = 3
      /\ VisionConfigOf(d).pose.translation = <<m["x"].v, m["y"].v, m["z"].v>>
  BY <1>5, <1>6, <1>7, <1>8 DEF Poses
<1>10. \A row \in 1..3 : /\ -MAX_MOUNT_TRANSLATION_M <= <<m["x"].v, m["y"].v, m["z"].v>>[row]
                         /\ <<m["x"].v, m["y"].v, m["z"].v>>[row] <= MAX_MOUNT_TRANSLATION_M
  BY <1>3
<1>11. QED
  BY <1>9, <1>10

\* The adapter and the profiles of an accepted configuration.
LEMMA AcceptedCamera ==
  ASSUME NEW d \in Accepted, NEW c, c = VisionConfigOf(d)
  PROVE  /\ c.adapter \in {"fake", "intel_d435"}
         /\ BuildsAdapter(c)
         /\ DepthProfile(c).width \in 1..MaxSide /\ DepthProfile(c).height \in 1..MaxSide
         /\ c.adapter = "fake" => /\ DepthProfile(c).fps \in 1..240
                                  /\ c.camera.start_frame_number \in 1..MaxStart
                                  /\ c.camera.pattern_seed \in Nat
         /\ c.recording.enabled =>
              /\ ColorProfile(c).width > 0 /\ ColorProfile(c).height > 0 /\ ColorProfile(c).fps > 0
              /\ ColorProfile(c).width % 2 = 0 /\ ColorProfile(c).height % 2 = 0
<1> DEFINE device == d["device"].v
           section == device[device["adapter"].v].v
<1>1. DeviceAccepted(device) /\ RecordingFitsCamera(c)
  BY Sections
<1>2. /\ c.adapter = device["adapter"].v
      /\ c.camera = Values(section)
  BY DEF VisionConfigOf
<1>3. CASE device["adapter"].v = "fake"
  <2>1. IsObject(device, "fake") /\ FakeAccepted(section)
    BY <1>1, <1>3 DEF DeviceAccepted
  <2>2. NumbersFit(section)
    BY <1>3, <2>1, Subsections
  <2> HIDE DEF section
  <2>3. /\ IsBoundedInt(section, "width", 1, MaxSide)
        /\ IsBoundedInt(section, "height", 1, MaxSide)
        /\ IsBoundedInt(section, "fps", 1, 240)
        /\ IsBoundedInt(section, "start_frame_number", 1, MaxStart)
        /\ IsBoundedInt(section, "pattern_seed", 0, 255)
    BY <2>1 DEF FakeAccepted, AreBoundedInts, FakeLimits
  <2>4. /\ {"width", "height", "fps", "start_frame_number", "pattern_seed"} \subseteq DOMAIN section
        /\ section["width"].v \in 1..MaxSide /\ section["height"].v \in 1..MaxSide
        /\ section["fps"].v \in 1..240 /\ section["start_frame_number"].v \in 1..MaxStart
        /\ section["pattern_seed"].v \in Nat
    <3>1. MaxSide \in Nat /\ MaxStart \in Nat /\ 1 \in Nat /\ 240 \in Nat /\ 1 > 0
      BY LimitsAssumption
    <3>2. "width" \in DOMAIN section /\ section["width"].v \in 1..MaxSide
      BY <2>2, <2>3, <3>1, BoundedIsPositive, Zenon
    <3>3. "height" \in DOMAIN section /\ section["height"].v \in 1..MaxSide
      BY <2>2, <2>3, <3>1, BoundedIsPositive, Zenon
    <3>4. "fps" \in DOMAIN section /\ section["fps"].v \in 1..240
      BY <2>2, <2>3, RateIsPositive
    <3>5. "start_frame_number" \in DOMAIN section /\ section["start_frame_number"].v \in 1..MaxStart
      BY <2>2, <2>3, <3>1, BoundedIsPositive, Zenon
    <3>6. "pattern_seed" \in DOMAIN section /\ section["pattern_seed"].v \in Nat
      <4>1. 0 \in Nat /\ 255 \in Nat
        OBVIOUS
      <4>2. QED
        BY <2>2, <2>3, <4>1, BoundedIsBounded
    <3>7. QED
      BY <3>2, <3>3, <3>4, <3>5, <3>6
  <2>5. /\ c.camera.width = section["width"].v /\ c.camera.height = section["height"].v
        /\ c.camera.fps = section["fps"].v
        /\ c.camera.start_frame_number = section["start_frame_number"].v
        /\ c.camera.pattern_seed = section["pattern_seed"].v
    BY <1>2, <2>4 DEF Values
  <2>6. QED
    BY <1>1, <1>2, <1>3, <2>4, <2>5
       DEF BuildsAdapter, DepthProfile, ColorProfile, RecordingFitsCamera
<1>4. CASE device["adapter"].v = "intel_d435"
  <2>1. IsObject(device, "intel_d435") /\ D435Accepted(section)
    BY <1>1, <1>4 DEF DeviceAccepted
  <2>2. NumbersFit(section)
    BY <1>4, <2>1, Subsections
  <2> HIDE DEF section
  <2>3. /\ IsBoundedInt(section, "depth_width", 1, MaxSide)
        /\ IsBoundedInt(section, "depth_height", 1, MaxSide)
        /\ IsBoundedInt(section, "color_width", 1, MaxSide)
        /\ IsBoundedInt(section, "color_height", 1, MaxSide)
        /\ IsBoundedInt(section, "color_fps", 1, 240)
    BY <2>1 DEF D435Accepted, AreBoundedInts, D435Limits
  <2>4. /\ \A key \in {"depth_width", "depth_height", "color_width", "color_height", "color_fps"} :
             key \in DOMAIN section /\ section[key].v \in Int /\ section[key].v > 0
        /\ section["depth_width"].v \in 1..MaxSide /\ section["depth_height"].v \in 1..MaxSide
    <3>1. MaxSide \in Nat /\ 1 \in Nat /\ 240 \in Nat /\ 1 > 0
      BY LimitsAssumption
    <3>2. \A key \in {"depth_width", "depth_height", "color_width", "color_height", "color_fps"} :
            key \in DOMAIN section /\ section[key].v \in Int /\ section[key].v > 0
      <4>1. ASSUME NEW key \in {"depth_width", "depth_height", "color_width", "color_height"}
            PROVE  key \in DOMAIN section /\ section[key].v \in Int /\ section[key].v > 0
        <5>1. IsBoundedInt(section, key, 1, MaxSide)
          BY <2>3, <4>1
        <5>2. QED
          BY <2>2, <3>1, <5>1, BoundedIsPositive, Zenon
      <4>2. /\ "color_fps" \in DOMAIN section
            /\ section["color_fps"].v \in Int /\ section["color_fps"].v > 0
        BY <2>2, <2>3, RateIsPositive
      <4>3. QED
        BY <4>1, <4>2
    <3>3. section["depth_width"].v \in 1..MaxSide
      BY <2>2, <2>3, <3>1, BoundedIsPositive, Zenon
    <3>4. section["depth_height"].v \in 1..MaxSide
      BY <2>2, <2>3, <3>1, BoundedIsPositive, Zenon
    <3>5. QED
      BY <3>2, <3>3, <3>4
  <2>5. /\ c.camera.depth_width = section["depth_width"].v
        /\ c.camera.depth_height = section["depth_height"].v
        /\ c.camera.color_width = section["color_width"].v
        /\ c.camera.color_height = section["color_height"].v
        /\ c.camera.color_fps = section["color_fps"].v
    BY <1>2, <2>4 DEF Values
  <2>6. ValidIntelD435AdapterConfig(c.camera)
    BY <1>2, <2>1 DEF D435Accepted
  <2>7. QED
    BY <1>1, <1>2, <1>4, <2>4, <2>5, <2>6
       DEF BuildsAdapter, DepthProfile, ColorProfile, RecordingFitsCamera
<1>5. QED
  BY <1>1, <1>3, <1>4 DEF DeviceAccepted

\* The recording section: RecordingManager, RecordingStore and ColorVideoWriter take it.
LEMMA AcceptedRecording ==
  ASSUME NEW d \in Accepted, NEW c, c = VisionConfigOf(d)
  PROVE  /\ BuildsRecordingManager(c)
         /\ c.recording.enabled => BuildsWriter(c)
<1> DEFINE section == d["recording"].v
           calibration == d["calibration"].v
<1>1. RecordingAccepted(section) /\ NumbersFit(section) /\ CalibrationAccepted(calibration)
  BY Sections
<1>2. c.recording = Values(section)
  BY DEF VisionConfigOf
<1>3. \A text \in c.calibration \cup {c.device_id, c.component_id} : text.shape # "empty"
  <2>1. c.device_id.shape = "plain" /\ c.component_id.shape = "plain"
    BY Sections DEF VisionConfigOf, IsText, Has
  <2>2. \A key \in DOMAIN calibration \ {"mount_local_transform"} : calibration[key].shape = "plain"
    BY <1>1 DEF CalibrationAccepted, HasOnly, IsText, Has
  <2>3. c.calibration = {calibration[key] : key \in DOMAIN calibration \ {"mount_local_transform"}}
    BY DEF VisionConfigOf
  <2>4. QED
    BY <2>1, <2>2, <2>3
<1> HIDE DEF section, calibration
<1>4. /\ IsBoundedInt(section, "queue_capacity_frames", 1, 4096)
      /\ IsBoundedInt(section, "max_duration_ms", 1, 3600000)
      /\ IsBoundedInt(section, "finalize_timeout_ms", 1000, 600000)
      /\ IsBoundedInt(section, "bit_rate_bps", 1, 100000000)
  BY <1>1, SMT DEF RecordingAccepted, AreBoundedInts, RecordingLimits
<1>5. \A key \in {"queue_capacity_frames", "max_duration_ms", "finalize_timeout_ms", "bit_rate_bps"} :
        key \in DOMAIN section /\ section[key].v > 0
  <2>1. \A key \in {"queue_capacity_frames", "max_duration_ms"} :
          key \in DOMAIN section /\ section[key].v > 0
    BY <1>1, <1>4, BoundedIsPositive, SMT
  <2>2. \A key \in {"finalize_timeout_ms", "bit_rate_bps"} :
          key \in DOMAIN section /\ section[key].v > 0
    BY <1>1, <1>4, BoundedIsPositive, SMT
  <2>3. QED
    BY <2>1, <2>2
<1>6. "minimum_free_bytes" \in DOMAIN section /\ section["minimum_free_bytes"].v > 0
  BY <1>1, LimitsAssumption DEF RecordingAccepted, IsBoundedUint64
<1>7. /\ {"root", "preset", "tune"} \subseteq DOMAIN section
      /\ section["root"].v = "absolute"
      /\ section["preset"].v = "veryfast" /\ section["tune"].v = "zerolatency"
  BY <1>1 DEF RecordingAccepted, IsText, Has
<1>8. /\ c.recording.root = "absolute" /\ c.recording.preset = "veryfast"
      /\ c.recording.tune = "zerolatency"
  BY <1>2, <1>7 DEF Values
<1>9. /\ c.recording.queue_capacity_frames > 0 /\ c.recording.max_duration_ms > 0
      /\ c.recording.finalize_timeout_ms > 0 /\ c.recording.bit_rate_bps > 0
      /\ c.recording.minimum_free_bytes > 0
  BY <1>2, <1>5, <1>6 DEF Values
<1>10. QED
  BY <1>3, <1>8, <1>9, AcceptedCamera DEF BuildsRecordingManager, BuildsWriter

\* The Pilot section: PilotHttpTransport takes it, and what it is sent names the clock.
LEMMA AcceptedPilot ==
  ASSUME NEW d \in Accepted, NEW c, c = VisionConfigOf(d)
  PROVE  /\ BuildsTransport(c)
         /\ IsIdentifier(c.component_id)
         /\ c.pilot.clock_domain = "monotonic_same_host"
<1> DEFINE section == d["pilot"].v
<1>1. PilotAccepted(section) /\ NumbersFit(section)
  BY Sections
<1>2. c.pilot = Values(section)
  BY DEF VisionConfigOf
<1> HIDE DEF section
<1>3. /\ IsBoundedInt(section, "connect_timeout_ms", 1000, 60000)
      /\ IsBoundedInt(section, "max_response_bytes", 1, 10485760)
      /\ IsBoundedInt(section, "request_timeout_ms", 1000, 60000)
      /\ IsBoundedInt(section, "shutdown_timeout_ms", 1000, 60000)
  BY <1>1, SMT DEF PilotAccepted, AreBoundedInts, PilotLimits
<1>4. \A key \in {"connect_timeout_ms", "max_response_bytes", "request_timeout_ms",
                  "shutdown_timeout_ms"} :
        key \in DOMAIN section /\ section[key].v > 0
  BY <1>1, <1>3, BoundedIsPositive, SMT
<1>5. /\ {"base_url", "clock_domain"} \subseteq DOMAIN section
      /\ IsAdvertisedUrlValid(section["base_url"].v)
      /\ section["clock_domain"].v = "monotonic_same_host"
  BY <1>1 DEF PilotAccepted, IsText, Has
<1>6. /\ c.pilot.connect_timeout_ms > 0 /\ c.pilot.max_response_bytes > 0
      /\ c.pilot.request_timeout_ms > 0 /\ c.pilot.shutdown_timeout_ms > 0
      /\ c.pilot.clock_domain = "monotonic_same_host"
      /\ IsAdvertisedUrlValid(c.pilot.base_url)
  <2>1. \A key \in DOMAIN section : c.pilot[key] = section[key].v
    BY <1>2 DEF Values
  <2>2. QED
    BY <1>4, <1>5, <2>1
<1>7. c.component_id.shape = "plain"
  BY Sections DEF VisionConfigOf, IsText, Has
<1>8. BuildsTransport(c)
  <2> DEFINE url == c.pilot.base_url
  <2>1. IsAdvertisedUrlValid(url)
    BY <1>6
  <2> HIDE DEF url
  <2>2. /\ url.scheme = "http" /\ url.marks = {}
        /\ url.host # "" /\ url.port \in 1..MAX_PORT
    BY <2>1 DEF IsAdvertisedUrlValid
  <2>3. url.marks \cap {"@", "?", "#"} = {}
    BY <2>2
  <2>4. QED
    BY <1>6, <2>2, <2>3 DEF BuildsTransport, url
<1>9. IsIdentifier(c.component_id)
  BY <1>7 DEF IsIdentifier
<1>10. QED
  BY <1>6, <1>8, <1>9

-----------------------------------------------------------------------------
(***************************************************************************)
(* The catalog.                                                            *)
(***************************************************************************)
\* The elements of two sequences, one after the other.
LEMMA ConcatElements ==
  ASSUME NEW S, NEW s \in Seq(S), NEW t \in Seq(S)
  PROVE  ToSet(s \o t) = ToSet(s) \cup ToSet(t)
<1>1. /\ DOMAIN s = 1..Len(s) /\ DOMAIN t = 1..Len(t) /\ Len(s) \in Nat /\ Len(t) \in Nat
      /\ DOMAIN (s \o t) = 1..(Len(s) + Len(t))
  BY ConcatProperties, LenProperties
<1>2. /\ \A i \in DOMAIN s : (s \o t)[i] = s[i]
      /\ \A i \in DOMAIN t : (s \o t)[Len(s) + i] = t[i]
  BY <1>1, ConcatProperties
<1>3. ASSUME NEW i \in DOMAIN (s \o t)
      PROVE  i \in DOMAIN s \/ \E j \in DOMAIN t : i = Len(s) + j
  <2>1. CASE i > Len(s)
    <3>1. i - Len(s) \in DOMAIN t /\ i = Len(s) + (i - Len(s))
      BY <1>1, <2>1
    <3>2. QED
      BY <3>1
  <2>2. QED
    BY <1>1, <2>1
<1>4. ToSet(s \o t) \subseteq ToSet(s) \cup ToSet(t)
  BY <1>2, <1>3 DEF ToSet
<1>5. ToSet(s) \subseteq ToSet(s \o t)
  <2>1. \A i \in DOMAIN s : i \in DOMAIN (s \o t)
    BY <1>1
  <2>2. QED
    BY <1>2, <2>1 DEF ToSet
<1>6. ToSet(t) \subseteq ToSet(s \o t)
  <2>1. \A i \in DOMAIN t : Len(s) + i \in DOMAIN (s \o t)
    BY <1>1
  <2>2. QED
    BY <1>2, <2>1 DEF ToSet
<1>7. QED
  BY <1>4, <1>5, <1>6

\* A field that tells the elements of a sequence apart.
DistinctBy(s, field) == \A i, j \in DOMAIN s : s[i][field] = s[j][field] => i = j

\* If a field tells the elements of two sequences apart, and one sequence from the
\* other, it tells all the elements of their concatenation apart.
LEMMA ConcatDistinct ==
  ASSUME NEW S, NEW s \in Seq(S), NEW t \in Seq(S), NEW field,
         DistinctBy(s, field), DistinctBy(t, field),
         \A x \in ToSet(s), y \in ToSet(t) : x[field] # y[field]
  PROVE  DistinctBy(s \o t, field)
<1>1. /\ DOMAIN s = 1..Len(s) /\ DOMAIN t = 1..Len(t) /\ Len(s) \in Nat /\ Len(t) \in Nat
      /\ DOMAIN (s \o t) = 1..(Len(s) + Len(t))
  BY ConcatProperties, LenProperties
<1>2. ASSUME NEW i \in DOMAIN (s \o t)
      PROVE  \/ i \in DOMAIN s /\ (s \o t)[i] = s[i]
             \/ \E k \in DOMAIN t : i = Len(s) + k /\ (s \o t)[i] = t[k]
  <2>1. CASE i <= Len(s)
    BY <1>1, <2>1, ConcatProperties
  <2>2. CASE i > Len(s)
    <3>1. i - Len(s) \in DOMAIN t /\ i = Len(s) + (i - Len(s))
      BY <1>1, <2>2
    <3>2. (s \o t)[i] = t[i - Len(s)]
      BY <1>1, <2>2, ConcatProperties
    <3>3. QED
      BY <3>1, <3>2
  <2>3. QED
    BY <1>1, <2>1, <2>2
<1>3. /\ \A i \in DOMAIN s : s[i] \in ToSet(s)
      /\ \A i \in DOMAIN t : t[i] \in ToSet(t)
  BY DEF ToSet
<1>4. SUFFICES ASSUME NEW i \in DOMAIN (s \o t), NEW j \in DOMAIN (s \o t),
                      (s \o t)[i][field] = (s \o t)[j][field]
               PROVE  i = j
  BY DEF DistinctBy
<1>5. CASE i \in DOMAIN s /\ (s \o t)[i] = s[i]
  BY <1>2, <1>3, <1>4, <1>5 DEF DistinctBy
<1>6. ASSUME NEW k \in DOMAIN t, i = Len(s) + k, (s \o t)[i] = t[k]
      PROVE  i = j
  <2>1. ~(j \in DOMAIN s /\ (s \o t)[j] = s[j])
    BY <1>3, <1>4, <1>6
  <2>2. QED
    BY <1>2, <1>4, <1>6, <2>1 DEF DistinctBy
<1>7. QED
  BY <1>2, <1>5, <1>6

\* The parts of the catalog that are there.
Colored(c) == IF IsColorEnabled(c) THEN ColorEndpoints(c) ELSE <<>>
Recorded(c) == IF c.recording.enabled THEN RecordingEndpoints(c) ELSE <<>>

\* The parts are sequences of descriptors.
LEMMA CatalogParts ==
  ASSUME NEW c
  PROVE  \E S : /\ CameraEndpoints(c) \in Seq(S) /\ Colored(c) \in Seq(S) /\ Recorded(c) \in Seq(S)
                /\ CameraEndpoints(c) \o Colored(c) \in Seq(S)
<1> DEFINE S == ToSet(CameraEndpoints(c)) \cup ToSet(ColorEndpoints(c)) \cup ToSet(RecordingEndpoints(c))
<1>1. CameraEndpoints(c) \in Seq(S)
  BY DEF CameraEndpoints, ToSet
<1>2. ColorEndpoints(c) \in Seq(S)
  BY DEF ColorEndpoints, ToSet
<1>3. RecordingEndpoints(c) \in Seq(S)
  BY DEF RecordingEndpoints, ToSet
<1> HIDE DEF S
<1>4. Colored(c) \in Seq(S) /\ Recorded(c) \in Seq(S)
  BY <1>2, <1>3 DEF Colored, Recorded
<1>5. QED
  BY <1>1, <1>4, ConcatProperties

\* The elements of the catalog.
LEMMA CatalogElements ==
  ASSUME NEW c
  PROVE  ToSet(BuildCatalog(c)) =
           ToSet(CameraEndpoints(c))
           \cup (IF IsColorEnabled(c) THEN ToSet(ColorEndpoints(c)) ELSE {})
           \cup (IF c.recording.enabled THEN ToSet(RecordingEndpoints(c)) ELSE {})
<1>1. PICK S : /\ CameraEndpoints(c) \in Seq(S) /\ Colored(c) \in Seq(S) /\ Recorded(c) \in Seq(S)
               /\ CameraEndpoints(c) \o Colored(c) \in Seq(S)
  BY CatalogParts
<1>2. BuildCatalog(c) = (CameraEndpoints(c) \o Colored(c)) \o Recorded(c)
  BY DEF BuildCatalog, Colored, Recorded
<1>3. ToSet(BuildCatalog(c)) = ToSet(CameraEndpoints(c)) \cup ToSet(Colored(c)) \cup ToSet(Recorded(c))
  <2>1. ToSet(CameraEndpoints(c) \o Colored(c)) = ToSet(CameraEndpoints(c)) \cup ToSet(Colored(c))
    BY <1>1, ConcatElements
  <2>2. ToSet((CameraEndpoints(c) \o Colored(c)) \o Recorded(c))
          = ToSet(CameraEndpoints(c) \o Colored(c)) \cup ToSet(Recorded(c))
    <3> DEFINE s == CameraEndpoints(c) \o Colored(c)
               t == Recorded(c)
    <3>1. s \in Seq(S) /\ t \in Seq(S)
      BY <1>1
    <3> HIDE DEF s, t
    <3>2. ToSet(s \o t) = ToSet(s) \cup ToSet(t)
      BY <3>1, ConcatElements
    <3>3. QED
      BY <3>2 DEF s, t
  <2>3. QED
    BY <1>2, <2>1, <2>2
<1>4. ToSet(<<>>) = {}
  BY DEF ToSet
<1>5. QED
  BY <1>3, <1>4 DEF Colored, Recorded

\* The elements of each part.
CameraDescriptors(c) == {
  MakeService(c, "health", "camera.health.get", "/health", "GET"),
  MakeService(c, "metadata", "camera.metadata.get", "/metadata", "GET"),
  MakeStream(c, "depth-preview", "camera.stream.depth.preview", "/stream/depth.mjpg"),
  MakeService(c, "depth-snapshot", "camera.snapshot.depth.preview", "/snapshot/depth", "GET"),
  MakeService(c, "roi-depth", "camera.query.roi_depth", "/query/roi_depth", "POST"),
  MakeService(c, "pixel-to-point", "camera.query.pixel_to_point", "/query/pixel_to_point", "POST"),
  MakeService(c, "pointcloud-binary", "camera.snapshot.pointcloud", "/snapshot/pointcloud.bin", "GET")}
ColorDescriptors(c) == {
  MakeStream(c, "color-preview", "camera.stream.color.preview", "/stream/color.mjpg"),
  MakeService(c, "color-snapshot", "camera.snapshot.color", "/snapshot/color", "GET")}
RecordingDescriptors(c) == {
  MakeService(c, "recording-start", "camera.recording.start", "/recordings/start", "POST"),
  MakeService(c, "recording-stop", "camera.recording.stop", "/recordings/stop", "POST"),
  MakeService(c, "recording-current", "camera.recording.current", "/recordings/current", "GET")}

\* The parts have these elements.
LEMMA PartElements ==
  ASSUME NEW c
  PROVE  /\ ToSet(CameraEndpoints(c)) = CameraDescriptors(c)
         /\ ToSet(ColorEndpoints(c)) = ColorDescriptors(c)
         /\ ToSet(RecordingEndpoints(c)) = RecordingDescriptors(c)
<1>1. ToSet(CameraEndpoints(c)) = CameraDescriptors(c)
  BY DEF ToSet, CameraEndpoints, CameraDescriptors
<1>2. ToSet(ColorEndpoints(c)) = ColorDescriptors(c)
  BY DEF ToSet, ColorEndpoints, ColorDescriptors
<1>3. ToSet(RecordingEndpoints(c)) = RecordingDescriptors(c)
  BY DEF ToSet, RecordingEndpoints, RecordingDescriptors
<1>4. QED
  BY <1>1, <1>2, <1>3

\* Target and method of a descriptor.
LEMMA MakeFields ==
  ASSUME NEW c, NEW id, NEW capability, NEW path, NEW method
  PROVE  /\ MakeService(c, id, capability, path, method).target
              = MakeEndpoint(c.provider.advertised_base_url, path)
         /\ MakeService(c, id, capability, path, method).method = method
         /\ MakeStream(c, id, capability, path).target
              = MakeEndpoint(c.provider.advertised_base_url, path)
         /\ MakeStream(c, id, capability, path).method = "GET"
BY DEF MakeService, MakeStream

\* Identifiers and capabilities of the catalog are distinct, so that the strictly
\* increasing order pilot_contract_codec.cpp asks for exists.
LEMMA CatalogDistinct ==
  ASSUME NEW c, NEW field \in {"id", "capability"}
  PROVE  DistinctBy(BuildCatalog(c), field)
<1>1. /\ DistinctBy(CameraEndpoints(c), field)
      /\ DistinctBy(ColorEndpoints(c), field)
      /\ DistinctBy(RecordingEndpoints(c), field)
  BY DEF DistinctBy, CameraEndpoints, ColorEndpoints, RecordingEndpoints, MakeService, MakeStream
<1>2. /\ \A x \in ToSet(CameraEndpoints(c)), y \in ToSet(ColorEndpoints(c)) : x[field] # y[field]
      /\ \A x \in ToSet(CameraEndpoints(c)), y \in ToSet(RecordingEndpoints(c)) : x[field] # y[field]
      /\ \A x \in ToSet(ColorEndpoints(c)), y \in ToSet(RecordingEndpoints(c)) : x[field] # y[field]
  BY PartElements DEF CameraDescriptors, ColorDescriptors, RecordingDescriptors,
                      MakeService, MakeStream
<1>3. PICK S : /\ CameraEndpoints(c) \in Seq(S) /\ Colored(c) \in Seq(S) /\ Recorded(c) \in Seq(S)
               /\ CameraEndpoints(c) \o Colored(c) \in Seq(S)
  BY CatalogParts
<1>4. DistinctBy(<<>>, field) /\ ToSet(<<>>) = {}
  BY DEF DistinctBy, ToSet
<1>5. DistinctBy(CameraEndpoints(c) \o Colored(c), field)
  BY <1>1, <1>2, <1>3, <1>4, ConcatDistinct DEF Colored
<1>6. ToSet(CameraEndpoints(c) \o Colored(c)) = ToSet(CameraEndpoints(c)) \cup ToSet(Colored(c))
  BY <1>3, ConcatElements
<1>7. \A x \in ToSet(CameraEndpoints(c) \o Colored(c)), y \in ToSet(Recorded(c)) : x[field] # y[field]
  BY <1>2, <1>4, <1>6 DEF Colored, Recorded
<1>8. DistinctBy(Recorded(c), field)
  BY <1>1, <1>4 DEF Recorded
<1>9. DistinctBy((CameraEndpoints(c) \o Colored(c)) \o Recorded(c), field)
  BY <1>3, <1>5, <1>7, <1>8, ConcatDistinct
<1>10. QED
  BY <1>9 DEF BuildCatalog, Colored, Recorded

\* The target of an endpoint is not empty, and with a base that has no path of its own
\* it is the path of the route.
LEMMA EndpointTarget ==
  ASSUME NEW base, base.path \in Seq(STRING), NEW path
  PROVE  /\ MakeEndpoint(base, path) # <<>>
         /\ base.path \in {<<>>, <<"/">>} => MakeEndpoint(base, path) = <<path>>
<1> DEFINE kept == IF base.path # <<>> /\ Last(base.path) = "/" THEN Front(base.path) ELSE base.path
           S == STRING \cup {path}
<1>1. kept \in Seq(S)
  <2>1. base.path \in Seq(S)
    OBVIOUS
  <2> HIDE DEF S
  <2>2. CASE base.path # <<>>
    <3>1. 1 \in 1 .. Len(base.path) + 1 /\ Len(base.path) - 1 \in 0 .. Len(base.path)
      BY <2>1, <2>2, LenProperties, EmptySeq
    <3>2. SubSeq(base.path, 1, Len(base.path) - 1) \in Seq(S)
      BY <2>1, <3>1, SubSeqProperties
    <3>3. QED
      BY <2>1, <3>2 DEF Front
  <2>3. QED
    BY <2>1, <2>2
<1>2. <<path>> \in Seq(S) /\ Len(<<path>>) = 1
  OBVIOUS
<1>3. kept \o <<path>> # <<>>
  <2>1. Len(kept \o <<path>>) = Len(kept) + 1 /\ Len(kept) \in Nat
    BY <1>1, <1>2, ConcatProperties, LenProperties
  <2>2. QED
    BY <2>1
<1>4. ASSUME base.path \in {<<>>, <<"/">>}
      PROVE  kept = <<>>
  BY <1>4 DEF Front, Last
<1>5. <<>> \o <<path>> = <<path>>
  BY <1>2
<1>6. QED
  BY <1>3, <1>4, <1>5 DEF MakeEndpoint

\* The advertised URL of an accepted configuration has a path.
LEMMA AcceptedBase ==
  ASSUME NEW d \in Accepted
  PROVE  VisionConfigOf(d).provider.advertised_base_url.path \in Seq(STRING)
<1> DEFINE section == d["provider"].v
<1>1. ProviderAccepted(section) /\ d \in Documents /\ IsObject(d, "provider") /\ "provider" \in DOMAIN d
  BY Sections DEF Accepted, ParsesConfig
<1>2. PathFits(section, "advertised_base_url")
  BY <1>1, DocumentsAssumption
<1> HIDE DEF section
<1>3. /\ IsText(section, "advertised_base_url")
      /\ "advertised_base_url" \in DOMAIN section
  BY <1>1 DEF ProviderAccepted, IsText, Has
<1>4. VisionConfigOf(d).provider = Values(section)
  BY DEF VisionConfigOf, section
<1>5. QED
  BY <1>2, <1>3, <1>4 DEF PathFits, Values

\* Nothing that startApplication builds refuses an accepted configuration, except for
\* its bind_host, and both messages to the Pilot can be written.
LEMMA AcceptedStarts ==
  ASSUME NEW d \in Accepted, NEW c, c = VisionConfigOf(d)
  PROVE  /\ StartRefusals(c) \subseteq {"bind_host"}
         /\ SerializesRegistration(c) /\ SerializesCatalog(c)
<1>1. BuildsMountTransform(c)
  <2>1. \A text \in c.calibration : text.shape # "empty"
    BY AcceptedRecording DEF BuildsRecordingManager
  <2>2. c.pose \in Poses /\ Len(c.pose.axes) = 3
    BY AcceptedPose
  <2>3. QED
    BY <2>1, <2>2, MountIsValid DEF BuildsMountTransform, Poses
<1>2. BuildsAdapter(c) /\ BuildsRecordingManager(c) /\ BuildsTransport(c)
  BY AcceptedCamera, AcceptedRecording, AcceptedPilot
<1>3. StartRefusals(c) \subseteq {"bind_host"}
  BY <1>1, <1>2 DEF StartRefusals
<1>4. SerializesRegistration(c)
  <2>1. IsInjective([i \in DOMAIN BuildCatalog(c) |-> BuildCatalog(c)[i].capability])
    BY CatalogDistinct DEF IsInjective, DistinctBy
  <2>2. QED
    BY <2>1, AcceptedPilot DEF SerializesRegistration
<1>5. SerializesCatalog(c)
  <2>1. IsInjective([i \in DOMAIN BuildCatalog(c) |-> BuildCatalog(c)[i].id])
    BY CatalogDistinct DEF IsInjective, DistinctBy
  <2>2. \A x \in ToSet(BuildCatalog(c)) : x.target # <<>>
    <3>1. ASSUME NEW id, NEW capability, NEW path, NEW method
          PROVE  /\ MakeService(c, id, capability, path, method).target # <<>>
                 /\ MakeStream(c, id, capability, path).target # <<>>
      <4>1. MakeEndpoint(c.provider.advertised_base_url, path) # <<>>
        BY AcceptedBase, EndpointTarget
      <4>2. QED
        BY <4>1, MakeFields
    <3>2. QED
      <4>1. \A x \in CameraDescriptors(c) : x.target # <<>>
        <5>1. ASSUME NEW x \in CameraDescriptors(c)
              PROVE  \/ \E id, capability, path, method : x = MakeService(c, id, capability, path, method)
                     \/ \E id, capability, path : x = MakeStream(c, id, capability, path)
          BY <5>1 DEF CameraDescriptors
        <5>2. QED
          BY <3>1, <5>1
      <4>2. \A x \in ColorDescriptors(c) : x.target # <<>>
        BY <3>1, Zenon DEF ColorDescriptors
      <4>3. \A x \in RecordingDescriptors(c) : x.target # <<>>
        BY <3>1, Zenon DEF RecordingDescriptors
      <4>4. QED
        BY <4>1, <4>2, <4>3, CatalogElements, PartElements
  <2>3. \A i \in DOMAIN BuildCatalog(c) : BuildCatalog(c)[i] \in ToSet(BuildCatalog(c))
    BY DEF ToSet
  <2>4. QED
    BY <2>1, <2>2, <2>3 DEF SerializesCatalog
<1>6. QED
  BY <1>3, <1>4, <1>5

-----------------------------------------------------------------------------
(***************************************************************************)
(* The inductive invariant.                                                *)
(***************************************************************************)
\* The configuration is that of an accepted document from ParseConfig on.
ConfigAccepted ==
  /\ phase \in {"boot", "rejected", "parsed", "refused", "running", "stopped"}
  /\ phase = "boot" => doc \in Documents
  /\ phase \notin {"boot", "rejected"} => config \in {VisionConfigOf(d) : d \in Accepted}
  /\ refusals \subseteq {"bind_host"}

\* Nothing is there before the application runs, and a reply only while it does.
NothingBefore ==
  /\ phase \notin {"running", "stopped"} => frame = None /\ advertised = None
  /\ exchange # None => phase = "running"

\* What the Pilot was sent is the catalog of the configuration.
AdvertisedIsCatalog == advertised # None => advertised = BuildCatalog(config)

\* The number of the frame that was read last.
CameraCounts ==
  phase = "running" => "number" \in DOMAIN camera /\ camera.number \in 0 .. LastNumber(config)

\* f is a frame that the camera of a configuration may have given.
GivenBy(c, f) ==
  IF c.adapter = "fake"
  THEN \E generation : \E number \in 1 .. LastNumber(c) :
         f = FakeFrame(DepthProfile(c), c.camera.pattern_seed, generation, number)
  ELSE \E generation, depth : \E number \in 1 .. MaxDeviceNumber :
         f = D435Frame(DepthProfile(c), generation, number, depth)

\* The frame was made by the adapter of the configuration.
FrameIsTheCameras ==
  frame # None => /\ frame = [captured |-> frame.captured, fresh |-> frame.fresh]
                  /\ GivenBy(config, frame.captured)

\* The reply is one the routes give now, and the frame the one they read: nothing they
\* read changes before the session is closed.
ReplyIsTheRoutes ==
  exchange # None => /\ exchange.request \in Requests
                     /\ exchange.reply \in Replies(exchange.request)
                     /\ exchange.captured = FreshFrame

ApiInv ==
  /\ ConfigAccepted /\ NothingBefore /\ AdvertisedIsCatalog
  /\ CameraCounts /\ FrameIsTheCameras /\ ReplyIsTheRoutes

\* The replies depend on the configuration, the state, the camera, the frame and the
\* previews only.
LEMMA RepliesDependOn ==
  ASSUME UNCHANGED <<config, state, camera, frame, preview>>, NEW request
  PROVE  Replies(request)' = Replies(request)
<1>1. (FreshFrame' = FreshFrame) /\ (Mount' = Mount) /\ (GetHealth' = GetHealth)
  BY DEF FreshFrame, Mount, GetHealth
<1>2. ASSUME NEW k
      PROVE  (GetSnapshot(k)' = GetSnapshot(k)) /\ (StreamReplies(k)' = StreamReplies(k))
  BY DEF GetSnapshot, StreamReplies
<1>3. ASSUME NEW body
      PROVE  /\ PostRecordingStart(body)' = PostRecordingStart(body)
             /\ PostRecordingStop(body)' = PostRecordingStop(body)
  BY DEF PostRecordingStart, PostRecordingStop
<1>4. ASSUME NEW body
      PROVE  PostRoiDepth(body)' = PostRoiDepth(body)
  BY <1>1 DEF PostRoiDepth, Serialized
<1>5. ASSUME NEW body
      PROVE  PostPixelPoint(body)' = PostPixelPoint(body)
  BY <1>1 DEF PostPixelPoint, Serialized
<1>6. GetPointcloudSnapshot' = GetPointcloudSnapshot
  BY <1>1 DEF GetPointcloudSnapshot, WithMount
<1>7. ASSUME NEW path, NEW body
      PROVE  RouteReplies(path, body)' = RouteReplies(path, body)
  BY <1>1, <1>2, <1>3, <1>4, <1>5, <1>6 DEF RouteReplies
<1>8. QED
  BY <1>2, <1>7 DEF Replies

\* Initially.
LEMMA ApiInit == Init => ApiInv
BY DEF Init, ApiInv, ConfigAccepted, NothingBefore, AdvertisedIsCatalog, CameraCounts,
       FrameIsTheCameras, ReplyIsTheRoutes

\* Every step.
LEMMA ApiNext == ApiInv /\ [Next]_vars => ApiInv'
<1> SUFFICES ASSUME ApiInv, [Next]_vars
             PROVE  ApiInv'
  OBVIOUS
<1> USE DEF ApiInv
<1>a. ASSUME config' = config
      PROVE  /\ LastNumber(config)' = LastNumber(config)
             /\ \A f : GivenBy(config, f)' = GivenBy(config, f)
  BY <1>a DEF LastNumber, FirstNumber, GivenBy
<1>b. ASSUME UNCHANGED <<phase, config, camera>>
      PROVE  CameraCounts'
  BY <1>a, <1>b DEF CameraCounts
<1>c. ASSUME UNCHANGED <<config, frame>>
      PROVE  FrameIsTheCameras'
  <2>1. frame' = frame /\ (GivenBy(config, frame.captured)' = GivenBy(config, frame.captured))
    BY <1>c DEF GivenBy, LastNumber, FirstNumber
  <2>2. QED
    BY <2>1 DEF FrameIsTheCameras
<1>1. CASE ParseConfig
  <2>1. phase = "boot" /\ phase' \in {"parsed", "rejected"} /\ exchange' = None /\ frame' = None /\ advertised' = None /\ doc \in Documents
    BY <1>1 DEF ParseConfig, ConfigAccepted, NothingBefore
  <2>2. ConfigAccepted'
    BY <1>1, <2>1 DEF ParseConfig, ConfigAccepted, Accepted
  <2>3. QED
    BY <2>1, <2>2 DEF NothingBefore, AdvertisedIsCatalog, CameraCounts, FrameIsTheCameras, ReplyIsTheRoutes
<1>2. CASE StartApplication
  <2>1. /\ phase = "parsed" /\ exchange' = None /\ frame' = None /\ advertised' = None
        /\ phase' \in {"refused", "running"} /\ config' = config
    BY <1>2 DEF StartApplication, NothingBefore
  <2>2. PICK d \in Accepted : config = VisionConfigOf(d)
    BY <2>1 DEF ConfigAccepted
  <2>3. refusals' \subseteq {"bind_host"}
    BY <1>2, <2>2, AcceptedStarts DEF StartApplication
  <2>4. ConfigAccepted'
    BY <2>1, <2>2, <2>3 DEF ConfigAccepted
  <2>5. CameraCounts'
    <3> SUFFICES ASSUME phase' = "running"
                 PROVE  "number" \in DOMAIN camera' /\ camera'.number \in 0 .. LastNumber(config)
      BY <2>1 DEF CameraCounts, LastNumber, FirstNumber
    <3>1. FirstNumber(config) \in Nat /\ FirstNumber(config) <= LastNumber(config)
          /\ LastNumber(config) \in Nat
      BY <2>2, AcceptedCamera, LimitsAssumption, BoundAssumption DEF FirstNumber, LastNumber
    <3>2. \/ camera' = StartStream(ConnectCamera(NewCamera), FirstNumber(config))
          \/ camera' \in {NewCamera, ConnectCamera(NewCamera)}
      BY <1>2 DEF StartApplication
    <3>3. "number" \in DOMAIN camera' /\ camera'.number \in {0, FirstNumber(config)}
      <4> DEFINE first == FirstNumber(config)
      <4> HIDE DEF first
      <4>1. \/ camera' = StartStream(ConnectCamera(NewCamera), first)
            \/ camera' \in {NewCamera, ConnectCamera(NewCamera)}
        BY <3>2 DEF first
      <4>2. "number" \in DOMAIN NewCamera /\ NewCamera.number = 0
        BY DEF NewCamera
      <4>3. /\ "number" \in DOMAIN ConnectCamera(NewCamera)
            /\ ConnectCamera(NewCamera).number = NewCamera.number
        BY <4>2 DEF ConnectCamera
      <4> DEFINE connected == ConnectCamera(NewCamera)
      <4> HIDE DEF connected
      <4>4. "number" \in DOMAIN connected /\ connected.number = 0
        BY <4>2, <4>3 DEF connected
      <4>5. "number" \in DOMAIN StartStream(connected, first) /\ StartStream(connected, first).number = first
        BY <4>4 DEF StartStream
      <4>6. QED
        BY <4>1, <4>2, <4>4, <4>5 DEF first, connected
    <3>4. QED
      BY <3>1, <3>3
  <2>6. QED
    BY <2>1, <2>4, <2>5 DEF NothingBefore, AdvertisedIsCatalog, FrameIsTheCameras, ReplyIsTheRoutes
<1>3. CASE PilotRegisters
  <2>1. /\ phase = "running" /\ exchange' = None /\ UNCHANGED <<config, camera, frame>>
    BY <1>3 DEF PilotRegisters
  <2>2. PICK d \in Accepted : config = VisionConfigOf(d)
    BY <2>1 DEF ConfigAccepted
  <2>3. SerializesRegistration(config) /\ SerializesCatalog(config)
    BY <2>2, AcceptedStarts
  <2>4. phase' = "running" /\ refusals' = refusals /\ advertised' = BuildCatalog(config)
    BY <1>3, <2>1, <2>3 DEF PilotRegisters
  <2>5. CameraCounts' /\ FrameIsTheCameras'
    BY <1>b, <1>c, <2>1, <2>4
  <2>6. QED
    BY <2>1, <2>2, <2>4, <2>5
       DEF ConfigAccepted, NothingBefore, AdvertisedIsCatalog, ReplyIsTheRoutes
<1>4. CASE CaptureFrame
  <2>1. /\ phase = "running" /\ exchange' = None /\ camera.number < LastNumber(config)
        /\ UNCHANGED <<doc, phase, config, refusals, advertised>>
    BY <1>4 DEF CaptureFrame
  <2>2. PICK f \in NextFrames : /\ camera' = FrameRead(camera, f.identity.number)
                                /\ frame' = frame \/ frame' = [captured |-> f, fresh |-> TRUE]
    BY <1>4 DEF CaptureFrame
  <2>3. PICK d \in Accepted : config = VisionConfigOf(d)
    BY <2>1 DEF ConfigAccepted
  <2>4. "number" \in DOMAIN camera /\ camera.number \in 0 .. LastNumber(config)
    BY <2>1 DEF CameraCounts
  <2>5. LastNumber(config) \in Nat /\ (config.adapter # "fake" => LastNumber(config) = MaxDeviceNumber)
    BY <2>3, AcceptedCamera, LimitsAssumption, BoundAssumption DEF FirstNumber, LastNumber
  <2>6. GivenBy(config, f) /\ f.identity.number \in 1 .. LastNumber(config)
    <3>1. CASE config.adapter = "fake"
      <4>1. f = FakeFrame(DepthProfile(config), config.camera.pattern_seed, camera.generation,
                          camera.number + 1)
        BY <3>1 DEF NextFrames
      <4>2. camera.number + 1 \in 1 .. LastNumber(config)
        BY <2>1, <2>4, <2>5
      <4>3. \E generation : \E number \in 1 .. LastNumber(config) :
              f = FakeFrame(DepthProfile(config), config.camera.pattern_seed, generation, number)
        BY <4>1, <4>2, Zenon
      <4>4. f.identity.number = camera.number + 1
        BY <4>1 DEF FakeFrame
      <4>5. QED
        BY <3>1, <4>2, <4>3, <4>4, Zenon DEF GivenBy
    <3>2. CASE config.adapter # "fake"
      <4>1. PICK number \in 1 .. MaxDeviceNumber :
              \E depth : f = D435Frame(DepthProfile(config), camera.generation, number, depth)
        <5> DEFINE image(depth) == [i \in Indices(DepthProfile(config)) |-> depth]
        <5>1. f \in {D435Frame(DepthProfile(config), camera.generation, number, image(depth)) :
                       number \in 1 .. MaxDeviceNumber, depth \in {0, 1500}}
          BY <3>2 DEF NextFrames
        <5> HIDE DEF image
        <5>2. QED
          BY <5>1
      <4>2. \E generation, dep : \E num \in 1 .. MaxDeviceNumber :
              f = D435Frame(DepthProfile(config), generation, num, dep)
        BY <4>1, Zenon
      <4>3. f.identity.number = number
        BY <4>1 DEF D435Frame
      <4>4. QED
        BY <2>5, <3>2, <4>2, <4>3 DEF GivenBy
    <3>3. QED
      BY <3>1, <3>2
  <2>7. CameraCounts'
    <3> DEFINE number == f.identity.number
    <3> HIDE DEF number
    <3>1. camera' = [camera EXCEPT !.number = number]
      BY <2>2 DEF FrameRead, number
    <3>2. number \in 1 .. LastNumber(config)
      BY <2>6 DEF number
    <3>3. "number" \in DOMAIN camera' /\ camera'.number = number
      BY <2>4, <3>1
    <3>4. LastNumber(config)' = LastNumber(config)
      BY <2>1 DEF LastNumber, FirstNumber
    <3>5. QED
      BY <2>5, <3>2, <3>3, <3>4 DEF CameraCounts
  <2>8. FrameIsTheCameras'
    <3>1. GivenBy(config, f)' = GivenBy(config, f)
      BY <2>1 DEF GivenBy
    <3>2. CASE frame' = frame
      BY <2>1, <3>2 DEF FrameIsTheCameras
    <3>3. CASE frame' = [captured |-> f, fresh |-> TRUE]
      <4>1. frame'.captured = f /\ frame' = [captured |-> frame'.captured, fresh |-> frame'.fresh]
        BY <3>3
      <4>2. QED
        BY <2>1, <2>6, <4>1, Zenon DEF FrameIsTheCameras
    <3>4. QED
      BY <2>2, <3>2, <3>3
  <2>9. QED
    BY <2>1, <2>7, <2>8 DEF ConfigAccepted, NothingBefore, AdvertisedIsCatalog, ReplyIsTheRoutes
<1>5. CASE CaptureFails
  <2>1. /\ phase = "running" /\ exchange' = None /\ camera' = ReadTimedOut(camera)
        /\ UNCHANGED <<doc, phase, config, refusals, frame, advertised>>
    BY <1>5 DEF CaptureFails
  <2>2. CameraCounts'
    <3>1. "number" \in DOMAIN camera /\ camera.number \in 0 .. LastNumber(config)
      BY <2>1 DEF CameraCounts
    <3>2. "number" \in DOMAIN camera' /\ camera'.number = camera.number
      BY <2>1, <3>1 DEF ReadTimedOut
    <3>3. QED
      BY <1>a, <2>1, <3>1, <3>2 DEF CameraCounts
  <2>3. QED
    BY <1>c, <2>1, <2>2 DEF ConfigAccepted, NothingBefore, AdvertisedIsCatalog, ReplyIsTheRoutes
<1>6. CASE EncodePreviews
  <2>1. exchange' = None /\ UNCHANGED <<doc, phase, config, refusals, camera, frame, advertised>>
    BY <1>6 DEF EncodePreviews
  <2>2. CameraCounts' /\ FrameIsTheCameras'
    BY <1>b, <1>c, <2>1
  <2>3. QED
    BY <2>1, <2>2 DEF ConfigAccepted, NothingBefore, AdvertisedIsCatalog, ReplyIsTheRoutes
<1>7. CASE FrameAges
  <2>1. /\ exchange' = None /\ frame # None /\ frame' = [frame EXCEPT !.fresh = FALSE]
        /\ UNCHANGED <<doc, phase, config, refusals, camera, advertised>>
    BY <1>7 DEF FrameAges
  <2>2. frame' = [captured |-> frame.captured, fresh |-> FALSE]
    <3>1. frame = [captured |-> frame.captured, fresh |-> frame.fresh]
      BY <2>1 DEF FrameIsTheCameras
    <3>2. QED
      BY <2>1, <3>1
  <2>3. FrameIsTheCameras'
    <3>1. frame'.captured = frame.captured
      BY <2>2
    <3>2. GivenBy(config', frame.captured)
      BY <2>1 DEF FrameIsTheCameras, GivenBy
    <3>3. QED
      BY <2>2, <3>1, <3>2 DEF FrameIsTheCameras
  <2>4. QED
    BY <1>b, <2>1, <2>3 DEF ConfigAccepted, NothingBefore, AdvertisedIsCatalog, ReplyIsTheRoutes
<1>8. CASE PreviewAges
  <2>1. exchange' = None /\ UNCHANGED <<doc, phase, config, refusals, camera, frame, advertised>>
    BY <1>8 DEF PreviewAges
  <2>2. CameraCounts' /\ FrameIsTheCameras'
    BY <1>b, <1>c, <2>1
  <2>3. QED
    BY <2>1, <2>2 DEF ConfigAccepted, NothingBefore, AdvertisedIsCatalog, ReplyIsTheRoutes
<1>9. CASE HandleRequest
  <2>1. /\ phase = "running"
        /\ UNCHANGED <<doc, phase, config, refusals, state, camera, frame, preview, advertised>>
    BY <1>9 DEF HandleRequest
  <2>2. PICK request \in Requests : \E reply \in Replies(request) :
          exchange' = [request |-> request, reply |-> reply, captured |-> FreshFrame]
    BY <1>9 DEF HandleRequest
  <2>3. Replies(request)' = Replies(request)
    BY <2>1, RepliesDependOn
  <2>4. /\ exchange'.request = request /\ exchange'.reply \in Replies(request)'
        /\ exchange'.captured = FreshFrame'
    <3>1. FreshFrame' = FreshFrame
      BY <2>1 DEF FreshFrame
    <3>2. QED
      BY <2>2, <2>3, <3>1
  <2>5. ReplyIsTheRoutes'
    BY <2>4 DEF ReplyIsTheRoutes
  <2>6. QED
    BY <1>b, <1>c, <2>1, <2>5 DEF ConfigAccepted, NothingBefore, AdvertisedIsCatalog
<1>10. CASE CloseSession
  <2>1. exchange' = None /\ UNCHANGED <<doc, phase, config, refusals, camera, frame, advertised>>
    BY <1>10 DEF CloseSession
  <2>2. CameraCounts' /\ FrameIsTheCameras'
    BY <1>b, <1>c, <2>1
  <2>3. QED
    BY <2>1, <2>2 DEF ConfigAccepted, NothingBefore, AdvertisedIsCatalog, ReplyIsTheRoutes
<1>11. CASE StopApplication
  BY <1>11 DEF StopApplication, ConfigAccepted, NothingBefore, AdvertisedIsCatalog,
               CameraCounts, FrameIsTheCameras, ReplyIsTheRoutes
<1>12. CASE UNCHANGED vars
  <2>1. Replies(exchange.request)' = Replies(exchange.request) /\ FreshFrame' = FreshFrame
    BY <1>12, RepliesDependOn DEF vars, FreshFrame
  <2>2. QED
    BY <1>12, <2>1 DEF vars, ConfigAccepted, NothingBefore, AdvertisedIsCatalog,
                       CameraCounts, FrameIsTheCameras, ReplyIsTheRoutes
<1>13. QED
  BY <1>1, <1>2, <1>3, <1>4, <1>5, <1>6, <1>7, <1>8, <1>9, <1>10, <1>11, <1>12 DEF Next

\* The invariant holds for every set of documents and requests.
THEOREM ApiInvariant == Spec => []ApiInv
BY ApiInit, ApiNext, PTL DEF Spec

-----------------------------------------------------------------------------
(***************************************************************************)
(* The replies.                                                            *)
(***************************************************************************)
\* The target of a request with a path of one part.
LEMMA TargetOfPath ==
  ASSUME NEW target, target \in Seq(STRING)
  PROVE  /\ Len(target) = 1 => target = <<Path(target)>>
         /\ \A path : target = <<path>> => Path(target) = path
         /\ Path(target) # "other" => target = <<Path(target)>>
<1>1. Len(target) = 1 => target = <<target[1]>>
  OBVIOUS
<1>2. \A path : target = <<path>> => Len(target) = 1 /\ target[1] = path
  OBVIOUS
<1>3. QED
  BY <1>1, <1>2 DEF Path

\* The recording start of an accepted configuration is never refused as invalid.
LEMMA StartReplies ==
  ASSUME ApiInv, phase = "running", NEW body, body.shape = "ok",
         NEW reply \in PostRecordingStart(body)
  PROVE  reply # InvalidRequest
<1>1. PICK d \in Accepted : config = VisionConfigOf(d)
  BY DEF ApiInv, ConfigAccepted
<1>2. config.recording.enabled => BuildsWriter(config)
  BY <1>1, AcceptedRecording
<1>3. QED
  BY <1>2 DEF PostRecordingStart, Error, Answered, InvalidRequest

\* What parseVisionConfig accepts, nothing refuses later.
THEOREM AcceptedConfigsStart == Spec => []AcceptedConfigStarts
<1>1. ApiInv => AcceptedConfigStarts
  <2> SUFFICES ASSUME ApiInv
               PROVE  AcceptedConfigStarts
    OBVIOUS
  <2>1. refusals \subseteq {"bind_host"} /\ phase # "terminated"
    BY DEF ApiInv, ConfigAccepted
  <2>2. ASSUME exchange # None, exchange.request.target = <<"/recordings/start">>,
               exchange.request.body.shape = "ok", exchange.reply = InvalidRequest
        PROVE  FALSE
    <3> DEFINE request == exchange.request
               reply == exchange.reply
    <3>1. /\ phase = "running" /\ reply \in Replies(request)
      BY <2>2 DEF ApiInv, NothingBefore, ReplyIsTheRoutes
    <3>2. Path(request.target) = "/recordings/start"
      BY <2>2 DEF Path
    <3>3. \/ reply \in {Error(403, "cors_origin_denied"), Error(403, "cors_origin_required"),
                        Answered(204), Error(405, "method_not_allowed")}
          \/ reply \in PostRecordingStart(request.body)
      BY <3>1, <3>2 DEF Replies, RouteReplies, PostRoutes
    <3>4. reply # InvalidRequest
      BY <2>2, <3>1, <3>3, StartReplies DEF Error, Answered, InvalidRequest
    <3>5. QED
      BY <2>2, <3>4
  <2>3. QED
    BY <2>1, <2>2 DEF AcceptedConfigStarts
<1>2. QED
  BY <1>1, ApiInvariant, PTL

-----------------------------------------------------------------------------
(***************************************************************************)
(* What is advertised is served.                                           *)
(***************************************************************************)
\* The routes of each part of the catalog, and of a configuration.
CameraServes(path, method) ==
  \/ /\ path \in {"/health", "/metadata", "/stream/depth.mjpg", "/snapshot/depth",
                  "/snapshot/pointcloud.bin"}
     /\ method = "GET"
  \/ path \in {"/query/roi_depth", "/query/pixel_to_point"} /\ method = "POST"
ColorServes(path, method) == path \in {"/stream/color.mjpg", "/snapshot/color"} /\ method = "GET"
RecordingServes(path, method) ==
  \/ path \in {"/recordings/start", "/recordings/stop"} /\ method = "POST"
  \/ path = "/recordings/current" /\ method = "GET"
Serves(c, path, method) ==
  \/ CameraServes(path, method)
  \/ IsColorEnabled(c) /\ ColorServes(path, method)
  \/ c.recording.enabled /\ RecordingServes(path, method)

\* A descriptor of a set has this target and this method.
Describes(d, target, method) == d.target = target /\ d.method = method
Described(descriptors, target, method) == \E d \in descriptors : Describes(d, target, method)

\* The descriptors of the catalog are those of the routes, when the advertised URL has no
\* path of its own.
LEMMA CatalogRoutes ==
  ASSUME NEW c, c.provider.advertised_base_url.path \in Seq(STRING),
         c.provider.advertised_base_url.path \in {<<>>, <<"/">>}, NEW target, NEW method
  PROVE  Described(ToSet(BuildCatalog(c)), target, method)
           <=> \E path : target = <<path>> /\ Serves(c, path, method)
<1>1. ASSUME NEW id, NEW capability, NEW path, NEW m
      PROVE  /\ Describes(MakeService(c, id, capability, path, m), target, method)
                  <=> target = <<path>> /\ method = m
             /\ Describes(MakeStream(c, id, capability, path), target, method)
                  <=> target = <<path>> /\ method = "GET"
  <2>1. MakeEndpoint(c.provider.advertised_base_url, path) = <<path>>
    BY EndpointTarget
  <2>2. /\ MakeService(c, id, capability, path, m).target = <<path>>
        /\ MakeService(c, id, capability, path, m).method = m
        /\ MakeStream(c, id, capability, path).target = <<path>>
        /\ MakeStream(c, id, capability, path).method = "GET"
    BY <2>1, MakeFields
  <2>3. QED
    BY <2>2, Zenon DEF Describes
<1>2. Described(CameraDescriptors(c), target, method)
        <=> \E path : target = <<path>> /\ CameraServes(path, method)
  <2>1. Described(CameraDescriptors(c), target, method)
          <=> \/ target = <<"/health">> /\ method = "GET"
              \/ target = <<"/metadata">> /\ method = "GET"
              \/ target = <<"/stream/depth.mjpg">> /\ method = "GET"
              \/ target = <<"/snapshot/depth">> /\ method = "GET"
              \/ target = <<"/query/roi_depth">> /\ method = "POST"
              \/ target = <<"/query/pixel_to_point">> /\ method = "POST"
              \/ target = <<"/snapshot/pointcloud.bin">> /\ method = "GET"
    BY <1>1, ZenonT(30) DEF CameraDescriptors, Described
  <2>2. QED
    BY <2>1 DEF CameraServes
<1>3. Described(ColorDescriptors(c), target, method)
        <=> \E path : target = <<path>> /\ ColorServes(path, method)
  <2>1. Described(ColorDescriptors(c), target, method)
          <=> \/ target = <<"/stream/color.mjpg">> /\ method = "GET"
              \/ target = <<"/snapshot/color">> /\ method = "GET"
    BY <1>1, Zenon DEF ColorDescriptors, Described
  <2>2. QED
    BY <2>1 DEF ColorServes
<1>4. Described(RecordingDescriptors(c), target, method)
        <=> \E path : target = <<path>> /\ RecordingServes(path, method)
  <2>1. Described(RecordingDescriptors(c), target, method)
          <=> \/ target = <<"/recordings/start">> /\ method = "POST"
              \/ target = <<"/recordings/stop">> /\ method = "POST"
              \/ target = <<"/recordings/current">> /\ method = "GET"
    BY <1>1, Zenon DEF RecordingDescriptors, Described
  <2>2. QED
    BY <2>1 DEF RecordingServes
<1>5. Described(ToSet(BuildCatalog(c)), target, method)
        <=> \/ Described(CameraDescriptors(c), target, method)
            \/ IsColorEnabled(c) /\ Described(ColorDescriptors(c), target, method)
            \/ c.recording.enabled /\ Described(RecordingDescriptors(c), target, method)
  BY CatalogElements, PartElements DEF Described
<1>6. QED
  BY <1>2, <1>3, <1>4, <1>5 DEF Serves

\* So are the endpoints of the metadata.
LEMMA MetadataRoutes ==
  ASSUME NEW c, NEW path
  PROVE  path \in MetadataEndpoints(c) <=> \E method : Serves(c, path, method)
BY DEF MetadataEndpoints, Serves, CameraServes, ColorServes, RecordingServes

\* The codes of the replies of each route.
LEMMA RouteCodes ==
  ASSUME NEW body
  PROVE  /\ \A reply \in PostRoiDepth(body) \cup {PostPixelPoint(body), GetPointcloudSnapshot} :
              reply.code \notin NotServed
         /\ \A k \in Kinds : /\ GetSnapshot(k).code \notin NotServed
                             /\ \A reply \in StreamReplies(k) :
                                  reply.code \in NotServed <=> k = "COLOR" /\ ~IsColorEnabled(config)
         /\ \A reply \in PostRecordingStart(body) \cup PostRecordingStop(body) :
              reply.code \in NotServed <=> ~config.recording.enabled
         /\ GetHealth.code \notin NotServed
<1> USE DEF NotServed, Error, Answer, Answered, InvalidRequest, NoFreshFrame, QueryFailed,
            ProviderFailure
<1>1. ASSUME NEW result, NEW point
      PROVE  Serialized(result, point).code \notin NotServed
  BY DEF Serialized
<1>2. \A reply \in PostRoiDepth(body) : reply.code \notin NotServed
  BY <1>1 DEF PostRoiDepth
<1>3. PostPixelPoint(body).code \notin NotServed
  BY <1>1 DEF PostPixelPoint
<1>4. GetPointcloudSnapshot.code \notin NotServed
  BY DEF GetPointcloudSnapshot
<1>5. \A k \in Kinds : GetSnapshot(k).code \notin NotServed
  BY DEF GetSnapshot
<1>6. \A k \in Kinds : \A reply \in StreamReplies(k) :
        reply.code \in NotServed <=> k = "COLOR" /\ ~IsColorEnabled(config)
  BY <1>5 DEF StreamReplies
<1>7. \A reply \in PostRecordingStart(body) \cup PostRecordingStop(body) :
        reply.code \in NotServed <=> ~config.recording.enabled
  BY DEF PostRecordingStart, PostRecordingStop, RecordingRefusal
<1>8. GetHealth.code \notin NotServed
  BY DEF GetHealth
<1>9. QED
  BY <1>2, <1>3, <1>4, <1>5, <1>6, <1>7, <1>8, Zenon

\* A request from no other origin is told that its resource is not served exactly when
\* the configuration does not serve it.
LEMMA ServedCodes ==
  ASSUME NEW request, request.origin = None, request.method # "OPTIONS",
         Path(request.target) # "/recordings/current", NEW reply \in Replies(request)
  PROVE  reply.code \in NotServed <=> ~Serves(config, Path(request.target), request.method)
<1> DEFINE path == Path(request.target)
           body == request.body
           method == request.method
<1> USE DEF Serves, CameraServes, ColorServes, RecordingServes
<1>1. CASE method # (IF path \in PostRoutes THEN "POST" ELSE "GET")
  <2>1. reply = Error(405, "method_not_allowed")
    BY <1>1 DEF Replies
  <2>2. reply.code \in NotServed
    BY <2>1 DEF Error, NotServed
  <2>3. ~Serves(config, path, method)
    BY <1>1 DEF PostRoutes
  <2>4. QED
    BY <2>2, <2>3
<1>2. CASE method = (IF path \in PostRoutes THEN "POST" ELSE "GET")
  <2> HIDE DEF body
  <2>1. /\ path = "/stream/color.mjpg" => reply \in StreamReplies("COLOR")
        /\ path = "/stream/depth.mjpg" => reply \in StreamReplies("DEPTH")
        /\ path \notin {"/stream/color.mjpg", "/stream/depth.mjpg"} => reply \in RouteReplies(path, body)
    BY <1>2 DEF Replies, body, PostRoutes
  <2> HIDE DEF path, method
  <2>2. CASE path \in {"/stream/color.mjpg", "/stream/depth.mjpg"}
    BY <1>2, <2>1, <2>2, RouteCodes DEF Kinds, PostRoutes, path, method
  <2>3. CASE path \in {"/recordings/start", "/recordings/stop"}
    <3>1. reply \in PostRecordingStart(body) \cup PostRecordingStop(body)
      BY <2>1, <2>3 DEF RouteReplies
    <3>2. QED
      BY <1>2, <2>3, <3>1, RouteCodes DEF PostRoutes, path, method
  <2>4. CASE path = "/snapshot/color"
    <3>1. reply = IF IsColorEnabled(config) THEN GetSnapshot("COLOR") ELSE Error(404, "route_not_found")
      BY <2>1, <2>4 DEF RouteReplies
    <3>2. reply.code \in NotServed <=> ~IsColorEnabled(config)
      BY <3>1, RouteCodes DEF Kinds, Error, NotServed
    <3>3. QED
      BY <1>2, <2>4, <3>2 DEF PostRoutes, path, method
  <2>5. CASE path \in {"/query/roi_depth", "/query/pixel_to_point", "/health", "/metadata",
                       "/snapshot/depth", "/snapshot/pointcloud.bin"}
    <3>1. reply.code \notin NotServed
      <4>1. CASE path \in {"/query/roi_depth", "/query/pixel_to_point", "/snapshot/pointcloud.bin"}
        <5>1. reply \in PostRoiDepth(body) \cup {PostPixelPoint(body), GetPointcloudSnapshot}
          BY <2>1, <4>1 DEF RouteReplies
        <5>2. QED
          BY <5>1, RouteCodes
      <4>2. CASE path \in {"/health", "/snapshot/depth"}
        <5>1. reply \in {GetHealth, GetSnapshot("DEPTH")}
          BY <2>1, <4>2 DEF RouteReplies
        <5>2. QED
          BY <5>1, RouteCodes DEF Kinds
      <4>3. CASE path = "/metadata"
        <5>1. reply = Answer(MetadataEndpoints(config))
          BY <2>1, <4>3 DEF RouteReplies
        <5>2. QED
          BY <5>1 DEF Answer, NotServed
      <4>4. QED
        BY <2>5, <4>1, <4>2, <4>3
    <3>2. CameraServes(path, method)
      BY <1>2, <2>5 DEF PostRoutes
    <3>3. QED
      BY <3>1, <3>2 DEF path, method
  <2>6. CASE path \notin {"/stream/color.mjpg", "/stream/depth.mjpg", "/recordings/start",
                          "/recordings/stop", "/recordings/current", "/snapshot/color",
                          "/query/roi_depth", "/query/pixel_to_point", "/health", "/metadata",
                          "/snapshot/depth", "/snapshot/pointcloud.bin"}
    <3>1. reply = Error(404, "route_not_found")
      BY <2>1, <2>6 DEF RouteReplies
    <3>2. QED
      BY <2>6, <3>1 DEF Error, NotServed, path, method
  <2>7. path # "/recordings/current"
    BY DEF path
  <2>8. QED
    BY <2>2, <2>3, <2>4, <2>5, <2>6, <2>7
<1>3. QED
  BY <1>1, <1>2

\* The catalog sent to the Pilot, the metadata and the routes agree, for every accepted
\* configuration and every request.
THEOREM AdvertisedEndpointsAreServed == Spec => []AdvertisedIsServed
<1>1. ApiInv => AdvertisedIsServed
  <2> SUFFICES ASSUME ApiInv, advertised # None,
                      config.provider.advertised_base_url.path \in {<<>>, <<"/">>}
               PROVE  /\ {d.target : d \in ToSet(advertised)} = {<<path>> : path \in MetadataEndpoints(config)}
                      /\ exchange # None /\ exchange.request.origin = None
                           /\ exchange.request.method # "OPTIONS"
                           /\ exchange.request.target # <<"/recordings/current">> =>
                           (exchange.reply.code \in NotServed <=>
                              ~Described(ToSet(advertised), exchange.request.target,
                                         exchange.request.method))
    BY DEF AdvertisedIsServed, Described, Describes
  <2>1. phase \in {"running", "stopped"} /\ advertised = BuildCatalog(config)
    BY DEF ApiInv, ConfigAccepted, NothingBefore, AdvertisedIsCatalog
  <2>2. PICK d \in Accepted : config = VisionConfigOf(d)
    BY <2>1 DEF ApiInv, ConfigAccepted
  <2>3. config.provider.advertised_base_url.path \in Seq(STRING)
    BY <2>2, AcceptedBase
  <2>4. ASSUME NEW target, NEW method
        PROVE  Described(ToSet(advertised), target, method)
                 <=> \E path : target = <<path>> /\ Serves(config, path, method)
    BY <2>1, <2>3, CatalogRoutes
  <2>5. {e.target : e \in ToSet(advertised)} = {<<path>> : path \in MetadataEndpoints(config)}
    <3>1. ASSUME NEW target
          PROVE  (\E e \in ToSet(advertised) : target = e.target)
                   <=> \E method : Described(ToSet(advertised), target, method)
      BY DEF Described, Describes
    <3>2. ASSUME NEW target
          PROVE  (\E e \in ToSet(advertised) : target = e.target)
                   <=> \E path \in MetadataEndpoints(config) : target = <<path>>
      BY <2>4, <3>1, MetadataRoutes
    <3>3. QED
      BY <3>2
  <2>6. ASSUME exchange # None, exchange.request.origin = None, exchange.request.method # "OPTIONS",
               exchange.request.target # <<"/recordings/current">>
        PROVE  exchange.reply.code \in NotServed
                 <=> ~Described(ToSet(advertised), exchange.request.target, exchange.request.method)
    <3> DEFINE request == exchange.request
    <3>1. request \in Requests /\ exchange.reply \in Replies(request)
      BY <2>6 DEF ApiInv, ReplyIsTheRoutes
    <3>2. request.target \in Seq(STRING)
      BY <3>1, RequestsAssumption
    <3>3. Path(request.target) # "/recordings/current"
      BY <2>6, <3>2, TargetOfPath
    <3>4. exchange.reply.code \in NotServed <=> ~Serves(config, Path(request.target), request.method)
      BY <2>6, <3>1, <3>3, ServedCodes
    <3>5. Serves(config, Path(request.target), request.method)
            <=> \E path : request.target = <<path>> /\ Serves(config, path, request.method)
      <4>1. ~Serves(config, "other", request.method)
        BY DEF Serves, CameraServes, ColorServes, RecordingServes
      <4>2. /\ Path(request.target) # "other" => request.target = <<Path(request.target)>>
            /\ \A path : request.target = <<path>> => Path(request.target) = path
        BY <3>2, TargetOfPath
      <4>3. QED
        BY <4>1, <4>2
    <3>6. QED
      BY <2>4, <3>4, <3>5
  <2>7. QED
    BY <2>5, <2>6
<1>2. QED
  BY <1>1, ApiInvariant, PTL

-----------------------------------------------------------------------------
(***************************************************************************)
(* The queries.                                                            *)
(***************************************************************************)
\* What queryDepthInRoi gives for a region with an area has the fields of a result.
LEMMA RoiAnswers ==
  ASSUME NEW f, NEW roi, roi.width \in Int, roi.height \in Int, roi.width > 0, roi.height > 0,
         NEW result \in QueryDepthInRoi(f, roi)
  PROVE  DOMAIN result = DOMAIN EmptyRoiResult(f, roi) /\ ~Throws(result)
<1> DEFINE clamped == ClampedRoi(f.profile, roi)
           samples == RoiSamples(f, clamped)
           depths == SortedDepths(f, samples)
           n == Len(samples)
           median == depths[(n \div 2) + 1]
           area == clamped.width * clamped.height
           counted == [EmptyRoiResult(f, roi) EXCEPT
                         !.roi = clamped, !.pixels = area, !.validPixels = n]
           full == [counted EXCEPT
                      !.valid = TRUE, !.min = depths[1], !.max = depths[n], !.sum = Total(f, samples),
                      !.median = median]
           answer(pixel) == [full EXCEPT !.medianPixel = pixel,
                                         !.medianPoint = Deproject(pixel[1], pixel[2], median)]
<1>1. \/ result = EmptyRoiResult(f, roi)
      \/ result = counted
      \/ \E pixel : result = answer(pixel)
  <2>1. ~(roi.width <= 0 \/ roi.height <= 0)
    OBVIOUS
  <2>2. result \in IF f.adapter = "intel_d435" THEN {EmptyRoiResult(f, roi)}
                   ELSE IF n = 0 THEN {counted}
                   ELSE {answer(pixel) : pixel \in {p \in ToSet(samples) : DepthAt(f, p) = median}}
    BY <2>1, Zenon DEF QueryDepthInRoi
  <2> HIDE DEF answer, counted, samples, n, median
  <2>3. QED
    BY <2>2, Zenon
<1>2. "error" \notin DOMAIN EmptyRoiResult(f, roi)
  BY DEF EmptyRoiResult
<1>3. ASSUME NEW r, NEW field, NEW value
      PROVE  DOMAIN [r EXCEPT ![field] = value] = DOMAIN r
  OBVIOUS
<1>4. DOMAIN result = DOMAIN EmptyRoiResult(f, roi)
  BY <1>1, <1>3, Zenon
<1>5. QED
  BY <1>2, <1>4 DEF Throws

\* The mount of a running application is valid.
LEMMA MountOfConfig ==
  ASSUME ApiInv, phase = "running"
  PROVE  ValidMatrix(Mount) /\ Mount \in Matrices
<1>1. PICK d \in Accepted : config = VisionConfigOf(d)
  BY DEF ApiInv, ConfigAccepted
<1>2. config.pose \in Poses
  BY <1>1, AcceptedPose
<1>3. QED
  BY <1>2, MountIsValid DEF Mount

\* The point cloud of a frame can be written.
LEMMA CloudAnswers ==
  ASSUME ApiInv, phase = "running"
  PROVE  GetPointcloudSnapshot # ProviderFailure
<1> DEFINE f == FreshFrame
           cloud == BuildPointCloudSnapshot(f, POINTCLOUD_MAX_POINTS, POINTCLOUD_STRIDE_PIXELS)
           written == WritePcd1V2(WithMount(cloud))
<1>1. SUFFICES ASSUME f # None
               PROVE  ~Throws(cloud) /\ ~Throws(written)
  BY DEF GetPointcloudSnapshot, ProviderFailure, NoFreshFrame, Answer, Error
<1>2. f = frame.captured /\ frame # None
  BY <1>1 DEF FreshFrame
<1>3. f.profile.width \in Nat \ {0} /\ f.profile.height \in Nat \ {0}
  <2>1. PICK d \in Accepted : config = VisionConfigOf(d)
    BY DEF ApiInv, ConfigAccepted
  <2>2. f.profile = DepthProfile(config)
    BY <1>2 DEF ApiInv, FrameIsTheCameras, GivenBy, FakeFrame, D435Frame
  <2>3. QED
    BY <2>1, <2>2, AcceptedCamera
<1> HIDE DEF f
<1>4. /\ ~Throws(cloud) /\ cloud.profile = f.profile /\ cloud.requestedStride = 1
      /\ cloud.stride \in Nat \ {0}
      /\ {"profile", "requestedStride", "stride"} \subseteq DOMAIN cloud
  <2> DEFINE stride == IF f.adapter = "intel_d435" THEN POINTCLOUD_STRIDE_PIXELS
                       ELSE EffectiveStride(f.profile, POINTCLOUD_MAX_POINTS, POINTCLOUD_STRIDE_PIXELS)
  <2>1. stride \in Nat \ {0}
    <3>1. POINTCLOUD_MAX_POINTS \in Nat \ {0} /\ POINTCLOUD_STRIDE_PIXELS \in Nat \ {0}
      BY BoundAssumption DEF POINTCLOUD_STRIDE_PIXELS
    <3>2. EffectiveStride(f.profile, POINTCLOUD_MAX_POINTS, POINTCLOUD_STRIDE_PIXELS) \in Nat \ {0}
      BY <1>3, <3>1, StrideIsFinest
    <3>3. QED
      BY <3>1, <3>2
  <2>2. POINTCLOUD_MAX_POINTS # 0 /\ ~(POINTCLOUD_STRIDE_PIXELS <= 0)
    BY BoundAssumption DEF POINTCLOUD_STRIDE_PIXELS
  <2>3. \E intrinsics, points, identity :
          cloud = [identity |-> identity, profile |-> f.profile, intrinsics |-> intrinsics,
                   requestedStride |-> POINTCLOUD_STRIDE_PIXELS, stride |-> stride, points |-> points]
    BY <2>2, Zenon DEF BuildPointCloudSnapshot
  <2> HIDE DEF cloud, stride
  <2>4. QED
    BY <2>1, <2>3 DEF Throws, POINTCLOUD_STRIDE_PIXELS
<1> HIDE DEF cloud
<1>5. /\ WithMount(cloud).profile = f.profile /\ WithMount(cloud).requestedStride = 1
      /\ WithMount(cloud).stride \in Nat \ {0} /\ WithMount(cloud).matrix = Matrix3x4(Mount)
  BY <1>4 DEF WithMount, WithField
<1>6. IsRotation(Rows(Matrix3x4(Mount)))
  BY MountOfConfig, MatrixRows DEF ValidMatrix
<1>7. ValidPointCloud(WithMount(cloud))
  BY <1>3, <1>5, <1>6 DEF ValidPointCloud
<1>8. ~Throws(written)
  BY <1>7, Zenon DEF WritePcd1V2, Throws
<1>9. QED
  BY <1>4, <1>8

\* No route fails inside, for every accepted configuration and every request.
THEOREM QueriesDoNotThrow == Spec => []NoInternalError
<1>1. ApiInv => NoInternalError
  <2> SUFFICES ASSUME ApiInv, exchange # None
               PROVE  exchange.reply.code \notin {"query_failed", "provider_failure"}
    BY DEF NoInternalError
  <2> DEFINE request == exchange.request
             reply == exchange.reply
             path == Path(request.target)
             Fails(r) == r.code \in {"query_failed", "provider_failure"}
  <2>1. phase = "running" /\ request \in Requests /\ reply \in Replies(request)
    BY DEF ApiInv, NothingBefore, ReplyIsTheRoutes
  <2>2. ValidMatrix(Mount)
    BY <2>1, MountOfConfig
  <2>3. ASSUME NEW result, NEW point
        PROVE  ~Fails(Serialized(result, point))
    BY <2>2 DEF Serialized, Answer
  <2>4. \A body : ~Fails(PostPixelPoint(body))
    BY <2>3 DEF PostPixelPoint, InvalidRequest, NoFreshFrame, Error, Answer
  <2>5. path = "/query/roi_depth" => \A r \in PostRoiDepth(request.body) : ~Fails(r)
    <3> SUFFICES ASSUME path = "/query/roi_depth", NEW r \in PostRoiDepth(request.body)
                 PROVE  ~Fails(r)
      OBVIOUS
    <3> DEFINE body == request.body
               roi == Roi(body.x, body.y, body.width, body.height)
    <3>1. request.target = <<"/query/roi_depth">>
      BY <2>1, TargetOfPath, RequestsAssumption
    <3>2. body.shape = "ok" => body.width \in Int /\ body.height \in Int
      BY <2>1, <3>1, RequestsAssumption
    <3>3. CASE r \in {InvalidRequest, NoFreshFrame}
      BY <3>3 DEF InvalidRequest, NoFreshFrame, Error
    <3>4. CASE r \notin {InvalidRequest, NoFreshFrame}
      <4> HIDE DEF body
      <4>1. /\ body.shape = "ok" /\ body.width > 0 /\ body.height > 0
            /\ \E result \in QueryDepthInRoi(FreshFrame, roi) :
                 r = IF Throws(result) THEN QueryFailed ELSE Serialized(result, result.medianPoint)
        BY <3>4 DEF PostRoiDepth, Parses, IsRoiRequestValid, body
      <4>2. roi.width = body.width /\ roi.height = body.height
        BY DEF Roi
      <4> HIDE DEF roi
      <4>3. \A result \in QueryDepthInRoi(FreshFrame, roi) : ~Throws(result)
        BY <3>2, <4>1, <4>2, RoiAnswers
      <4>4. QED
        BY <2>3, <4>1, <4>3
    <3>5. QED
      BY <3>3, <3>4
  <2>6. ~Fails(GetPointcloudSnapshot)
    BY <2>1, CloudAnswers
       DEF GetPointcloudSnapshot, ProviderFailure, NoFreshFrame, Answer, Error
  <2>7. \A k \in Kinds : /\ ~Fails(GetSnapshot(k))
                         /\ \A r \in StreamReplies(k) : ~Fails(r)
    BY DEF GetSnapshot, StreamReplies, NoFreshFrame, Error, Answer
  <2>8. \A body : \A r \in PostRecordingStart(body) \cup PostRecordingStop(body) : ~Fails(r)
    BY DEF PostRecordingStart, PostRecordingStop, RecordingRefusal, InvalidRequest, Error, Answered
  <2>9. ~Fails(GetHealth) /\ \A result : ~Fails(Answer(result))
    BY DEF GetHealth, Answer
  <2>10. \/ reply \in {Error(403, "cors_origin_denied"), Error(403, "cors_origin_required"),
                      Answered(204), Error(405, "method_not_allowed")}
         \/ \E k \in Kinds : reply \in StreamReplies(k)
         \/ reply \in RouteReplies(path, request.body)
    BY <2>1 DEF Replies, Kinds
  <2>11. CASE reply \in RouteReplies(path, request.body)
    <3>1. \/ path = "/query/roi_depth" /\ reply \in PostRoiDepth(request.body)
          \/ reply = PostPixelPoint(request.body)
          \/ reply \in PostRecordingStart(request.body) \cup PostRecordingStop(request.body)
          \/ reply \in {GetHealth, Answer(MetadataEndpoints(config)), GetPointcloudSnapshot}
          \/ \E k \in Kinds : reply = GetSnapshot(k)
          \/ reply \in {Answered(200), Error(404, "route_not_found")}
      BY <2>11 DEF RouteReplies, Kinds
    <3>2. CASE reply \in {Answered(200), Error(404, "route_not_found")}
      BY <3>2 DEF Answered, Error
    <3>3. CASE path = "/query/roi_depth" /\ reply \in PostRoiDepth(request.body)
      BY <2>5, <3>3
    <3>4. CASE reply = PostPixelPoint(request.body)
      BY <2>4, <3>4
    <3>5. CASE reply \in PostRecordingStart(request.body) \cup PostRecordingStop(request.body)
      BY <2>8, <3>5
    <3>6. CASE reply \in {GetHealth, Answer(MetadataEndpoints(config)), GetPointcloudSnapshot}
      BY <2>6, <2>9, <3>6
    <3>7. CASE \E k \in Kinds : reply = GetSnapshot(k)
      BY <2>7, <3>7
    <3>8. QED
      BY <3>1, <3>2, <3>3, <3>4, <3>5, <3>6, <3>7
  <2>12. CASE reply \in {Error(403, "cors_origin_denied"), Error(403, "cors_origin_required"),
                         Answered(204), Error(405, "method_not_allowed")}
    BY <2>12 DEF Error, Answered
  <2>13. QED
    BY <2>7, <2>10, <2>11, <2>12
<1>2. QED
  BY <1>1, ApiInvariant, PTL

-----------------------------------------------------------------------------
(***************************************************************************)
(* The answers of the fake camera.                                         *)
(***************************************************************************)
\* An answer with a result comes from the route of its path.
LEMMA QueryReplies ==
  ASSUME NEW path \in {"/query/pixel_to_point", "/query/roi_depth", "/snapshot/pointcloud.bin"},
         ApiInv, Queried(path)
  PROVE  /\ phase = "running" /\ exchange.request \in Requests
         /\ exchange.request.target = <<path>> /\ exchange.captured = FreshFrame
         /\ exchange.reply \in RouteReplies(path, exchange.request.body)
         /\ "result" \in DOMAIN exchange.reply
<1> DEFINE request == exchange.request
           reply == exchange.reply
<1>1. /\ phase = "running" /\ request \in Requests /\ reply \in Replies(request)
      /\ request.target = <<path>> /\ exchange.captured = FreshFrame /\ "result" \in DOMAIN reply
  BY DEF Queried, ApiInv, NothingBefore, ReplyIsTheRoutes
<1>2. Path(request.target) = path
  BY <1>1, RequestsAssumption, TargetOfPath
<1>3. \/ reply \in {Error(403, "cors_origin_denied"), Error(403, "cors_origin_required"),
                     Answered(204), Error(405, "method_not_allowed")}
      \/ reply \in RouteReplies(path, request.body)
  BY <1>1, <1>2 DEF Replies
<1>4. ~(reply \in {Error(403, "cors_origin_denied"), Error(403, "cors_origin_required"),
                    Answered(204), Error(405, "method_not_allowed")})
  BY <1>1 DEF Error, Answered
<1>5. QED
  BY <1>1, <1>3, <1>4

\* The serializers keep the result of a query, and add the point where the configured
\* rotations and translation place it.
LEMMA SerializedAnswer ==
  ASSUME ApiInv, phase = "running", NEW result, NEW point \in Vectors
  PROVE  Serialized(result, point)
           = Answer(WithField(result, "mountPoint", PointInMount(config.pose, point)))
<1>1. PICK d \in Accepted : config = VisionConfigOf(d)
  BY DEF ApiInv, ConfigAccepted
<1>2. config.pose \in Poses
  BY <1>1, AcceptedPose
<1>3. TransformCameraPointToMount(point, Mount) = PointInMount(config.pose, point)
  BY <1>2, MountMatchesReference DEF Mount
<1>4. ValidMatrix(Mount)
  BY MountOfConfig
<1>5. QED
  BY <1>3, <1>4, Zenon DEF Serialized

\* The frame a query of the fake camera was answered from.
LEMMA FakeFrames ==
  ASSUME ApiInv, config.adapter = "fake", phase = "running", FreshFrame # None
  PROVE  \E generation : \E number \in 1 .. LastNumber(config) :
           FreshFrame = FakeFrame(DepthProfile(config), config.camera.pattern_seed,
                                  generation, number)
<1>1. frame # None /\ FreshFrame = frame.captured
  BY DEF FreshFrame
<1>2. GivenBy(config, FreshFrame)
  BY <1>1 DEF ApiInv, FrameIsTheCameras
<1>3. QED
  BY <1>2, Zenon DEF GivenBy

\* The sizes of the image.
LEMMA ConfiguredSizes ==
  ASSUME ApiInv, phase = "running"
  PROVE  /\ DepthProfile(config).width \in Nat \ {0} /\ DepthProfile(config).height \in Nat \ {0}
         /\ DepthProfile(config).width <= MaxSide /\ DepthProfile(config).height <= MaxSide
<1>1. PICK d \in Accepted : config = VisionConfigOf(d)
  BY DEF ApiInv, ConfigAccepted
<1>2. QED
  BY <1>1, AcceptedCamera, LimitsAssumption

\* A point of the camera has three integer coordinates.
LEMMA DeprojectedPoint ==
  ASSUME NEW x \in Int, NEW y \in Int, NEW depth \in Int
  PROVE  Deproject(x, y, depth) \in Vectors
BY DEF Deproject, FocalLength, Vectors

\* A field of a record with one more.
LEMMA WithFieldIs ==
  ASSUME NEW record, NEW name, NEW value
  PROVE  /\ WithField(record, name, value)[name] = value
         /\ \A field \in DOMAIN record \ {name} :
              WithField(record, name, value)[field] = record[field]
BY DEF WithField

\* What a pixel answers has a point when it is valid.
LEMMA PixelFields ==
  ASSUME NEW f, NEW x, NEW y
  PROVE  LET q == QueryPixelPoint(f, x, y)
         IN "valid" \in DOMAIN q /\ (q.valid => "point" \in DOMAIN q)
<1> DEFINE q == QueryPixelPoint(f, x, y)
<1>1. \/ \E reason : q = [identity |-> f.identity, x |-> x, y |-> y,
                          valid |-> FALSE, reason |-> reason]
      \/ \E depth, point : q = [identity |-> f.identity, x |-> x, y |-> y,
                                valid |-> TRUE, depth |-> depth, point |-> point]
  BY Zenon DEF QueryPixelPoint
<1> HIDE DEF q
<1>2. "valid" \in DOMAIN q /\ (q.valid => "point" \in DOMAIN q)
  BY <1>1
<1>3. QED
  BY <1>2 DEF q

\* queryPixelPoint, from the request to its answer.
LEMMA PixelQueriesMatch ==
  ASSUME ApiInv, config.adapter = "fake", exchange.captured # None,
         Queried("/query/pixel_to_point")
  PROVE  LET body == exchange.request.body
             result == exchange.reply.result
             point == Deproject(body.x, body.y, FakeDepth(body.x, body.y))
         IN /\ result.valid <=> FakeDepth(body.x, body.y) > 0
            /\ result.valid => /\ result.point = point
                               /\ result.mountPoint = PointInMount(config.pose, point)
<1> DEFINE body == exchange.request.body
           reply == exchange.reply
           x == body.x
           y == body.y
           profile == DepthProfile(config)
           q == QueryPixelPoint(FreshFrame, x, y)
           point == Deproject(x, y, FakeDepth(x, y))
           placed == PointInMount(config.pose, point)
<1>1. /\ phase = "running" /\ exchange.request \in Requests
      /\ exchange.request.target = <<"/query/pixel_to_point">> /\ FreshFrame # None
      /\ reply \in RouteReplies("/query/pixel_to_point", body) /\ "result" \in DOMAIN reply
  BY QueryReplies
<1>2. reply = PostPixelPoint(body)
  BY <1>1 DEF RouteReplies
<1>3. /\ Parses(body) /\ IsPixelRequestValid(body, FreshFrame.profile)
      /\ reply = IF q.valid THEN Serialized(q, q.point) ELSE Answer(q)
  <2> HIDE DEF reply
  <2>1. reply \notin {InvalidRequest, NoFreshFrame}
    BY <1>1 DEF InvalidRequest, NoFreshFrame, Error
  <2>2. QED
    BY <1>1, <1>2, <2>1, Zenon DEF PostPixelPoint
<1>4. x \in Int /\ y \in Int
  BY <1>1, <1>3, RequestsAssumption DEF Parses
<1>5. PICK generation : \E number \in 1 .. LastNumber(config) :
        FreshFrame = FakeFrame(profile, config.camera.pattern_seed, generation, number)
  BY <1>1, FakeFrames
<1>6. PICK number \in 1 .. LastNumber(config) :
        FreshFrame = FakeFrame(profile, config.camera.pattern_seed, generation, number)
  BY <1>5
<1>7. FreshFrame.profile = profile
  BY <1>6 DEF FakeFrame
<1>8. profile.width \in Nat \ {0} /\ profile.height \in Nat \ {0}
  BY <1>1, ConfiguredSizes
<1>9. x \in 0 .. profile.width - 1 /\ y \in 0 .. profile.height - 1
  BY <1>3, <1>4, <1>7, <1>8 DEF IsPixelRequestValid
<1> HIDE DEF profile, x, y
<1>10. /\ q.valid <=> FakeDepth(x, y) > 0
       /\ q.valid => q.point = point
  <2> DEFINE f == FakeFrame(profile, config.camera.pattern_seed, generation, number)
             answer == QueryPixelPoint(f, x, y)
  <2>1. /\ answer.x = x /\ answer.y = y
        /\ answer.identity.generation = generation /\ answer.identity.number = number
        /\ answer.valid <=> FakeDepth(x, y) > 0
        /\ answer.valid => /\ answer.depth = FakeDepth(x, y)
                           /\ answer.point = Deproject(x, y, FakeDepth(x, y))
    BY <1>8, <1>9, PixelAnswerMatches
  <2>2. q = answer
    BY <1>6
  <2> HIDE DEF answer, q
  <2>3. QED
    BY <2>1, <2>2
<1>11. "valid" \in DOMAIN q /\ (q.valid => "point" \in DOMAIN q)
  BY PixelFields
<1>12. point \in Vectors
  <2>1. x \in Nat /\ y \in Nat
    BY <1>8, <1>9
  <2>2. FakeDepth(x, y) \in Int
    BY <2>1, FakeDepthType
  <2>3. QED
    BY <1>4, <2>2, DeprojectedPoint
<1> HIDE DEF q, point
<1>13. CASE q.valid
  <2>1. q.point = point
    BY <1>10, <1>13
  <2>2. reply = Answer(WithField(q, "mountPoint", placed))
    BY <1>1, <1>3, <1>12, <1>13, <2>1, SerializedAnswer, Zenon DEF placed
  <2>3. reply.result = WithField(q, "mountPoint", placed)
    BY <2>2 DEF Answer
  <2>4. /\ reply.result["mountPoint"] = placed /\ reply.result["valid"] = q["valid"]
        /\ reply.result["point"] = q["point"]
    <3>1. {"valid", "point"} \subseteq DOMAIN q \ {"mountPoint"}
      BY <1>11, <1>13
    <3>2. QED
      BY <2>3, <3>1, WithFieldIs
  <2>5. QED
    BY <1>10, <1>13, <2>1, <2>4 DEF x, y, point, placed
<1>14. CASE ~q.valid
  <2>1. reply.result = q
    BY <1>3, <1>14 DEF Answer
  <2>2. QED
    BY <1>10, <1>14, <2>1 DEF x, y
<1>15. QED
  BY <1>13, <1>14

\* What RoiMatches says of a result is about these of its fields, and about the sides of
\* the region it was asked for.
LEMMA RoiMatchesFields ==
  ASSUME NEW profile, NEW roi, NEW body, NEW q, NEW result,
         body.x = roi.x, body.y = roi.y, body.width = roi.width, body.height = roi.height,
         \A field \in {"roi", "pixels", "validPixels", "valid", "medianPixel", "median",
                       "min", "max", "sum"} : result[field] = q[field],
         RoiMatches(profile, roi, q)
  PROVE  RoiMatches(profile, body, result)
<1>1. \A p : InRoi(body, p) = InRoi(roi, p)
  BY DEF InRoi
<1>2. {p \in Pixels(profile) : InRoi(body, p)} = {p \in Pixels(profile) : InRoi(roi, p)}
  BY <1>1
<1>3. Samples(profile, body) = Samples(profile, roi)
  BY <1>1 DEF Samples
<1>4. /\ result.roi = q.roi /\ result.pixels = q.pixels /\ result.validPixels = q.validPixels
      /\ result.valid = q.valid /\ result.medianPixel = q.medianPixel /\ result.median = q.median
      /\ result.min = q.min /\ result.max = q.max /\ result.sum = q.sum
  OBVIOUS
<1>5. QED
  BY <1>2, <1>3, <1>4, Zenon DEF RoiMatches

\* queryDepthInRoi, from the request to its answer.
LEMMA RoiQueriesMatch ==
  ASSUME ApiInv, config.adapter = "fake", exchange.captured # None, Queried("/query/roi_depth")
  PROVE  LET result == exchange.reply.result
             pixel == result.medianPixel
         IN /\ RoiMatches(exchange.captured.profile, exchange.request.body, result)
            /\ result.mountPoint =
                 PointInMount(config.pose,
                   IF result.valid THEN Deproject(pixel[1], pixel[2], FakeDepth(pixel[1], pixel[2]))
                   ELSE <<0, 0, 0>>)
<1> DEFINE body == exchange.request.body
           reply == exchange.reply
           roi == Roi(body.x, body.y, body.width, body.height)
           profile == DepthProfile(config)
           seed == config.camera.pattern_seed
<1>1. /\ phase = "running" /\ exchange.request \in Requests
      /\ exchange.request.target = <<"/query/roi_depth">>
      /\ exchange.captured = FreshFrame /\ FreshFrame # None
      /\ reply \in RouteReplies("/query/roi_depth", body) /\ "result" \in DOMAIN reply
  BY QueryReplies
<1>2. reply \in PostRoiDepth(body)
  BY <1>1 DEF RouteReplies
<1>3. /\ Parses(body) /\ IsRoiRequestValid(body, FreshFrame.profile)
      /\ \E q \in QueryDepthInRoi(FreshFrame, roi) :
           reply = IF Throws(q) THEN QueryFailed ELSE Serialized(q, q.medianPoint)
  <2> HIDE DEF reply
  <2>1. reply \notin {InvalidRequest, NoFreshFrame}
    BY <1>1 DEF InvalidRequest, NoFreshFrame, Error
  <2>2. QED
    BY <1>1, <1>2, <2>1, Zenon DEF PostRoiDepth
<1>4. PICK q \in QueryDepthInRoi(FreshFrame, roi) :
        reply = IF Throws(q) THEN QueryFailed ELSE Serialized(q, q.medianPoint)
  BY <1>3
<1>5. reply = Serialized(q, q.medianPoint)
  <2> HIDE DEF reply
  <2>1. reply # QueryFailed
    BY <1>1 DEF QueryFailed, Error
  <2>2. QED
    BY <1>4, <2>1
<1>6. /\ body.x \in Int /\ body.y \in Int
      /\ body.width \in Nat \ {0} /\ body.height \in Nat \ {0}
  <2>1. {body.x, body.y, body.width, body.height} \subseteq Int
    BY <1>1, <1>3, RequestsAssumption DEF Parses
  <2>2. body.width > 0 /\ body.height > 0
    BY <1>3 DEF IsRoiRequestValid
  <2>3. QED
    BY <2>1, <2>2
<1>7. PICK generation : \E number \in 1 .. LastNumber(config) :
        FreshFrame = FakeFrame(profile, seed, generation, number)
  BY <1>1, FakeFrames
<1>8. PICK number \in 1 .. LastNumber(config) :
        FreshFrame = FakeFrame(profile, seed, generation, number)
  BY <1>7
<1>9. FreshFrame.profile = profile
  BY <1>8 DEF FakeFrame
<1>10. profile.width \in Nat \ {0} /\ profile.height \in Nat \ {0}
  BY <1>1, ConfiguredSizes
<1> HIDE DEF profile, seed
<1>11. /\ RoiMatches(profile, roi, q) /\ q.valid \in BOOLEAN
       /\ q.medianPoint =
            IF q.valid THEN Deproject(q.medianPixel[1], q.medianPixel[2], PixelDepth(q.medianPixel))
            ELSE <<0, 0, 0>>
  <2> DEFINE x == body.x
             y == body.y
             width == body.width
             height == body.height
  <2>1. q \in QueryDepthInRoi(FakeFrame(profile, seed, generation, number), Roi(x, y, width, height))
    BY <1>8
  <2>2. x \in Int /\ y \in Int /\ width \in Nat \ {0} /\ height \in Nat \ {0}
    BY <1>6
  <2>3. roi = Roi(x, y, width, height)
    OBVIOUS
  <2> HIDE DEF x, y, width, height, roi
  <2>4. /\ RoiMatches(profile, Roi(x, y, width, height), q) /\ q.valid \in BOOLEAN
        /\ q.medianPoint =
             IF q.valid THEN Deproject(q.medianPixel[1], q.medianPixel[2], PixelDepth(q.medianPixel))
             ELSE <<0, 0, 0>>
    BY <1>10, <2>1, <2>2, RoiAnswerMatches
  <2>5. QED
    BY <2>3, <2>4, Zenon
<1>12. {"roi", "pixels", "validPixels", "valid", "medianPixel", "median", "min", "max", "sum"}
         \subseteq DOMAIN q \ {"mountPoint"}
  <2>1. roi.width \in Int /\ roi.height \in Int /\ roi.width > 0 /\ roi.height > 0
    BY <1>6 DEF Roi
  <2>2. DOMAIN q = DOMAIN EmptyRoiResult(FreshFrame, roi)
    <3> HIDE DEF roi
    <3>1. QED
      BY <2>1, RoiAnswers
  <2> HIDE DEF roi
  <2>3. QED
    BY <2>2 DEF EmptyRoiResult
<1>13. roi.x = body.x /\ roi.y = body.y /\ roi.width = body.width /\ roi.height = body.height
  BY DEF Roi
<1> HIDE DEF roi
<1>14. q.medianPoint \in Vectors
  <2>1. CASE q.valid
    <3> DEFINE p == q.medianPixel
    <3>1. p \in Samples(profile, roi)
      BY <1>11, <2>1, Zenon DEF RoiMatches
    <3>2. p[1] \in 0 .. profile.width - 1 /\ p[2] \in 0 .. profile.height - 1
      BY <3>1 DEF Samples, Pixels
    <3>3. p[1] \in Nat /\ p[2] \in Nat
      BY <1>10, <3>2
    <3>4. PixelDepth(p) \in Int
      <4> HIDE DEF p
      <4>1. FakeDepth(p[1], p[2]) \in Nat
        BY <3>3, FakeDepthType
      <4>2. QED
        BY <4>1 DEF PixelDepth
    <3>5. Deproject(p[1], p[2], PixelDepth(p)) \in Vectors
      <4> HIDE DEF p
      <4>1. QED
        BY <3>3, <3>4, DeprojectedPoint
    <3>6. QED
      BY <1>11, <2>1, <3>5
  <2>2. CASE ~q.valid
    BY <1>11, <2>2 DEF Vectors
  <2>3. QED
    BY <2>1, <2>2
<1> DEFINE placed == PointInMount(config.pose, q.medianPoint)
<1>15. reply.result = WithField(q, "mountPoint", placed)
  <2>1. reply = Answer(WithField(q, "mountPoint", placed))
    BY <1>1, <1>5, <1>14, SerializedAnswer, Zenon
  <2> HIDE DEF placed
  <2>2. QED
    BY <2>1 DEF Answer
<1> HIDE DEF placed
<1>16. /\ reply.result["mountPoint"] = placed
       /\ \A field \in {"roi", "pixels", "validPixels", "valid", "medianPixel", "median",
                        "min", "max", "sum"} : reply.result[field] = q[field]
  BY <1>12, <1>15, WithFieldIs
<1>17. RoiMatches(profile, body, reply.result)
  <2> HIDE DEF body, reply
  <2>1. QED
    BY <1>11, <1>13, <1>16, RoiMatchesFields
<1>18. /\ reply.result.mountPoint = placed /\ reply.result.valid = q.valid
       /\ reply.result.medianPixel = q.medianPixel
  BY <1>16
<1>19. QED
  BY <1>1, <1>9, <1>11, <1>17, <1>18, Zenon DEF placed, PixelDepth

-----------------------------------------------------------------------------
(***************************************************************************)
(* The point clouds of a running application can be written.               *)
(***************************************************************************)
\* A time is not longer than its numerator.
LEMMA TimeFits ==
  ASSUME NEW n \in Nat, NEW scale \in Nat \ {0}, NEW fps \in Nat \ {0}, NEW top \in Nat,
         n * scale <= top
  PROVE  n \in 0 .. top /\ (n * scale) \div fps \in 0 .. top
<1> DEFINE m == n * scale
           q == m \div fps
<1>1. m \in Nat /\ n <= m
  <2>1. 1 <= scale => n * 1 <= n * scale
    OBVIOUS
  <2>2. QED
    BY <2>1
<1>2. m <= top
  OBVIOUS
<1> HIDE DEF m
<1>3. q \in Nat /\ fps * q <= m
  BY <1>1
<1> HIDE DEF q
<1>4. q <= fps * q
  <2>1. 1 <= fps => q * 1 <= q * fps
    BY <1>3
  <2>2. QED
    BY <1>3, <2>1
<1>5. n \in 0 .. top /\ q \in 0 .. top
  <2>1. fps * q \in Int
    BY <1>3
  <2>2. QED
    BY <1>1, <1>2, <1>3, <1>4, <2>1
<1>6. QED
  BY <1>5 DEF q, m

\* The number and the time of a frame fit eight bytes.
LEMMA IdentityFits ==
  ASSUME ApiInv, phase = "running", NEW f, GivenBy(config, f)
  PROVE  FitsUnsigned(f.identity.number, 8) /\ FitsSigned(f.identity.time, 8)
<1>1. PICK d \in Accepted : config = VisionConfigOf(d)
  BY DEF ApiInv, ConfigAccepted
<1>2. Int64Max \in Nat /\ Shifted(Int64Max)[7] < 128
  BY WidthAssumption, WordsAssumption
<1>3. CASE config.adapter = "fake"
  <2> DEFINE scale == MICROSECONDS_PER_SECOND
             fps == DepthProfile(config).fps
  <2>1. fps \in Nat \ {0} /\ config.camera.start_frame_number \in 1 .. MaxStart
    BY <1>1, <1>3, AcceptedCamera
  <2>2. PICK generation : \E number \in 1 .. LastNumber(config) :
          f = FakeFrame(DepthProfile(config), config.camera.pattern_seed, generation, number)
    BY <1>3, Zenon DEF GivenBy
  <2>3. PICK number \in 1 .. LastNumber(config) :
          f = FakeFrame(DepthProfile(config), config.camera.pattern_seed, generation, number)
    BY <2>2
  <2>4. f.identity.number = number /\ f.identity.time = (number * scale) \div fps
    BY <2>3 DEF FakeFrame
  <2> HIDE DEF fps
  <2>5. number \in Nat /\ number <= MaxStart + MaxNumber
    BY <1>3, <2>1, LimitsAssumption, BoundAssumption DEF LastNumber, FirstNumber
  <2>6. scale \in Nat \ {0} /\ (MaxStart + MaxNumber) * scale <= Int64Max
    BY WordsAssumption DEF MICROSECONDS_PER_SECOND
  <2> HIDE DEF scale
  <2>7. number * scale <= Int64Max
    <3> DEFINE last == MaxStart + MaxNumber
    <3>1. last \in Nat /\ number <= last /\ last * scale <= Int64Max
      BY <2>5, <2>6, LimitsAssumption, BoundAssumption
    <3> HIDE DEF last
    <3>2. number <= last => number * scale <= last * scale
      BY <2>5, <2>6, <3>1
    <3>3. number * scale \in Int /\ last * scale \in Int
      BY <2>5, <2>6, <3>1
    <3>4. QED
      BY <1>2, <3>1, <3>2, <3>3
  <2>8. number \in 0 .. Int64Max /\ (number * scale) \div fps \in 0 .. Int64Max
    BY <1>2, <2>1, <2>5, <2>6, <2>7, TimeFits
  <2>9. QED
    BY <1>2, <2>4, <2>8, Int64Fits
<1>4. CASE config.adapter # "fake"
  <2>1. PICK generation, depth : \E number \in 1 .. MaxDeviceNumber :
          f = D435Frame(DepthProfile(config), generation, number, depth)
    BY <1>4, Zenon DEF GivenBy
  <2>2. PICK number \in 1 .. MaxDeviceNumber :
          f = D435Frame(DepthProfile(config), generation, number, depth)
    BY <2>1
  <2>3. f.identity.number = number /\ f.identity.time = 0
    BY <2>2 DEF D435Frame
  <2>4. number \in 0 .. Int64Max /\ 0 \in 0 .. Int64Max
    BY <1>2, BoundAssumption, WordsAssumption
  <2>5. QED
    BY <1>2, <2>3, <2>4, Int64Fits
<1>5. QED
  BY <1>3, <1>4

\* The matrix of the mount fits its words.
LEMMA MountFits ==
  ASSUME ApiInv, phase = "running"
  PROVE  /\ Matrix3x4(Mount) \in [1 .. 12 -> Int]
         /\ \A i \in 1 .. 12 : FitsSigned(Matrix3x4(Mount)[i], 4)
<1> DEFINE reach == MAX_MOUNT_TRANSLATION_M
<1>1. PICK d \in Accepted : config = VisionConfigOf(d)
  BY DEF ApiInv, ConfigAccepted
<1>2. /\ config.pose \in Poses
      /\ \A row \in 1..3 : -reach <= config.pose.translation[row] /\ config.pose.translation[row] <= reach
  BY <1>1, AcceptedPose
<1>3. reach \in Nat /\ reach < 256 * 256
  BY DEF MAX_MOUNT_TRANSLATION_M
<1>4. \A row \in 1..3 : Mount[row][4] = config.pose.translation[row]
  BY <1>2, MountIsPlaced DEF Mount
<1>5. Mount \in Matrices /\ IsRotation(Mount)
  BY MountOfConfig DEF ValidMatrix
<1> HIDE DEF reach
<1>6. \A row \in 1..3 : -reach <= Mount[row][4] /\ Mount[row][4] <= reach
  BY <1>2, <1>4
<1> DEFINE m == Mount
<1> HIDE DEF m
<1>7. m \in Matrices /\ IsRotation(m) /\ \A row \in 1..3 : -reach <= m[row][4] /\ m[row][4] <= reach
  BY <1>5, <1>6 DEF m
<1>8. Matrix3x4(m) \in [1 .. 12 -> Int] /\ \A i \in 1 .. 12 : FitsSigned(Matrix3x4(m)[i], 4)
  BY <1>3, <1>7, MatrixFits
<1>9. QED
  BY <1>8 DEF m

\* A point cloud before its mount is known: its numbers fit their words, and its sizes and
\* strides are positive.
CloudFits(cloud) ==
  /\ {"identity", "profile", "intrinsics", "requestedStride", "stride", "points"} \subseteq DOMAIN cloud
  /\ FitsUnsigned(cloud.identity.number, 8) /\ FitsSigned(cloud.identity.time, 8)
  /\ FitsUnsigned(cloud.profile.width, 4) /\ FitsUnsigned(cloud.profile.height, 4)
  /\ FitsUnsigned(cloud.requestedStride, 4) /\ FitsUnsigned(cloud.stride, 4)
  /\ cloud.points \in Seq(Points) /\ FitsUnsigned(Len(cloud.points), 4)
  /\ \A i \in 1 .. Len(cloud.points), j \in 1 .. 3 : FitsSigned(cloud.points[i].point[j], 4)
  /\ cloud.intrinsics \in [1 .. 4 -> Int] /\ \A i \in 1 .. 4 : FitsSigned(cloud.intrinsics[i], 4)
  /\ cloud.profile.width > 0 /\ cloud.profile.height > 0
  /\ cloud.requestedStride > 0 /\ cloud.stride > 0

\* The parts of a point cloud that fit make a point cloud that fits.
LEMMA PartsFit ==
  ASSUME NEW identity, FitsUnsigned(identity.number, 8), FitsSigned(identity.time, 8),
         NEW profile, FitsUnsigned(profile.width, 4), profile.width > 0,
         FitsUnsigned(profile.height, 4), profile.height > 0,
         NEW stride, FitsUnsigned(stride, 4), stride > 0,
         NEW n \in Nat, FitsUnsigned(n, 4), NEW points \in [1 .. n -> Points],
         \A i \in 1 .. n, j \in 1 .. 3 : FitsSigned(points[i].point[j], 4),
         NEW cloud,
         cloud = [identity |-> identity, profile |-> profile,
                  intrinsics |-> <<FocalLength, FocalLength, 0, 0>>,
                  requestedStride |-> 1, stride |-> stride, points |-> points]
  PROVE  CloudFits(cloud)
<1> DEFINE intrinsics == <<FocalLength, FocalLength, 0, 0>>
<1>1. /\ intrinsics \in [1 .. 4 -> Int]
      /\ intrinsics[1] = 100 /\ intrinsics[2] = 100 /\ intrinsics[3] = 0 /\ intrinsics[4] = 0
  BY DEF FocalLength
<1>2. FitsSigned(100, 4) /\ FitsSigned(0, 4)
  BY CoordinateFits
<1>3. cloud = [identity |-> identity, profile |-> profile, intrinsics |-> intrinsics,
               requestedStride |-> 1, stride |-> stride, points |-> points]
  OBVIOUS
<1> HIDE DEF intrinsics
<1>4. \A i \in 1 .. 4 : FitsSigned(intrinsics[i], 4)
  <2>1. /\ FitsSigned(intrinsics[1], 4) /\ FitsSigned(intrinsics[2], 4)
        /\ FitsSigned(intrinsics[3], 4) /\ FitsSigned(intrinsics[4], 4)
    BY <1>1, <1>2
  <2>2. QED
    BY <2>1
<1>5. points \in Seq(Points) /\ Len(points) = n
  BY SequenceOf
<1>6. FitsUnsigned(1, 4) /\ 1 > 0
  BY SmallFits
<1>7. /\ {"identity", "profile", "intrinsics", "requestedStride", "stride", "points"} \subseteq DOMAIN cloud
      /\ cloud.identity = identity /\ cloud.profile = profile /\ cloud.intrinsics = intrinsics
      /\ cloud.requestedStride = 1 /\ cloud.stride = stride /\ cloud.points = points
  BY <1>3
<1>8. \A i \in 1 .. Len(points), j \in 1 .. 3 : FitsSigned(points[i].point[j], 4)
  BY <1>5
<1>9. QED
  BY <1>1, <1>4, <1>5, <1>6, <1>7, <1>8 DEF CloudFits

\* The point cloud of the frame that is fresh.
CloudOf(f) == BuildPointCloudSnapshot(f, POINTCLOUD_MAX_POINTS, POINTCLOUD_STRIDE_PIXELS)

\* Its numbers fit their words, whichever camera it is from.
LEMMA CloudOfFrameFits ==
  ASSUME ApiInv, phase = "running", FreshFrame # None
  PROVE  CloudFits(CloudOf(FreshFrame))
<1> DEFINE f == FreshFrame
           profile == DepthProfile(config)
           max == POINTCLOUD_MAX_POINTS
           cloud == CloudOf(f)
<1>1. GivenBy(config, f)
  BY DEF FreshFrame, ApiInv, FrameIsTheCameras
<1>2. FitsUnsigned(f.identity.number, 8) /\ FitsSigned(f.identity.time, 8)
  BY <1>1, IdentityFits
<1>3. /\ profile.width \in Nat \ {0} /\ profile.width <= 4096
      /\ profile.height \in Nat \ {0} /\ profile.height <= 4096
  BY ConfiguredSizes, WordsAssumption, LimitsAssumption
<1>4. max \in Nat \ {0} /\ max <= 100000 /\ POINTCLOUD_STRIDE_PIXELS = 1 /\ 1 \in Nat \ {0}
  BY BoundAssumption, WordsAssumption DEF POINTCLOUD_STRIDE_PIXELS
<1>5. /\ max \in Nat \ {0} /\ 1 \in Nat \ {0}
      /\ profile.width \in Nat \ {0} /\ profile.width > 0
      /\ profile.height \in Nat \ {0} /\ profile.height > 0
      /\ FitsUnsigned(profile.width, 4) /\ FitsUnsigned(profile.height, 4)
  <2>1. profile.width < 256 * 256 * 256 /\ profile.height < 256 * 256 * 256
    BY <1>3, SMT
  <2>2. QED
    BY <1>3, <1>4, <2>1, CountFits, SMT
<1>6. CASE config.adapter = "fake"
  <2> DEFINE seed == config.camera.pattern_seed
             stride == EffectiveStride(profile, max, 1)
             points == cloud.points
             n == Len(points)
  <2>1. PICK generation : \E number \in 1 .. LastNumber(config) :
          f = FakeFrame(profile, seed, generation, number)
    BY <1>6, FakeFrames
  <2>2. PICK number \in 1 .. LastNumber(config) : f = FakeFrame(profile, seed, generation, number)
    BY <2>1
  <2>3. seed \in Nat /\ number \in Nat
    <3>1. PICK d \in Accepted : config = VisionConfigOf(d)
      BY DEF ApiInv, ConfigAccepted
    <3>2. seed \in Nat
      BY <1>6, <3>1, AcceptedCamera
    <3>3. f.identity.number = number
      BY <2>2 DEF FakeFrame
    <3>4. QED
      BY <1>2, <3>2, <3>3 DEF FitsUnsigned
  <2> HIDE DEF profile, seed, max, f
  <2> DEFINE g == FakeFrame(profile, seed, generation, number)
             built == BuildPointCloudSnapshot(g, max, 1)
  <2>4. /\ cloud = [identity |-> f.identity, profile |-> profile,
                    intrinsics |-> <<FocalLength, FocalLength, 0, 0>>,
                    requestedStride |-> 1, stride |-> stride, points |-> points]
        /\ stride \in Nat \ {0} /\ stride <= 1 + profile.width + profile.height
        /\ n \in Nat /\ n <= max
        /\ points \in [1 .. n -> {PointAt(number, seed, p) : p \in Pixels(profile)}]
    <3>1. /\ built = [identity |-> g.identity, profile |-> profile,
                      intrinsics |-> <<FocalLength, FocalLength, 0, 0>>,
                      requestedStride |-> 1, stride |-> stride, points |-> built.points]
          /\ stride \in Nat \ {0} /\ stride <= 1 + profile.width + profile.height
          /\ Len(built.points) \in Nat /\ Len(built.points) <= max
          /\ built.points
               \in [1 .. Len(built.points) -> {PointAt(number, seed, p) : p \in Pixels(profile)}]
      <4>1. CloudIsFrom(g, profile, seed, number, max, 1, built)
        BY <1>5, FakeCloud, Zenon
      <4> HIDE DEF g, built
      <4>2. QED
        BY <4>1, Zenon DEF CloudIsFrom
    <3>2. g = f
      BY <2>2
    <3> HIDE DEF g
    <3>3. cloud = built
      BY <1>4, <3>2, SMT DEF CloudOf, max
    <3> HIDE DEF built, cloud, stride
    <3>4. QED
      BY <3>1, <3>2, <3>3, SMT
  <2> HIDE DEF cloud, stride, points, n
  <2>5. \A p \in Pixels(profile) :
          /\ PointAt(number, seed, p) \in Points
          /\ \A j \in 1 .. 3 : FitsSigned(PointAt(number, seed, p).point[j], 4)
    <3>1. ASSUME NEW p \in Pixels(profile)
          PROVE  /\ PointAt(number, seed, p) \in Points
                 /\ \A j \in 1 .. 3 : FitsSigned(PointAt(number, seed, p).point[j], 4)
      BY <1>3, <2>3, PointFits
    <3>2. QED
      BY <3>1
  <2>6. \A i \in 1 .. n : \E p \in Pixels(profile) : points[i] = PointAt(number, seed, p)
    BY <2>4
  <2>7. points \in [1 .. n -> Points]
    BY <2>4, <2>5
  <2>8. \A i \in 1 .. n, j \in 1 .. 3 : FitsSigned(points[i].point[j], 4)
    BY <2>5, <2>6
  <2>9. FitsUnsigned(stride, 4) /\ stride > 0 /\ FitsUnsigned(n, 4) /\ n \in Nat
    <3>1. stride < 256 * 256 * 256 /\ n < 256 * 256 * 256
      BY <1>3, <1>4, <2>4, SMT
    <3>2. QED
      BY <2>4, <3>1, CountFits, SMT
  <2>10. CloudFits(cloud)
    <3> DEFINE identity == f.identity
    <3>1. FitsUnsigned(identity.number, 8) /\ FitsSigned(identity.time, 8)
      BY <1>2
    <3> HIDE DEF identity
    <3>2. cloud = [identity |-> identity, profile |-> profile,
                   intrinsics |-> <<FocalLength, FocalLength, 0, 0>>,
                   requestedStride |-> 1, stride |-> stride, points |-> points]
      BY <2>4, Zenon DEF identity
    <3>3. QED
      BY <1>5, <2>7, <2>8, <2>9, <3>1, <3>2, PartsFit, Zenon
  <2>11. QED
    BY <2>10 DEF cloud, f
<1>7. CASE config.adapter # "fake"
  <2> DEFINE none == << >>
             points == [i \in DOMAIN none |->
                          [point |-> Deproject(none[i][1], none[i][2], DepthAt(f, none[i])),
                           color |-> f.color[Index(f.profile, none[i][1], none[i][2])]]]
  <2>1. f.adapter = "intel_d435" /\ f.profile = profile
    BY <1>1, <1>7 DEF GivenBy, D435Frame
  <2>2. points \in [1 .. 0 -> Points] /\ \A i \in 1 .. 0, j \in 1 .. 3 : FitsSigned(points[i].point[j], 4)
    OBVIOUS
  <2>3. cloud = [identity |-> f.identity, profile |-> f.profile,
                 intrinsics |-> <<FocalLength, FocalLength, 0, 0>>,
                 requestedStride |-> 1, stride |-> 1, points |-> points]
    <3>1. ~(max = 0 \/ 1 <= 0)
      BY <1>4
    <3> HIDE DEF f, max, points
    <3>2. QED
      BY <1>4, <2>1, <3>1 DEF CloudOf, BuildPointCloudSnapshot, points, max
  <2> HIDE DEF points, cloud, f, profile
  <2>4. 0 \in Nat /\ FitsUnsigned(0, 4) /\ FitsUnsigned(1, 4) /\ 1 > 0
    BY SmallFits
  <2>5. CloudFits(cloud)
    <3> DEFINE identity == f.identity
    <3>1. FitsUnsigned(identity.number, 8) /\ FitsSigned(identity.time, 8)
      BY <1>2
    <3> HIDE DEF identity
    <3>2. cloud = [identity |-> identity, profile |-> profile,
                   intrinsics |-> <<FocalLength, FocalLength, 0, 0>>,
                   requestedStride |-> 1, stride |-> 1, points |-> points]
      BY <2>1, <2>3, Zenon DEF identity
    <3>3. QED
      BY <1>5, <2>2, <2>4, <3>1, <3>2, PartsFit, Zenon
  <2>6. QED
    BY <2>5 DEF cloud, f
<1>8. QED
  BY <1>6, <1>7

\* With its mount it can be written, and writePcd1V2 accepts it.
LEMMA CloudIsWritable ==
  ASSUME ApiInv, phase = "running", FreshFrame # None
  PROVE  Writable(WithMount(CloudOf(FreshFrame))) /\ ValidPointCloud(WithMount(CloudOf(FreshFrame)))
<1> DEFINE cloud == CloudOf(FreshFrame)
           placed == WithMount(cloud)
           matrix == Matrix3x4(Mount)
<1>1. CloudFits(cloud)
  BY CloudOfFrameFits
<1>2. matrix \in [1 .. 12 -> Int] /\ \A i \in 1 .. 12 : FitsSigned(matrix[i], 4)
  BY MountFits
<1>3. IsRotation(Rows(matrix))
  BY MountOfConfig, MatrixRows DEF ValidMatrix
<1>4. placed = WithField(cloud, "matrix", matrix)
  BY DEF WithMount
<1> HIDE DEF cloud, placed, matrix
<1>5. {"identity", "profile", "intrinsics", "requestedStride", "stride", "points"}
        \subseteq DOMAIN cloud \ {"matrix"}
  BY <1>1 DEF CloudFits
<1>6. placed["matrix"] = matrix /\ \A field \in DOMAIN cloud \ {"matrix"} : placed[field] = cloud[field]
  BY <1>4, WithFieldIs
<1>7. /\ placed.identity = cloud.identity /\ placed.profile = cloud.profile
      /\ placed.intrinsics = cloud.intrinsics /\ placed.requestedStride = cloud.requestedStride
      /\ placed.stride = cloud.stride /\ placed.points = cloud.points /\ placed.matrix = matrix
  BY <1>5, <1>6
<1>8. Writable(placed)
  BY <1>1, <1>2, <1>7 DEF CloudFits, Writable
<1>9. ValidPointCloud(placed)
  BY <1>1, <1>3, <1>7 DEF CloudFits, ValidPointCloud
<1>10. QED
  BY <1>8, <1>9 DEF placed, cloud

-----------------------------------------------------------------------------
(***************************************************************************)
(* The answers of every route that has one.                                *)
(***************************************************************************)
\* The answer of the point cloud's route is the payload of the cloud of its frame.
LEMMA CloudReply ==
  ASSUME ApiInv, Queried("/snapshot/pointcloud.bin")
  PROVE  /\ phase = "running" /\ exchange.captured = FreshFrame /\ FreshFrame # None
         /\ exchange.reply.result = WritePcd1V2(WithMount(CloudOf(FreshFrame)))
<1> DEFINE reply == exchange.reply
           body == exchange.request.body
           written == WritePcd1V2(WithMount(CloudOf(FreshFrame)))
<1>1. /\ phase = "running" /\ exchange.captured = FreshFrame
      /\ reply \in RouteReplies("/snapshot/pointcloud.bin", body) /\ "result" \in DOMAIN reply
  BY QueryReplies
<1>2. reply = GetPointcloudSnapshot
  BY <1>1 DEF RouteReplies
<1>3. reply \notin {NoFreshFrame, ProviderFailure}
  BY <1>1 DEF NoFreshFrame, ProviderFailure, Error
<1> HIDE DEF reply
<1>4. FreshFrame # None /\ reply = Answer(written)
  BY <1>2, <1>3, Zenon DEF GetPointcloudSnapshot, CloudOf
<1> HIDE DEF written
<1>5. reply.result = written
  BY <1>4 DEF Answer
<1>6. QED
  BY <1>1, <1>4, <1>5 DEF reply, written

\* What CloudMatches says of a cloud is about these of its fields.
LEMMA CloudMatchesFields ==
  ASSUME NEW profile, NEW number, NEW seed, NEW max, NEW cloud, NEW other,
         other.requestedStride = cloud.requestedStride, other.stride = cloud.stride,
         other.points = cloud.points, CloudMatches(profile, number, seed, max, cloud)
  PROVE  CloudMatches(profile, number, seed, max, other)
BY Zenon DEF CloudMatches

\* The cloud a reader gets is the cloud that was asked for.
LEMMA CloudQueriesMatch ==
  ASSUME ApiInv, config.adapter = "fake", Queried("/snapshot/pointcloud.bin")
  PROVE  CloudMatches(exchange.captured.profile, exchange.captured.identity.number,
                      config.camera.pattern_seed, POINTCLOUD_MAX_POINTS,
                      ReadPcd1V2(exchange.reply.result.bytes))
<1> DEFINE f == FreshFrame
           profile == DepthProfile(config)
           seed == config.camera.pattern_seed
           max == POINTCLOUD_MAX_POINTS
           cloud == CloudOf(f)
           placed == WithMount(cloud)
           read == ReadPcd1V2(exchange.reply.result.bytes)
<1>1. /\ phase = "running" /\ exchange.captured = f /\ f # None
      /\ exchange.reply.result = WritePcd1V2(placed)
  BY CloudReply
<1>2. CloudFits(cloud) /\ Writable(placed) /\ ValidPointCloud(placed)
  BY <1>1, CloudOfFrameFits, CloudIsWritable
<1>3. read = Readable(placed)
  BY <1>1, <1>2, PointCloudRoundTrips
<1>4. /\ placed.requestedStride = cloud.requestedStride /\ placed.stride = cloud.stride
      /\ placed.points = cloud.points
  <2>1. placed = WithField(cloud, "matrix", Matrix3x4(Mount))
    BY DEF WithMount
  <2>2. {"requestedStride", "stride", "points"} \subseteq DOMAIN cloud \ {"matrix"}
    BY <1>2 DEF CloudFits
  <2> HIDE DEF placed, cloud
  <2>3. QED
    BY <2>1, <2>2, WithFieldIs
<1>5. PICK generation : \E number \in 1 .. LastNumber(config) :
        f = FakeFrame(profile, seed, generation, number)
  BY <1>1, FakeFrames
<1>6. PICK number \in 1 .. LastNumber(config) : f = FakeFrame(profile, seed, generation, number)
  BY <1>5
<1>7. f.profile = profile /\ f.identity.number = number
  BY <1>6 DEF FakeFrame
<1>8. /\ profile.width \in Nat \ {0} /\ profile.height \in Nat \ {0}
      /\ max \in Nat \ {0} /\ POINTCLOUD_STRIDE_PIXELS \in Nat \ {0}
  BY <1>1, ConfiguredSizes, BoundAssumption DEF POINTCLOUD_STRIDE_PIXELS
<1> HIDE DEF profile, seed, max, f
<1>9. CloudMatches(profile, number, seed, max, cloud)
  <2>1. CloudMatches(profile, number, seed, max,
                     BuildPointCloudSnapshot(FakeFrame(profile, seed, generation, number),
                                             max, POINTCLOUD_STRIDE_PIXELS))
    BY <1>8, CloudAnswerMatches, Zenon
  <2>2. QED
    BY <1>6, <2>1, Zenon DEF CloudOf, max
<1> HIDE DEF cloud, placed, read
<1>10. /\ read.requestedStride = cloud.requestedStride /\ read.stride = cloud.stride
       /\ read.points = cloud.points
  BY <1>3, <1>4 DEF Readable
<1>11. CloudMatches(profile, number, seed, max, read)
  BY <1>9, <1>10, CloudMatchesFields
<1>12. QED
  BY <1>1, <1>7, <1>11, Zenon DEF read, seed, max

\* For every accepted configuration of the fake camera and every request that is answered,
\* the answer of queryPixelPoint, queryDepthInRoi and buildPointCloudSnapshot, after its
\* serializer, is the one the pixels asked for have: the buffers, the loops over them, the
\* sort, the stride, the mount matrix and the binary payload lose and add nothing.
THEOREM AnswersMatchReference == Spec => []QueriesMatchReference
<1>1. ApiInv => QueriesMatchReference
  <2>1. SUFFICES ASSUME ApiInv, exchange # None, exchange.captured # None, config.adapter = "fake"
                 PROVE  QueriesMatchReference
    BY DEF QueriesMatchReference
  <2> DEFINE body == exchange.request.body
             result == exchange.reply.result
             deproject(x, y) == Deproject(x, y, FakeDepth(x, y))
  <2>2. Queried("/query/pixel_to_point") =>
          /\ result.valid <=> FakeDepth(body.x, body.y) > 0
          /\ result.valid =>
               /\ result.point = deproject(body.x, body.y)
               /\ result.mountPoint = PointInMount(config.pose, deproject(body.x, body.y))
    BY <2>1, PixelQueriesMatch
  <2>3. Queried("/query/roi_depth") =>
          /\ RoiMatches(exchange.captured.profile, body, result)
          /\ result.mountPoint =
               PointInMount(config.pose,
                 IF result.valid THEN deproject(result.medianPixel[1], result.medianPixel[2])
                 ELSE <<0, 0, 0>>)
    BY <2>1, RoiQueriesMatch
  <2>4. Queried("/snapshot/pointcloud.bin") =>
          CloudMatches(exchange.captured.profile, exchange.captured.identity.number,
                       config.camera.pattern_seed, POINTCLOUD_MAX_POINTS, ReadPcd1V2(result.bytes))
    BY <2>1, CloudQueriesMatch
  <2>5. QED
    BY <2>2, <2>3, <2>4, Zenon DEF QueriesMatchReference
<1>2. QED
  BY <1>1, ApiInvariant, PTL

\* Every point cloud the route answers with, of either camera, is read back as it was
\* written by readPcd1V2, which refuses it with a byte less or more.
THEOREM AnsweredCloudsRoundTrip == Spec => []CloudRoundTrips
<1>1. ApiInv => CloudRoundTrips
  <2>1. SUFFICES ASSUME ApiInv, Queried("/snapshot/pointcloud.bin")
                 PROVE  LET bytes == exchange.reply.result.bytes
                        IN /\ ReadPcd1V2(bytes) = Readable(WithMount(CloudOf(exchange.captured)))
                           /\ Throws(ReadPcd1V2(Append(bytes, 0)))
                           /\ Throws(ReadPcd1V2(Front(bytes)))
    BY Zenon DEF CloudRoundTrips, CloudOf
  <2> DEFINE placed == WithMount(CloudOf(FreshFrame))
  <2>2. /\ phase = "running" /\ exchange.captured = FreshFrame /\ FreshFrame # None
        /\ exchange.reply.result = WritePcd1V2(placed)
    BY <2>1, CloudReply
  <2>3. Writable(placed) /\ ValidPointCloud(placed)
    BY <2>1, <2>2, CloudIsWritable
  <2> HIDE DEF placed
  <2>4. LET bytes == WritePcd1V2(placed).bytes
        IN /\ ReadPcd1V2(bytes) = Readable(placed)
           /\ Throws(ReadPcd1V2(Append(bytes, 0))) /\ Throws(ReadPcd1V2(Front(bytes)))
    BY <2>3, PointCloudRoundTrips, Zenon
  <2>5. QED
    BY <2>2, <2>4 DEF placed
<1>2. QED
  BY <1>1, ApiInvariant, PTL
===============================================================================
