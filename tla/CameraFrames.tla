----------------------------- MODULE CameraFrames -----------------------------
(***************************************************************************)
(* The camera adapters (src/adapters/fake/fake_camera_adapter.cpp,         *)
(* src/adapters/intel_d435/intel_d435_adapter.cpp), the frames they give    *)
(* and the queries a frame answers.  Lengths are millimetres, times are     *)
(* microseconds.  An image is a function from the indices of its buffer,    *)
(* 0 .. width * height - 1.  What a query throws is [error |-> ...].        *)
(***************************************************************************)
EXTENDS Integers, FiniteSets, SequencesExt

\* The focal length of the fake camera, whose principal point is (0, 0); the
\* D435's own are taken to be the same.
FocalLength == 100
MICROSECONDS_PER_SECOND == 1000000

InvalidArgument == [error |-> "invalid_argument"]
Throws(result) == "error" \in DOMAIN result

-----------------------------------------------------------------------------
(***************************************************************************)
(* The adapter.                                                            *)
(***************************************************************************)
NewCamera ==
  [connected |-> FALSE, streaming |-> FALSE, lifecycle |-> "disconnected",
   generation |-> 0, number |-> 0, timeouts |-> 0]

ConnectCamera(camera) == [camera EXCEPT !.connected = TRUE, !.lifecycle = "connected"]

\* first is the fake camera's start_frame_number - 1.
StartStream(camera, first) ==
  [camera EXCEPT !.streaming = TRUE, !.lifecycle = "streaming",
                 !.generation = @ + 1, !.number = first]

StopStream(camera) ==
  [camera EXCEPT !.streaming = FALSE,
                 !.lifecycle = IF camera.connected THEN "connected" ELSE "disconnected"]

DisconnectCamera(camera) ==
  [StopStream(camera) EXCEPT !.connected = FALSE, !.lifecycle = "disconnected"]

\* m_health.latest_identity is that of the frame read last.
FrameRead(camera, number) == [camera EXCEPT !.number = number]
ReadTimedOut(camera) == [camera EXCEPT !.timeouts = @ + 1]

-----------------------------------------------------------------------------
(***************************************************************************)
(* The frames.                                                             *)
(***************************************************************************)
Pixels(profile) == (0 .. profile.width - 1) \X (0 .. profile.height - 1)
Index(profile, x, y) == y * profile.width + x
Indices(profile) == 0 .. profile.width * profile.height - 1
Column(profile, index) == index % profile.width
Row(profile, index) == index \div profile.width

FakeDepth(x, y) == IF x = 0 /\ y = 0 THEN 0 ELSE 1000 + 100 * x + 200 * y
FakeColor(number, seed, x, y) == <<(x + number + seed) % 256, (y + seed) % 256, number % 256>>

\* makeFrame
FakeFrame(profile, seed, generation, number) ==
  [adapter  |-> "fake",
   identity |-> [generation |-> generation, number |-> number,
                 time |-> (number * MICROSECONDS_PER_SECOND) \div profile.fps],
   profile  |-> profile,
   depth    |-> [i \in Indices(profile) |-> FakeDepth(Column(profile, i), Row(profile, i))],
   color    |-> [i \in Indices(profile) |->
                   FakeColor(number, seed, Column(profile, i), Row(profile, i))]]

\* The D435's readFrame: the depth is the device's, and the capture timestamps stay zero.
D435Frame(profile, generation, number, depth) ==
  [adapter |-> "intel_d435",
   identity |-> [generation |-> generation, number |-> number, time |-> 0],
   profile |-> profile, depth |-> depth, color |-> <<>>]

\* deproject, and the SDK's rs2_deproject_pixel_to_point for the same intrinsics.
Deproject(x, y, depth) == <<(x * depth) \div FocalLength, (y * depth) \div FocalLength, depth>>

-----------------------------------------------------------------------------
(***************************************************************************)
(* The queries.                                                            *)
(***************************************************************************)
QueryPixelPoint(frame, x, y) ==
  LET invalid(reason) == [identity |-> frame.identity, x |-> x, y |-> y,
                          valid |-> FALSE, reason |-> reason]
      depth == frame.depth[Index(frame.profile, x, y)]
  IN IF x < 0 \/ y < 0 \/ x >= frame.profile.width \/ y >= frame.profile.height
     THEN invalid("pixel_out_of_bounds")
     ELSE IF depth <= 0 THEN invalid("invalid_depth")
     ELSE [identity |-> frame.identity, x |-> x, y |-> y,
           valid |-> TRUE, depth |-> depth, point |-> Deproject(x, y, depth)]

\* std::clamp
Clamp(value, low, high) == IF value < low THEN low ELSE IF value > high THEN high ELSE value
AtLeastZero(value) == IF value < 0 THEN 0 ELSE value

Roi(x, y, width, height) == [x |-> x, y |-> y, width |-> width, height |-> height]

\* The region inside the image.
ClampedRoi(profile, roi) ==
  LET minX == Clamp(roi.x, 0, profile.width)
      minY == Clamp(roi.y, 0, profile.height)
      maxX == Clamp(roi.x + roi.width, 0, profile.width)
      maxY == Clamp(roi.y + roi.height, 0, profile.height)
  IN Roi(minX, minY, AtLeastZero(maxX - minX), AtLeastZero(maxY - minY))

EmptyRoiResult(frame, roi) ==
  [identity |-> frame.identity, requested |-> roi, roi |-> Roi(0, 0, 0, 0),
   valid |-> FALSE, pixels |-> 0, validPixels |-> 0, min |-> 0, max |-> 0, sum |-> 0,
   median |-> 0, medianPixel |-> <<0, 0>>, medianPoint |-> <<0, 0, 0>>]

\* The region is scanned row by row, from left to right.
Scan(roi) == [i \in 1 .. roi.width * roi.height |->
               <<roi.x + ((i - 1) % roi.width), roi.y + ((i - 1) \div roi.width)>>]

DepthAt(frame, pixel) == frame.depth[Index(frame.profile, pixel[1], pixel[2])]

\* The pixels of a scan that have a depth, appended one by one.
WithDepth(frame, pixels) ==
  LET kept[i \in 0 .. Len(pixels)] ==
        IF i = 0 THEN <<>>
        ELSE IF DepthAt(frame, pixels[i]) > 0 THEN Append(kept[i - 1], pixels[i])
        ELSE kept[i - 1]
  IN kept[Len(pixels)]

RoiSamples(frame, roi) == WithDepth(frame, Scan(roi))

\* The sum of the depths of the samples, which the scan accumulates.
Total(frame, samples) ==
  LET sum[i \in 0 .. Len(samples)] ==
        IF i = 0 THEN 0 ELSE sum[i - 1] + DepthAt(frame, samples[i])
  IN sum[Len(samples)]

\* The depths of the samples after std::sort, from the nearest to the farthest: fewer
\* than k samples are nearer than the k-th, and k or more are not farther.
SortedDepths(frame, samples) ==
  LET depths == {DepthAt(frame, samples[i]) : i \in 1 .. Len(samples)}
      nearer(d) == {i \in 1 .. Len(samples) : DepthAt(frame, samples[i]) < d}
      notFarther(d) == {i \in 1 .. Len(samples) : DepthAt(frame, samples[i]) <= d}
  IN [k \in 1 .. Len(samples) |->
       CHOOSE d \in depths : Cardinality(nearer(d)) < k /\ k <= Cardinality(notFarther(d))]

\* queryDepthInRoi: the results it may give.  std::sort is not stable, so that the
\* median pixel is any of the samples with the median depth.
QueryDepthInRoi(frame, roi) ==
  LET clamped == ClampedRoi(frame.profile, roi)
      samples == RoiSamples(frame, clamped)
      depths == SortedDepths(frame, samples)
      n == Len(samples)
      median == depths[(n \div 2) + 1]
      counted == [EmptyRoiResult(frame, roi) EXCEPT
                    !.roi = clamped, !.pixels = clamped.width * clamped.height, !.validPixels = n]
      full == [counted EXCEPT
                 !.valid = TRUE, !.min = depths[1], !.max = depths[n], !.sum = Total(frame, samples),
                 !.median = median]
  IN IF roi.width <= 0 \/ roi.height <= 0 THEN {InvalidArgument}
     ELSE IF frame.adapter = "intel_d435" THEN {EmptyRoiResult(frame, roi)}
     ELSE IF n = 0 THEN {counted}
     ELSE {[full EXCEPT !.medianPixel = pixel,
                        !.medianPoint = Deproject(pixel[1], pixel[2], median)] :
             pixel \in {p \in ToSet(samples) : DepthAt(frame, p) = median}}

CountSampleSlots(profile, stride) ==
  ((profile.width + stride - 1) \div stride) * ((profile.height + stride - 1) \div stride)

\* The stride after the loop that widens it one pixel at a time.  A stride as long
\* as the image leaves one slot.
EffectiveStride(profile, maxPoints, requested) ==
  LET widest == requested + profile.width + profile.height
      widen[stride \in requested .. widest] ==
        IF stride < widest /\ CountSampleSlots(profile, stride) > maxPoints
        THEN widen[stride + 1] ELSE stride
  IN widen[requested]

\* The pixels the two loops visit, row by row.
Sampled(profile, stride) ==
  LET columns == (profile.width + stride - 1) \div stride
  IN [i \in 1 .. CountSampleSlots(profile, stride) |->
       <<stride * ((i - 1) % columns), stride * ((i - 1) \div columns)>>]

\* buildPointCloudSnapshot, with no mount matrix yet.
BuildPointCloudSnapshot(frame, maxPoints, requested) ==
  LET stride == IF frame.adapter = "intel_d435" THEN requested
                ELSE EffectiveStride(frame.profile, maxPoints, requested)
      kept == IF frame.adapter = "intel_d435" THEN <<>>
              ELSE WithDepth(frame, Sampled(frame.profile, stride))
  IN IF maxPoints = 0 \/ requested <= 0 THEN InvalidArgument
     ELSE [identity |-> frame.identity, profile |-> frame.profile,
           intrinsics |-> <<FocalLength, FocalLength, 0, 0>>,
           requestedStride |-> requested, stride |-> stride,
           points |-> [i \in DOMAIN kept |->
             [point |-> Deproject(kept[i][1], kept[i][2], DepthAt(frame, kept[i])),
              color |-> frame.color[Index(frame.profile, kept[i][1], kept[i][2])]]]]

-----------------------------------------------------------------------------
(***************************************************************************)
(* The references: what the answers mean, with no buffer and no loop.       *)
(***************************************************************************)
\* What a pixel of the fake camera shows, and the sum of that over a set of pixels.
PixelDepth(pixel) == FakeDepth(pixel[1], pixel[2])
DepthSum(pixels) == MapThenSumSet(PixelDepth, pixels)

InRoi(roi, pixel) ==
  /\ pixel[1] \in roi.x .. roi.x + roi.width - 1
  /\ pixel[2] \in roi.y .. roi.y + roi.height - 1

\* The pixels of the image in the region that have a depth.
Samples(profile, roi) == {p \in Pixels(profile) : InRoi(roi, p) /\ PixelDepth(p) > 0}

\* d is the upper median of the samples: half of them or fewer are nearer, and
\* fewer than half are farther.
IsUpperMedian(samples, d) ==
  LET nearer == {p \in samples : PixelDepth(p) < d}
      farther == {p \in samples : PixelDepth(p) > d}
  IN /\ 2 * Cardinality(nearer) <= Cardinality(samples)
     /\ 2 * Cardinality(farther) < Cardinality(samples)

\* A result of queryDepthInRoi is about the region of the image it was asked for.
RoiMatches(profile, roi, result) ==
  LET region == {p \in Pixels(profile) : InRoi(roi, p)}
      samples == Samples(profile, roi)
  IN /\ {p \in Pixels(profile) : InRoi(result.roi, p)} = region
     /\ result.pixels = Cardinality(region)
     /\ result.validPixels = Cardinality(samples)
     /\ result.valid <=> samples # {}
     /\ result.valid =>
          /\ result.medianPixel \in samples /\ result.median = PixelDepth(result.medianPixel)
          /\ IsUpperMedian(samples, result.median)
          /\ \A p \in samples : result.min <= PixelDepth(p) /\ PixelDepth(p) <= result.max
          /\ \E p \in samples : result.min = PixelDepth(p)
          /\ \E p \in samples : result.max = PixelDepth(p)
          /\ result.sum = DepthSum(samples)

\* The cloud has one point for every valid pixel of the finest grid that
\* fits in maxPoints.
CloudMatches(profile, number, seed, maxPoints, cloud) ==
  LET grid(stride) == {p \in Pixels(profile) : p[1] % stride = 0 /\ p[2] % stride = 0}
      point(p) == [point |-> Deproject(p[1], p[2], PixelDepth(p)),
                   color |-> FakeColor(number, seed, p[1], p[2])]
      valid == {p \in grid(cloud.stride) : PixelDepth(p) > 0}
  IN /\ Cardinality(grid(cloud.stride)) <= maxPoints
     /\ \A stride \in cloud.requestedStride .. cloud.stride - 1 :
          Cardinality(grid(stride)) > maxPoints
     /\ Len(cloud.points) = Cardinality(valid)
     /\ ToSet(cloud.points) = {point(p) : p \in valid}
===============================================================================
