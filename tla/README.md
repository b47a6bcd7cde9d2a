# TLA+ models of nodus-vision

nodus-vision reads a depth camera, serves its frames over HTTP (previews as MJPEG
streams, queries, recordings), records color video with a frame sidecar on request,
and announces itself to a *Pilot* service. It is one process with several threads.
This directory models the parts that keep state shared between those threads, the
disk and the Pilot (recording, preview streaming, the Pilot client, and the application
that starts and stops them), and what the provider computes: which configuration it
accepts, what it advertises, and what it answers.

Paths below are relative to the repository: `src/recording/recording_manager.cpp` is
the file of that name in the repository's `src/` directory. In `PROJECT.json` they
carry a leading `src/`.

## 1. Inventory

| Component | State | Operations | Correct when |
|---|---|---|---|
| `RecordingManager` (`src/recording/recording_manager.cpp`) | state, request ledger, ring of frames, counters, paths, worker thread | `startOrReplay`, `finalizeOrReplay`, `trySubmitFrame`, `runWorker`/`finalizeArtifacts`, `finalize` | no admitted frame is lost; requests are idempotent; every recording and every shutdown ends |
| `RecordingStore` (`recording_store.cpp`) | `.staging/<id>` and `finalized/<id>` | `createStaging`, `writeStopRequest`, `writeFinalizedManifest`, `activateFinalized`, `findPersistedArtifact` | an artifact is staged once and published whole by one rename, whatever fails |
| sidecar, manifest, `ColorVideoWriter` | open files of the recording | `append`, `finalize`, digest | lines, counts and digest agree |
| `FrameStore` (`src/core/frame_store.cpp`) | the newest frame | `publishFrame`, `waitForFrameAfter` | identities only grow |
| `EncodedPreviewCache` (`src/provider/http`) | one JPEG per stream | `publishPreview`, `invalidateGeneration`, `acquireFreshPreview` | never older than what it held, never of an old generation |
| `ProviderHttpServer`, `HttpSession` | acceptor, sessions, two counters, per-session stream state | accept, read, respond, stream, notify, idle timer, `stopServer` | limits hold, no session is stranded, no notification is lost, stop returns |
| `VisionApplication` (`src/runtime/vision_application.cpp`) | provider state, threads, everything above | `startApplication`, `stopApplication`, capture and encoder loops | ordered start and stop, truthful provider state |
| `PilotIntegrationClient` (`src/pilot`) | session, sequence, pending state, snapshot, worker | `startClient`, `updateProviderState`, `stopClient`, worker | the Pilot has the current state; a lost session is noticed; stop returns |
| `PilotHttpTransport` | the active request | `executeRequest`, `cancelRequest` | every request ends |
| `VisionEndpointCatalog`, `PilotContractCodec` | none | `buildCatalog`, parse, serialize | what is advertised is what is served |
| camera adapters (`src/adapters`) | connection, stream, generation | `connectCamera`, `startStream`, `readFrame`, `stopStream`, `disconnectCamera`; the queries of a frame | frames are read only while the stream runs; a query answers for the pixels asked for |
| `VisionConfig` (`src/config`) | none | `parseVisionConfig` | nothing that is built from an accepted configuration refuses it |
| mount transform (`src/geometry`) | none | `buildCameraMountTransform`, `transformCameraPointToMount` | the composition of the configured rotations and translation |
| PCD1 and query serializers (`src/provider/http`) | none | `writePcd1V2`, `readPcd1V2`, `serialize...` | reading gives back what was written |

Interactions. The capture thread calls `FrameStore::publishFrame` and
`RecordingManager::trySubmitFrame` for each frame. The encoder thread waits on the
`FrameStore`, fills the `EncodedPreviewCache` and posts `notifyStreamFrame` to the
provider's I/O thread. That thread runs all HTTP handlers, and through them
`startOrReplay` and `finalizeOrReplay`. The recording worker drains the ring to disk.
The Pilot worker sends requests; the capture and main threads give it provider states.
The main thread stops everything in order.

What is hard: failures of single system calls between memory and disk; crashes between
them; a duration deadline, a stop and a shutdown racing each other; retried requests
after restart; HTTP completions queued before a cancel and run after it; notifications
arriving at each phase of a stream; answers of the Pilot that are lost or late; a stop
that overlaps each phase of the Pilot client; rules that are written down several times
in several files (limits of the configuration, lists of endpoints); and arithmetic at
the border of an image. `PROJECT.json` lists each hazard at the
line where it bites, with the properties that would show it going wrong.

## 2. Modules

| Module | Models |
|---|---|
| `RecordingStore` | the recording root: which directories exist and what is in each |
| `RecordingManager` | the manager over the store: provider, capture, worker and main threads, crash and restart |
| `ArtifactLifecycle` | the abstract promise: absent, staged once, published whole once, then constant |
| `RecordingProofs` | theorems about `RecordingManager`, whatever fails |
| `RecordingHistoryProofs` | the order of the frames in an artifact, whatever fails, and what holds as long as certain writes do not fail |
| `PreviewPipeline` | capture and encoder threads, `FrameStore`, `EncodedPreviewCache`, notifications |
| `ProviderHttpServer` | the HTTP server and its sessions over `PreviewPipeline` |
| `StreamingProofs` | theorems about `ProviderHttpServer` over `PreviewPipeline` |
| `PilotIntegrationClient` | client, transport, and the Pilot as its environment |
| `PilotProofs` | theorems about `PilotIntegrationClient` |
| `VisionApplication` | start, stop and restart of the application; who uses which object when; the provider state |
| `ApplicationProofs` | theorems about `VisionApplication` |
| `VisionConfig` | `parseVisionConfig`: which documents are accepted, and the configuration they become |
| `CameraMountTransform` | the matrices of the mount, and the same mount without matrices |
| `MountProofs` | theorems about `CameraMountTransform` |
| `CameraFrames` | both camera adapters, their frames, the queries of a frame, and what the answers mean |
| `Pcd1` | the binary point cloud, writer and reader |
| `QueryProofs` | theorems about `CameraFrames` and `Pcd1` |
| `VisionEndpoints` | the catalog for the Pilot and the list of `/metadata` |
| `ProviderApi` | from the document to the answers: composes `VisionConfig`, `CameraMountTransform`, `CameraFrames`, `Pcd1` and `VisionEndpoints` with the checks of a start and the routes |
| `ApiProofs` | theorems about `ProviderApi` |
| `MCRecording`, `MCStreaming`, `MCPilot`, `MCProviderApi` | instances for TLC |

### Recording

Each variable stands for the member its declaration names. A critical section of
`m_mutex` is one step, and so is each of the worker's disk operations. A request body
is a record of recording, request ID and content, so that "same ID, other content" can
be said. `StartOrReplay` and `FinalizeOrReplay` are whole handlers: `StartOutcome` and
`StopOutcome` name the branch the code takes, and each branch has an operator with its
assignments. The one place that blocks inside the lock is the join in `startOrReplay`;
`http` holds the request that waits there, and nothing else can lock meanwhile.

`Faults` names the operations that may fail. A fault is a choice of the step that makes
the call, with what the call has already done: an atomic write may fail before the
rename or in the directory sync after it; an activation likewise; `createStaging` may
leave a directory without `start_request.json`. `Crash` can happen in every state; it
loses memory and any suffix of an unclosed `frames.jsonl`. Directory entries made by a
completed call survive it. The two deadlines are Booleans that time sets.

`trySubmitFrame` tests `m_admitting` and counts a contention drop without the lock, so
these are two steps.

### Streaming

The I/O thread runs one handler at a time, so a handler is a step. `op[s]` is the
operation outstanding on the socket, `armed[s]` and `fired[s]` the idle timer. Asio
reports success for an operation that had completed when it was cancelled: `connected`
and `fired` stand for such queued completions, and reads and writes may complete after
a cancel. `parts` counts what was sent, to 2, and is read only by a property.
`stopServer` is four steps: posting the stop, waiting for the thread, `io_context.stop()`
after the timeout, and the drain. An encoded frame is its identity; a preview may become
stale at any time.

### Pilot

The worker's `pc` names the place in its loop. A request is outstanding from `Execute`
to the step that takes its result, and ends with an answer, an error, a deadline or a
cancel. `stopClient` is three steps: set the flag, cancel what is active, join. The
Pilot is not part of the repository. It is modelled from what the client sends and
accepts: it keeps the component's latest registration, answers requests of it, may
refuse any request, forget the session, restart with another `server_instance_id`, and
receive a request the client has already given up. An answer is its class (`ok`,
`malformed`, `contract`, `replace`, `unavailable`, `error`) with session and server.

### Application

`startApplication` and `stopApplication` are modelled call by call, with the capture and
encoder threads and the provider's I/O thread beside them. `locked` says that
`startApplication` holds `m_mutex`, which it does from its first line to its last; every
other critical section is one step. Each object (`adapter`, `server`, `manager`,
`client`) is the run that made it and its phase, and a frame is the run that captured it
and its number, since the camera counts from the beginning in each run. The run is there
for the properties; the code has no such field. Every call of a start that can throw
has a failing alternative, with what is left behind: a start that fails up to
`startServer` leaves `m_started` false, a camera or thread that fails leaves the
application degraded, and a `startClient` that throws (it is outside the `try`) leaves
`m_started` true with a client that has a state and no worker. Such a run has still to be
stopped, as the destructor does, and `QuietAtRest` speaks of the time after. The Pilot
client is only the state it was told last; `PilotIntegrationClient` says what it makes
of it. The encoder's
steps are fewer than in `PreviewPipeline`, and both previews are one. Recording and
Pilot are taken as enabled.

Of the recording manager the application sees whether there is a recording, and whether
its stop could be written. If not (`"faulted"`), its worker lives on and still needs the
manager's mutex, and a start request that comes before the worker has returned joins it
with that mutex held: `route` is then `"blocked"` for good, which is F2 seen from the
application.

This module justifies what `RecordingManager` takes for granted: when `finalize` runs,
no request and no frame can reach the manager any more (`UsesLiveObjects`).

### Configuration and answers

`ProviderApi` is the provider as its clients and its operator see it. `ParseConfig`
parses one document; `StartApplication` applies the checks of everything the start
constructs; then the camera gives frames, the encoder previews, both age, the Pilot
is sent the catalog, and `HandleRequest` answers a request. Threads are not told apart
here (the other modules do that): a handler is one step, and `exchange` keeps the
request and its answer, with the frame it was computed from, until the session closes.

A JSON object is a function from keys to values, and a value a record of type and
content. A string has a shape, which is all the tests of length and control characters
see of it; a URL is the record of its parts. The numbers are exact: lengths are
millimetres, times microseconds, angles whole quarter turns, so that sine and cosine
are integers. The word of a float in a point cloud is then the two's complement of a
whole number, which identifies it as its binary32 representation does. The
mean of a region is its sum. `std::sort` is not stable: the median pixel of
a region is any pixel with the median depth. What boost::json, Asio's address parser
and librealsense do is taken from how the code uses them.

The references are written without what the code is made of: `PointInMount` turns a
point about one axis after another with no matrix, `RoiMatches` and `CloudMatches` are
sets of pixels with no buffer and no loop.

## 3. Runs

| Run | Instance | Checks |
|---|---|---|
| `recording_faults` | 2 recordings, every fault, 2 boots, ring of 1, 2 captures among 3 frames of 2 generations (`ThreeFrames`) | `TypeOK`, `OneDirectory`, `FinalizedComplete`, `LedgerMatchesDisk`, `ActiveHasWorker`, `FramesConserved`, `FinalizedOrdered` |
| `recording_replay` | 3 starts (one reusing an ID), 2 boots, faults of the worker's I/O | `StopReplayAnswered`, `StopEvidenceMatches`, `ProviderNeverJoins`, `FaultedStaysStaged`, `RecordingEnds`, `ShutdownReturns`, `ImplementsLifecycle` |
| `recording_stop_replay`, `recording_join` | one fault each | findings F1, F2 |
| `streaming` | 2 symmetric sessions, 1 stream client, 2 generations x 2 numbers | `TypeOK`, `CountsMatch`, `SessionHasHandler`, `NoLostWakeupLater`, `PartsGetNewer` |
| `streaming_ends` | 1 session, both streams, 2 generations | `StopReturns`, `SessionsEnd` |
| `streaming_wakeup` | 1 session | finding F3 |
| `pilot` | 2 provider states, 2 sessions, 3 sequences, 1 restart, 1 late request | `TypeOK`, `StateConverges`, `SequenceFresh`, `OnlineIsPublished`, `LossNoticed`, `ClientStops` |
| `pilot_cancel` | 1 session | finding F4 |
| `application` | 2 starts, 2 frame numbers in any order | `TypeOK`, `UsesLiveObjects`, `QuietAtRest`, `FramesOfThisRun`, `PilotIsTold`, `AnswersGoForward`, `HealthAnswered`, `StopReturns` |
| `application_stopping` | 1 start | finding F5 |
| `provider_api` | some 400 documents, 70 requests, images of at most 3 x 3 | `AcceptedConfigStarts`, `AdvertisedIsServed`, `NoInternalError`, `QueriesMatchReference`, `CloudRoundTrips` |

Why the bounds are enough for these questions:

- Recording. Two identities are what it takes for one recording to disturb another
  (a replay that replaces the paths under a live worker, a start after a fault). Two
  boots give one crash and the restart after it. Out-of-order frames and generation
  changes need two captures among two frames of one generation and one of another, which
  is what the constraint `ThreeFrames` leaves of two generations and two numbers; with a
  ring of one, the second frame is dropped, or follows the one in the worker's hands.
  `ImplementsLifecycle` is evaluated on every step and is checked in the smaller
  `recording_replay`; under the other faults it rests on theorem `RefinesLifecycle`.
- Streaming. Two sessions compete for one place among the stream clients, so that a
  stream is refused at the limit and admitted after the other has ended; two generations
  with two numbers give an old generation, a new one and an increasing pair in each.
  Symmetry is used in the safety run only.
- Pilot. Two sessions give a re-registration; one restart changes the server instance;
  one late request is enough to meet the session after it. Sequences stop at a bound at
  which the Pilot ends the session.
- Application. Two starts give a restart after a stop and after a failed start; two
  numbers give a newer and an older frame. A run can record, fail to write the stop,
  and get a start request before or after the worker has returned.
- Configuration and answers. The documents are accepted ones and each of them with one
  field missing, unknown, of another type, just outside its range, or all numbers at one
  end of their ranges; a uint64 that wraps when cast is among them. Every
  supported Euler convention is turned by angles that tell its order. The largest sides
  and counts are scaled down (`MaxSide`, `MaxStart`, `MaxFreeBytes`, and four points in
  a cloud) so that images of 1 to 3 pixels a side lie on, below and above each limit:
  a stride of 1 fits, of 2 is needed. Regions lie inside the image, over its right and
  lower border, before it and behind it, with too many pixels, and with none. The fake
  camera starts at frame 255, so that its colors wrap.

The system may stop (a bound is reached, the server, the client or the process has
stopped), so deadlock is not checked in these runs. That nothing waits for ever is stated by the liveness
properties instead.

`CleanFaults` of `recording_replay` leaves out the failures behind F1 and F2 (start not
prepared, stop evidence not written) and a failed directory sync after the rename. A
stop whose evidence could not be written leaves the state FAULTED and the worker alive;
the worker goes on to finalize the artifact and to move it to `finalized/`, so
`FaultedStaysStaged` and `ProviderNeverJoins` hold only without that failure.
`RecordingHistoryProofs` shows that these exclusions are the whole price: it proves the
four properties for every set of faults without them.

F2 reaches further than the recording. The I/O thread that is blocked in
`startOrReplay` handles nothing any more, `stopServer` waits for it in `m_worker.join()`,
and `stopApplication` does not return. The application's `StopReturns` therefore names
this one exception, `route = "blocked"`; without it TLC gives the behaviour just told.
`StopReturns` and `SessionsEnd` of the server are about handlers that return: a handler
is a step there, and a blocked one is outside that module.

Fairness. Recording: the worker takes its steps, the maximal duration elapses, and the
shutdown's join and a waiting start proceed when they can; nobody has to send a request
or deliver a frame. Streaming: the I/O thread runs queued handlers, every socket
operation has a deadline (`request_timeout_ms`), the idle timer expires, the wait of
`stopServer` is bounded; clients owe nothing. Pilot: the worker runs, each request ends
by its deadlines, `stopClient` continues. Application: each of the four threads takes
its steps as long as it can, which a blocked route cannot; nobody has to stop the
application. All of it is weak fairness of a thread that
stays able to step, or of a timer.

## 4. Where code and documents differ

D5 is `docs/designs/src_nodus_vision_phase_5_recording_artifact_implementation_design.md`,
D03 and D4 the designs of phases 0-3 and 4. Each difference is a run whose one property
states the document and which TLC refutes.

- F1 `StopReplayAnswered`: after a failed start of another recording, the exact retry of
  a stop that had been answered 200 is answered 409 (D5:436, 454).
- F2 `StartReturns`: when the stop evidence could not be written, the state is FAULTED
  and the worker is alive. A start then joins that worker while holding the mutex the
  worker needs; neither returns (D5:232: the provider thread does not join). The
  application's `StopReturns` says what becomes of a stop then.
- F3 `NoLostWakeup`: a frame announced while the stream header is written is forgotten
  when the initial frame is sent; the stream waits with a newer frame in the cache
  until the next notification or the idle timeout (D03:611, 612).
- F4 `CancelSparesDisconnect`: the cancel of `stopClient` can hit the disconnect request
  that the worker has begun meanwhile (D4:373, 374).
- F5 `NoStateAfterStopping`: the capture thread tests `m_stop_requested`, reports a
  camera failure and only then tells the Pilot client; a stop in between tells it
  STOPPING first and DEGRADED last (D4:372: no new state requests after the mark).

The streaming model also shows, without a run of its own, that a connection whose accept
was complete when the stop ran becomes a session after it; `StopReturns` covers it.

Met while modelling the configuration and the routes, and without a run:

- `/recordings/start` answers 400 for another device, calibration or profile and 409 for
  a body that is not JSON or lacks a field; D5:420-421 has them the other way round. The
  parsers throw `std::invalid_argument` for the first and boost::json throws something
  else for the second (`RecordingRefusal`).
- `depth_min_m` and `depth_max_m` must be written with a decimal point: `as_double`
  refuses the integers that `schemas/vision/v1/config.schema.json` allows. They are
  checked, and no query uses them.
- A `bind_host` that is no IP address is accepted by the parser and refused by
  `startServer`; `AcceptedConfigStarts` names it as the one exception.
- An `advertised_base_url` with a path is accepted, and the catalog then has targets the
  routes do not know; `AdvertisedIsServed` is about URLs without one.
- `/recordings/current` is served when recording is off, though it is not advertised.
- The D435 frame has no capture timestamps and answers region and point cloud queries
  with empty results. The provider state never goes back from DEGRADED to READY.
- `serializeRegistrationRequest` is called outside any `try` of the Pilot worker: what
  it throws would end the process. `AcceptedConfigStarts` shows that no accepted
  configuration makes it throw.

## 5. Proofs

Every theorem holds for every value of the constants the modules allow: any sets of
recordings, requests, frames, sessions and provider states, and any bounds. The
assumptions are those of the modules: `None` is none of the values it stands beside,
bounds are naturals, the ring, the limits of the server and the sequences have room for
one, `Sessions` is finite, request sets contain request records. Each inductive
invariant was checked by TLC on the bounds of the runs as well (`ApiInv` on fewer
documents and with its generations bounded). Names of theorems are those of `PROJECT.json`.

### Recording, whatever fails (`RecordingProofs`, `RecordingHistoryProofs`)

Proved: `TypeOK`, `OneDirectory`, `FramesConserved`, `FinalizedComplete`,
`LedgerMatchesDisk`, `ActiveHasWorker`, that `RecordingManager` implements
`ArtifactLifecycle` (`RefinesLifecycle`), and `FinalizedOrdered`, for every set of
faults. The inductive invariant is

    Inv == TypeOK /\ OneDirectory /\ WorkerInv /\ FramesConserved
           /\ ActiveHasWorker /\ LedgerMatchesDisk /\ FinalizedComplete

`FinalizedComplete` is not inductive: the rename moves whatever the staging directory
holds, so one must know what each step of `finalizeArtifacts` has done before it.
`FramesConserved` says so, per worker step, together with the balance
admitted = submitted + queued + held. It speaks only of a worker that owns its
directory, since a stop replay of another recording may replace `m_artifact_paths`
under a worker left alive by a failed stop write. `WorkerInv` supplies the rest: the
worker's directory stays in `.staging` until the activation, and foreign paths are
always those of a finalized directory, so that the worker then faults
rather than publish another recording's files.

The central lemma is `DiskStep`: a step keeps all directories and requests, stages one
new identity, or renames one complete artifact, and never changes a finalized
directory. `OneDirectoryStep`, `FinalizedCompleteStep` and `LifecycleStep` follow from
it; `LedgerMatchesDiskStep` and `ActiveHasWorkerStep` split on the actions. Actions that touch
none of the invariant's variables are grouped as `Quiet`.

`FinalizedOrdered` needs `OrderInv` beside `Inv`: the lines on disk increase and are of
one generation, the worker's record of the first and the last identity is theirs, and
so is the manifest's. The lemma on sequences is `AppendOrdered`: an increasing sequence
stays so when what is appended is after its last element (`AfterTransitive`).

### Recording, under hypotheses on the faults (`RecordingHistoryProofs`)

Some promises of the design do not survive every failure (F1, F2). The theorems name
the failures that break them and are proved for every set of the others.

- `StopsAreWritten`: no fault in writing the evidence of a stop. Then `ProviderNeverJoins`,
  `StopEvidenceMatches` and `FaultedStaysStaged`. The invariant `StopInv` says
  that a live worker makes the state active (`LiveIsActive`), and that the stop on disk
  is the one the worker will name (`EvidenceInv`). A failed write of the evidence breaks
  the first: the state is FAULTED and the worker lives.
- `AnswersAreKept`: besides, no start fails half way, and no directory sync fails after
  the rename of an activation. Then `StopReplayAnswered`, by `AnswerInv`: the state that
  a replay is answered from is that of the artifact. A failed start makes the
  state FAULTED and leaves the ledger of the recording before it; a failed sync leaves a
  finalized artifact FAULTED.

### Application (`ApplicationProofs`)

Proved: `TypeOK`, `UsesLiveObjects`, `QuietAtRest`, `FramesOfThisRun`, `PilotIsTold` and
the action property `AnswersGoForward`. What the threads may do depends on where the
main thread is, so the invariant goes by its step: which threads exist (`ThreadInv`),
the phase and the run of each object (`ObjectInv`), whose frames the threads and the
stores hold (`FrameInv`), what the client was told (`ToldInv`), and that the frame served
last is no newer than the stored one as long as there can be another answer
(`ServedInv`). `UsesLiveObjects` is then a matter of the joins coming before the
objects are given up.

### Pilot (`PilotProofs`)

Proved: `TypeOK`, `StateConverges`, `SequenceFresh`, `OnlineIsPublished`. The difficulty
is the request that the client gave up and the Pilot receives later. It cannot harm,
because a write that fails ends the session: `LateInv` says that no write of the present
session can still arrive, and `SessionInv` that session numbers are given out once.
`SequenceInv` and `StateInv` relate the two ends per step of the worker: what the
Pilot has is current or an update is pending, and its sequence is below the next one.

### Streaming (`StreamingProofs`)

Proved: `TypeOK`, `CountsMatch`, `SessionHasHandler`, `PartsGetNewer`,
`NoLostWakeupLater`, for every finite set of sessions.
What concerns one session at a time is kept in `SessionInv(t)`: `OwnStep` shows that its
own handlers keep it, `OthersUntouched` that other sessions' do, and `NotifyEffect` what
a notification does to all of them at once. The counters need cardinalities: a handler
adds or removes one session (`CancelCounts`), and while the server runs nothing closes a
session under its own read (`ServerInv`, `ReadInv`), so that nothing is counted twice.
The wake-up needs what happens while a part is written: a preview gets newer only
together with its notification (`PipelineNews`), and a notification that finds a part
in flight is remembered in `m_refresh_pending` (`WakeupInv`). For the first part that is
false, which is finding F3.

### Queries and point clouds (`MountProofs`, `QueryProofs`)

These theorems are about operators, so that they hold for every image, region, limit and
cloud, whatever the provider lets through.

`MountIsValid` and `MountMatchesReference` hold for every translation, every three axes
and every three angles. A rotation is broken into quarter turns, which permute and negate
columns (`OneTurnMore`): then orthonormal rows, determinant and the image of a point
follow by polynomial identities of at most nine unknowns.

The loops of the code are recursive functions on an interval of numbers. That such a
function is defined, and what it computes, is shown by taking the least number at which
it would be wrong (`LeastElement`, from the library's theorem that < is well-founded, and
`RecursiveFunction`, `UpTo`), which replaces induction.

- `StrideIsFinest`: the loop of `buildPointCloudSnapshot` that widens the stride ends, at
  the first stride whose grid fits.
- `PixelAnswerMatches`: the index of a pixel determines its column and row
  (`BufferOfPixel`).
- `RoiAnswerMatches`: the scan of the clamped region visits each of its pixels once
  (`Cells`, `ScanIs`, `ClampedIs`), the pixels kept are those with a depth, each once
  (`KeptPixels`), the running sum is the sum over that set (`TotalIsDepthSum`), and the
  k-th depth after the sort has fewer than k nearer ones and k or more that are not
  farther (`OrderStatistics`), so that the first, the last and the middle one are the
  minimum, the maximum and an upper median. That `SortedDepths` is defined at all for
  every k is `KthExists`.
- `CloudAnswerMatches`: the same for the grid (`Slots`, `SampledIs`), with the color of
  each pixel.
- `PointCloudRoundTrips`: a number that fits is put together again from its bytes, the
  sign from the last one (`ShiftedIs`, `AssembledWord`, `UnsignedWord`, `SignedWord`); the
  payload is nine parts at known offsets (`NineParts`, `PayloadIs`), and the count among
  them gives the length the reader asks for. The hypotheses are that the cloud passes
  `validatePointCloud` and that its numbers fit (`Writable`); that they do for every cloud
  the provider answers with is part of `AnsweredCloudsRoundTrip`.

### Configuration and answers (`ApiProofs`)

Proved: `AcceptedConfigStarts`, `AdvertisedIsServed`, `NoInternalError`,
`QueriesMatchReference` and `CloudRoundTrips`, for every set of documents and requests.
What is assumed of these (`DocumentsAssumption`, `RequestsAssumption`) is what their types
say: a number fits the 64 bits of its JSON kind, the path of a URL and a target are
sequences of names, what `parsePixelRequest` and `parseRoiRequest` return is integers;
and, the one restriction, the angles of a mount are whole quarter turns, as everywhere in
this model. The bounds on sizes are any up to those of the code (`WordsAssumption`): a
side of at most 4096 pixels, at most 100000 points, and a signed 64-bit number for the
number and the time of the last frame. The code keeps far away from that last bound: its
frame numbers start at 1000000000 at most.

`ApiInv` is the inductive invariant: the configuration is that of an accepted
document, the frame is one that its camera may have given (`FrameIsTheCameras`, with
`CameraCounts` for its number), the catalog sent is `BuildCatalog(config)`, the request
is one of `Requests`, and the reply is one the routes would give now, from the frame that
is fresh now (nothing they read changes before the session closes, `RepliesDependOn`).
The rest is about what an accepted document implies.

- `AcceptedStarts` goes through the constructors one by one. A bounded integer is within
  its limits although a uint64 is cast before it is compared (`BoundedIsPositive`,
  `BoundedIsBounded`); the mount is valid by `MountIsValid`; identifiers and capabilities
  of the catalog are distinct whatever parts it has (`CatalogDistinct`), so that the
  strictly increasing order the codec asks for exists.
- `CatalogRoutes`, `MetadataRoutes` and `ServedCodes` show that the catalog, the metadata
  and the codes of the routes are each the same relation `Serves` of path and method.
- For `NoInternalError`, a region that was let through has an area (`RoiAnswers`), the
  matrix a point cloud is written with is a rotation again when it is cut into rows
  (`MatrixRows`), and its stride is positive.
- `QueriesMatchReference` applies the theorems on queries to the frame of the invariant,
  and `MountMatchesReference` to the point that is serialized. For the point cloud the
  reference is compared with what a client reads from the bytes, so that it rests on the
  round trip.
- `CloudRoundTrips` needs that everything written fits its word, for both cameras
  (`CloudIsWritable`): coordinates from the sides of the image (`DeprojectedFits`), the
  rows of a rotation from its being one (`UnitSquare`, `MatrixFits`), the translation from
  the limits of the mount (`MountFits`), count and stride from `StrideIsFinest`, number and
  time from `CameraCounts` (`IdentityFits`, `TimeFits`).

### Only model-checked

Liveness: `RecordingEnds`, `ShutdownReturns`, `StopReturns` of the server and of the
application, `SessionsEnd`, `LossNoticed`, `ClientStops`, `HealthAnswered`. Fairness and
`ENABLED` are outside the prover's reach. All other properties of the passing runs are
proved. The proofs share the model's abstractions: whole numbers for floats, and mounts
turned by quarter turns.

## 6. Not modelled

- FFmpeg encoding, JPEG encoding, camera drivers, SHA-256, the text of JSON and the
  rounding of floating-point numbers: computation on data, no control.
- The names of enumerators (`camera_contracts.cpp`, `provider_health.cpp`), the static
  metadata, media types and schema names of the catalog.
- `inject_timeout`, `inject_read_error` and `advanceFrame` of the fake camera, which only
  tests set.
- The parsers of the Pilot's answers, beyond accepted or malformed.
- Symlink and file size checks of the store; `getStatus`, `getStagingCount`,
  `getSnapshot`, which only read.
- Handlers that `stopServer` runs on the main thread when it drains the I/O context after
  the join: `VisionApplication` has routes on the I/O thread only. The drain happens
  before anything else is joined or finalized, so that these routes find the objects of
  the run as the others do; `ProviderHttpServer` models the drain itself.
- A route that throws inside `notifySessions` (only a failed allocation can), and a
  second `startServer` on the same object.
- Disk contents after power loss: a crash is the death of the process.
- `retry_count`, which only sets the length of a delay.
- The texts of `last_error`, and the counters of the health document that
  `ProviderHttpServer` and `RecordingManager` model where they are kept.

## 7. Plan

Done: every component with its runs, and proofs of every safety and action property that
a passing run checks. What is left is liveness, which stays with TLC, and the three
hazards of `PROJECT.json` that no property covers, each with its reason there.
