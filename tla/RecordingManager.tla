-------------------------- MODULE RecordingManager --------------------------
(***************************************************************************)
(* The bounded recording worker: RecordingManager::Impl                    *)
(* (src/recording/recording_manager.cpp) over RecordingStore, as           *)
(* VisionApplication drives it.  Four threads take steps:                  *)
(*   - the provider I/O thread runs startOrReplay and finalizeOrReplay;    *)
(*   - the capture thread runs trySubmitFrame;                             *)
(*   - the recording worker runs runWorker and finalizeArtifacts;          *)
(*   - the main thread runs finalize on shutdown, after the provider and   *)
(*     the capture thread have been stopped.                               *)
(* A critical section of m_mutex is one step.  The one place that blocks   *)
(* inside it is startOrReplay, which joins the worker: http holds the      *)
(* request whose handler is waiting there, and nobody else can lock then.  *)
(* Faults names the operations that may fail; MaxBoots and MaxCaptures     *)
(* bound how often the process is started and how many frames it captures. *)
(***************************************************************************)
EXTENDS RecordingStore

CONSTANTS QueueCapacity, Faults, MaxBoots, MaxCaptures

ASSUME CapacityAssumption == QueueCapacity \in Nat \ {0}
ASSUME BoundsAssumption == MaxBoots \in Nat /\ MaxCaptures \in Nat

VARIABLES
  process,        \* "up", "stopping" (main thread in finalize), "down"
  boots,          \* processes started so far
  state,          \* m_state
  recordingId,    \* m_recording_id
  startLedger,    \* m_start_request_id with m_start_canonical
  stopLedger,     \* m_stop_request_id with m_stop_canonical
  stopReason,     \* m_stop_reason
  paths,          \* m_artifact_paths: the recording whose directories they are
  writer,         \* m_writer and m_sidecar: the recording they write
  queue,          \* m_queue with head, tail and count
  admitted,       \* m_admitted_frame_count
  submitted,      \* m_submitted_frame_count
  drops,          \* m_recording_drop_count
  contention,     \* m_contention_drop_count
  admitting,      \* m_admitting
  stopRequested,  \* m_stop_requested
  first,          \* m_first_identity, None without m_has_identity
  last,           \* m_last_identity, None without m_has_identity
  durationOver,   \* now >= m_duration_deadline
  overdue,        \* now >= m_finalize_deadline
  worker,         \* m_worker: "none" is not joinable, "done" has returned
  held,           \* the frame runWorker took off the queue
  digest,         \* frames.jsonl as finalizeArtifacts digested it
  manifest,       \* the manifest finalizeArtifacts has built
  http,           \* the start request whose handler waits in m_worker.join()
  capture,        \* "idle", or "contended" between the failed try_lock's test
                  \* of m_admitting and the increment
  captured        \* frames the camera has delivered

ledgerVars   == <<recordingId, startLedger, stopLedger, stopReason>>
counterVars  == <<admitted, submitted, drops, contention>>
identityVars == <<first, last>>
flagVars     == <<state, admitting, stopRequested>>
clockVars    == <<durationOver, overdue>>
mediaVars    == <<paths, writer>>
managerVars  == <<ledgerVars, counterVars, identityVars, flagVars, clockVars,
                  mediaVars, queue>>
localVars    == <<held, digest, manifest>>
captureVars  == <<capture, captured>>
processVars  == <<process, boots>>
envVars      == <<captureVars, processVars, http>>
vars == <<storeVars, managerVars, localVars, envVars, worker>>

States == {"IDLE", "PREPARING", "RECORDING", "FINALIZING", "FINALIZED", "FAULTED"}
WorkerSteps == {"none", "loop", "frame", "count", "video", "sidecar", "digest",
                "build", "manifest", "check", "activate", "publish", "fault", "done"}

Manifests ==
  [recording : RecordingIds, start : StartRequests \cup {None},
   stop : StopRequests \cup {None}, reason : Reasons,
   admitted : Nat, submitted : Nat, drops : Nat,
   first : Frames \cup {None}, last : Frames \cup {None}, digest : Seq(Frames)]

Directories ==
  [start : StartRequests \cup {None}, stop : StopEvidence \cup {None},
   trailer : BOOLEAN, closed : BOOLEAN, lines : Seq(Frames),
   manifest : Manifests \cup {None}]

ASSUME NoneIsNoManifest == None \notin Manifests

LockFree == http = None
Live == worker \notin {"none", "done"}
\* Mutant of Active: a recording that finalizes does not count as active.
ActiveUntilStop == state \in {"PREPARING", "RECORDING"}
Active == state \in {"PREPARING", "RECORDING", "FINALIZING"}

Fails(points) == points \cap Faults

Init ==
  /\ StoreInit
  /\ process = "up" /\ boots = 1 /\ captured = 0
  /\ state = "IDLE" /\ admitting = FALSE /\ stopRequested = FALSE
  /\ recordingId = None /\ startLedger = None /\ stopLedger = None
  /\ stopReason = "APPLICATION_SHUTDOWN"
  /\ paths = None /\ writer = None /\ queue = <<>>
  /\ admitted = 0 /\ submitted = 0 /\ drops = 0 /\ contention = 0
  /\ first = None /\ last = None
  /\ durationOver = FALSE /\ overdue = FALSE
  /\ worker = "none" /\ held = None /\ digest = <<>> /\ manifest = None
  /\ http = None /\ capture = "idle"

-----------------------------------------------------------------------------
\* isStrictlyAfter: lexicographic on generation, then frame number.
IsStrictlyAfter(f, g) ==
  \/ f.generation > g.generation
  \/ f.generation = g.generation /\ f.number > g.number

(***************************************************************************)
(* finalization begins: a stop request, shutdown or the duration deadline. *)
(***************************************************************************)
StopWriteEndings == {"ok"} \cup Fails({"stop_request", "stop_sync", "stop_late"})

\* Mutants of RecordStop: the evidence of an internal stop is kept as a
\* request; the request is recorded before its evidence is on disk; the reason
\* is not updated.
RecordEvidence(reason, evidence, request, ending) ==
  /\ stopReason' = IF ending = "ok" THEN reason ELSE stopReason
  /\ stopLedger' = IF ending = "ok" THEN evidence ELSE stopLedger

RecordStopFirst(reason, evidence, request, ending) ==
  stopReason' = reason /\ stopLedger' = request

RecordRequestOnly(reason, evidence, request, ending) ==
  /\ stopReason' = stopReason
  /\ stopLedger' = IF ending = "ok" THEN request ELSE stopLedger

\* The stop that begins the finalization, once its evidence is on disk.
RecordStop(reason, evidence, request, ending) ==
  /\ stopReason' = IF ending = "ok" THEN reason ELSE stopReason
  /\ stopLedger' = IF ending = "ok" THEN request ELSE stopLedger

\* beginFinalizationLocked.  Any ending but "ok" throws after the state has
\* become FAULTED; "stop_late" is evidence written past the finalize deadline.
BeginFinalization(reason, evidence, request, ending) ==
  /\ WriteStopRequest(paths, evidence, ending)
  /\ state' = IF ending = "ok" THEN "FINALIZING" ELSE "FAULTED"
  /\ admitting' = FALSE
  /\ stopRequested' = TRUE
  /\ overdue' = (ending = "stop_late")
  /\ RecordStop(reason, evidence, request, ending)

\* restorePersistedArtifactLocked(artifact of r, ...): the ledger of a
\* recording found on disk, with all counters of this process forgotten.
RestorePersistedArtifact(r, startRequest) ==
  /\ paths' = r
  /\ recordingId' = r
  /\ admitted' = 0
  /\ submitted' = 0
  /\ drops' = 0
  /\ contention' = 0
  /\ queue' = <<>>
  /\ first' = None
  /\ last' = None
  /\ startLedger' = startRequest
  /\ stopRequested' = TRUE
  /\ admitting' = FALSE
  /\ state' = IF r \in finalizedDirs THEN "FINALIZED" ELSE "FAULTED"

-----------------------------------------------------------------------------
(***************************************************************************)
(* startOrReplay, on the provider I/O thread.                              *)
(***************************************************************************)
SameStart(q) ==
  /\ startLedger # None
  /\ q.recording = recordingId
  /\ q.request = startLedger.request

\* What startOrReplay decides for q, as a function of memory and disk.
StartOutcome(q) ==
  CASE SameStart(q) -> IF q = startLedger THEN "REPLAYED" ELSE "CONFLICT"
    [] ~SameStart(q) /\ Active -> "CONFLICT"
    [] ~SameStart(q) /\ ~Active /\ Persisted(q.recording) ->
         IF Readable(q.recording) /\ files[q.recording].start = q
         THEN "RESTORED" ELSE "CONFLICT"
    [] OTHER -> "NEW"

\* The handler passes its early returns and reaches a live worker's join
\* while it holds m_mutex.
StartBlocksInJoin(q) ==
  /\ process = "up"
  /\ LockFree
  /\ ~SameStart(q)
  /\ ~Active
  /\ Live
  /\ http' = q
  /\ UNCHANGED <<storeVars, managerVars, localVars, captureVars, processVars, worker>>

\* The handler of q is past the join: there was nothing to wait for, or the
\* worker it waited for has returned.
PastJoin(q) ==
  /\ process = "up"
  /\ http \in {None, q}
  /\ ~SameStart(q)
  /\ ~Active
  /\ ~Live
  /\ http' = None

\* An artifact exists that is unreadable or was started by another body.
StartConflicts(q) ==
  /\ PastJoin(q)
  /\ StartOutcome(q) = "CONFLICT"
  /\ worker' = "none"
  /\ UNCHANGED <<storeVars, managerVars, localVars, captureVars, processVars>>

\* An artifact that this body started exists: its ledger is restored.
StartRestores(q) ==
  /\ PastJoin(q)
  /\ StartOutcome(q) = "RESTORED"
  /\ RestorePersistedArtifact(q.recording, q)
  /\ stopLedger' = None
  /\ stopReason' = "APPLICATION_SHUTDOWN"
  /\ worker' = "none"
  /\ UNCHANGED <<storeVars, clockVars, localVars, captureVars, processVars, writer>>

\* Nothing exists, and the preparation throws: at createStaging ("prepare",
\* "start_request") or at the video writer or the sidecar ("media").  The
\* ledger and the counters of the recording before stay.
StartFails(q, ending) ==
  /\ PastJoin(q)
  /\ StartOutcome(q) = "NEW"
  /\ CreateStaging(q, ending)
  /\ paths' = IF ending = "media" THEN q.recording ELSE paths
  /\ state' = "FAULTED"
  /\ admitting' = FALSE
  /\ worker' = "none"
  /\ UNCHANGED <<ledgerVars, counterVars, identityVars, clockVars, localVars,
                 captureVars, processVars, queue, stopRequested, writer>>

\* Nothing exists, and directory, writer and sidecar are made; the ledger is
\* the new recording's.  The worker starts, or its thread cannot be created.
StartSucceeds(q, ending) ==
  /\ PastJoin(q)
  /\ StartOutcome(q) = "NEW"
  /\ CreateStaging(q, ending)
  /\ paths' = q.recording
  /\ writer' = q.recording
  /\ recordingId' = q.recording
  /\ startLedger' = q
  /\ stopLedger' = None
  /\ stopReason' = "APPLICATION_SHUTDOWN"
  /\ admitted' = 0
  /\ submitted' = 0
  /\ drops' = 0
  /\ contention' = 0
  /\ queue' = <<>>
  /\ stopRequested' = FALSE
  /\ first' = None
  /\ last' = None
  /\ durationOver' = FALSE
  /\ worker' = IF ending = "ok" THEN "loop" ELSE "none"
  /\ state' = IF ending = "ok" THEN "RECORDING" ELSE "FAULTED"
  /\ admitting' = (ending = "ok")
  /\ UNCHANGED <<localVars, captureVars, processVars, overdue>>

\* createStaging refuses an identity that has a directory.
StartFailures(q) ==
  IF CanStage(q.recording) THEN Fails({"prepare", "start_request", "media"})
  ELSE {"prepare"}

StartOrReplay(q) ==
  \/ StartBlocksInJoin(q)
  \/ StartConflicts(q)
  \/ StartRestores(q)
  \/ \E e \in StartFailures(q) : StartFails(q, e)
  \/ \E e \in {"ok"} \cup Fails({"thread"}) : StartSucceeds(q, e)

-----------------------------------------------------------------------------
(***************************************************************************)
(* finalizeOrReplay, on the provider I/O thread.                           *)
(***************************************************************************)
SameStop(q) ==
  /\ stopLedger # None
  /\ q.recording = recordingId
  /\ q.request = stopLedger.request

\* What finalizeOrReplay decides for q.  RESTORED and REPLAYED are both
\* answered 200, BEGIN and ACCEPTED 202, CONFLICT 409, NOT_FOUND 404.
StopOutcome(q) ==
  LET r == q.recording
      evidence == files[r].stop
  IN  CASE SameStop(q) ->
             IF q # stopLedger \/ state = "FAULTED" THEN "CONFLICT"
             ELSE IF state = "FINALIZED" THEN "REPLAYED" ELSE "ACCEPTED"
        [] ~SameStop(q) /\ Persisted(r) /\ ~Readable(r) -> "CONFLICT"
        [] ~SameStop(q) /\ Persisted(r) /\ Readable(r) /\ evidence # None ->
             IF evidence # q THEN "CONFLICT"
             ELSE IF r \in finalizedDirs
                  THEN IF state \in {"RECORDING", "FINALIZING"}
                       THEN "REPLAYED" ELSE "RESTORED"
                  ELSE "CONFLICT"
        [] OTHER ->
             IF r # recordingId THEN "NOT_FOUND"
             ELSE IF state # "RECORDING" THEN "CONFLICT" ELSE "BEGIN"

\* The stop of an artifact that is finalized on disk, while nothing is active:
\* its ledger replaces the one in memory.  The worker is not joined.
StopRestores(q) ==
  /\ process = "up"
  /\ LockFree
  /\ StopOutcome(q) = "RESTORED"
  /\ RestorePersistedArtifact(q.recording, None)
  /\ stopLedger' = q
  /\ stopReason' = "REQUESTED"
  /\ UNCHANGED <<storeVars, envVars, clockVars, localVars, worker, writer>>

StopBegins(q, ending) ==
  /\ process = "up"
  /\ LockFree
  /\ StopOutcome(q) = "BEGIN"
  /\ BeginFinalization("REQUESTED", q, q, ending)
  /\ UNCHANGED <<envVars, counterVars, identityVars, mediaVars, localVars,
                 durationOver, queue, recordingId, startLedger, worker>>

FinalizeOrReplay(q) ==
  \/ StopRestores(q)
  \/ \E e \in StopWriteEndings : StopBegins(q, e)

-----------------------------------------------------------------------------
(***************************************************************************)
(* trySubmitFrame, on the capture thread.                                  *)
(***************************************************************************)
Captures == process = "up" /\ capture = "idle" /\ captured < MaxCaptures

QueueFull == Len(queue) = QueueCapacity

\* try_lock succeeds.
SubmitFrame(f) ==
  /\ Captures
  /\ LockFree
  /\ captured' = captured + 1
  /\ IF state # "RECORDING"
     THEN UNCHANGED <<queue, admitted, drops>>
     ELSE IF QueueFull
          THEN drops' = drops + 1 /\ UNCHANGED <<admitted, queue>>
          ELSE queue' = Append(queue, f) /\ admitted' = admitted + 1 /\ UNCHANGED drops
  /\ UNCHANGED <<storeVars, ledgerVars, identityVars, flagVars, clockVars, mediaVars,
                 localVars, processVars, capture, contention, http, submitted,
                 worker>>

\* try_lock fails: any other thread may be in a critical section.  The frame
\* is lost; m_admitting is read without the lock.
SubmitContended ==
  /\ Captures
  /\ captured' = captured + 1
  /\ capture' = IF admitting THEN "contended" ELSE "idle"
  /\ UNCHANGED <<storeVars, managerVars, localVars, processVars, http, worker>>

\* The increment of the atomic counter, a step of its own.
CountContention ==
  /\ process = "up"
  /\ capture = "contended"
  /\ contention' = contention + 1
  /\ capture' = "idle"
  /\ UNCHANGED <<storeVars, ledgerVars, identityVars, flagVars, clockVars, mediaVars,
                 localVars, processVars, admitted, captured, drops, http, queue,
                 submitted, worker>>

-----------------------------------------------------------------------------
(***************************************************************************)
(* runWorker and finalizeArtifacts, on the recording worker.  A step that   *)
(* begins with requireFinalizeWithinDeadline needs the mutex for it.        *)
(***************************************************************************)
WorkerAt(step) == worker = step /\ process # "down"

Timely == ~(stopRequested /\ overdue)

\* Mutants of TakeFrameOrLeave: a stop abandons the queue; the frame stays in
\* the queue; the loop waits for a frame even after a stop.
AbandonQueue ==
  IF queue = <<>> \/ stopRequested
  THEN worker' = "video" /\ UNCHANGED <<held, queue>>
  ELSE worker' = "frame" /\ held' = Head(queue) /\ queue' = Tail(queue)

PeekFrameOrLeave ==
  IF queue = <<>>
  THEN worker' = "video" /\ UNCHANGED <<held, queue>>
  ELSE worker' = "frame" /\ held' = Head(queue) /\ UNCHANGED queue

TakeFrameOrWait ==
  queue # <<>> /\ worker' = "frame" /\ held' = Head(queue) /\ queue' = Tail(queue)

\* The rest of an iteration's critical section: leave the loop when a stop was
\* requested and the queue is empty, otherwise take the oldest frame.
TakeFrameOrLeave ==
  IF queue = <<>>
  THEN worker' = "video" /\ UNCHANGED <<held, queue>>
  ELSE worker' = "frame" /\ held' = Head(queue) /\ queue' = Tail(queue)

\* An iteration of the loop up to the unlock.  wait_until returns when there
\* is a frame, a stop or the duration deadline; every change of the first two
\* is made under the mutex and followed by a notify.
WorkerTakes ==
  /\ WorkerAt("loop")
  /\ LockFree
  /\ queue # <<>> \/ stopRequested
  /\ stopRequested \/ ~durationOver
  /\ TakeFrameOrLeave
  /\ UNCHANGED <<storeVars, envVars, ledgerVars, counterVars, identityVars, flagVars,
                 clockVars, mediaVars, digest, manifest>>

\* The iteration that finds the duration deadline passed.
WorkerExpires(ending) ==
  /\ WorkerAt("loop")
  /\ LockFree
  /\ ~stopRequested
  /\ durationOver
  /\ BeginFinalization("MAX_DURATION",
       InternalStopEvidence(recordingId, "MAX_DURATION"), None, ending)
  /\ IF ending = "ok"
     THEN TakeFrameOrLeave
     ELSE worker' = "fault" /\ UNCHANGED <<held, queue>>
  /\ UNCHANGED <<envVars, counterVars, identityVars, mediaVars, digest, durationOver,
                 manifest, recordingId, startLedger>>

\* Mutant of FrameAccepted: a new capture generation is accepted.
AnyGenerationAccepted(f) == last # None => IsStrictlyAfter(f, last)

\* The frame follows the last one and is of the same generation.
FrameAccepted(f) ==
  last # None => IsStrictlyAfter(f, last) /\ f.generation = last.generation

\* RecordingSidecarWriter::append has its own order check.
SidecarAccepts(f, lines) ==
  lines # <<>> => IsStrictlyAfter(f, lines[Len(lines)])

\* writeFrame and append.  Both are given the frame outside the mutex.
WorkerWritesFrame ==
  /\ WorkerAt("frame")
  /\ LockFree
  /\ \/ /\ Timely
        /\ FrameAccepted(held)
        /\ SidecarAccepts(held, files[writer].lines)
        /\ files' = [files EXCEPT ![writer].lines = Append(@, held)]
        /\ worker' = "count"
     \/ /\ \/ ~Timely
           \/ ~FrameAccepted(held)
           \/ ~SidecarAccepts(held, files[writer].lines)
           \/ Fails({"frame"}) # {}
        /\ worker' = "fault"
        /\ UNCHANGED files
  /\ UNCHANGED <<stagingDirs, finalizedDirs, managerVars, envVars, localVars>>

WorkerCountsFrame ==
  /\ WorkerAt("count")
  /\ LockFree
  /\ first' = IF last = None THEN held ELSE first
  /\ last' = held
  /\ submitted' = submitted + 1
  /\ held' = None
  /\ worker' = "loop"
  /\ UNCHANGED <<storeVars, envVars, ledgerVars, flagVars, clockVars, mediaVars,
                 admitted, contention, digest, drops, manifest, queue>>

\* ColorVideoWriter::finalize: encoder flush and MP4 trailer.
WorkerFinalizesVideo ==
  /\ WorkerAt("video")
  /\ LockFree
  /\ \/ /\ Timely
        /\ files' = [files EXCEPT ![writer].trailer = TRUE]
        /\ worker' = "sidecar"
     \/ /\ ~Timely \/ Fails({"video"}) # {}
        /\ worker' = "fault"
        /\ UNCHANGED files
  /\ UNCHANGED <<stagingDirs, finalizedDirs, managerVars, envVars, localVars>>

\* RecordingSidecarWriter::finalize: flush and close.
WorkerClosesSidecar ==
  /\ WorkerAt("sidecar")
  /\ LockFree
  /\ \/ /\ Timely
        /\ files' = [files EXCEPT ![writer].closed = TRUE]
        /\ worker' = "digest"
     \/ /\ ~Timely \/ Fails({"sidecar"}) # {}
        /\ worker' = "fault"
        /\ UNCHANGED files
  /\ UNCHANGED <<stagingDirs, finalizedDirs, managerVars, envVars, localVars>>

\* calculateRecordingArtifactDigest of both files, below m_artifact_paths.
WorkerDigests ==
  /\ WorkerAt("digest")
  /\ LockFree
  /\ \/ /\ Timely
        /\ paths \in stagingDirs
        /\ digest' = files[paths].lines
        /\ worker' = "build"
     \/ /\ ~Timely \/ paths \notin stagingDirs \/ Fails({"digest"}) # {}
        /\ worker' = "fault"
        /\ UNCHANGED digest
  /\ UNCHANGED <<storeVars, managerVars, envVars, held, manifest>>

\* The critical section that copies the ledger and the counters.
FinalizedManifest ==
  [recording |-> recordingId, start |-> startLedger, stop |-> stopLedger,
   reason |-> stopReason, admitted |-> admitted, submitted |-> submitted,
   drops |-> drops + contention, first |-> first, last |-> last,
   digest |-> digest]

WorkerBuildsManifest ==
  /\ WorkerAt("build")
  /\ LockFree
  /\ \/ /\ Timely
        /\ manifest' = FinalizedManifest
        /\ worker' = "manifest"
     \/ /\ ~Timely
        /\ worker' = "fault"
        /\ UNCHANGED manifest
  /\ UNCHANGED <<storeVars, managerVars, envVars, digest, held>>

\* serializeFinalizedRecordingManifest, which throws on counts that disagree,
\* and writeFinalizedManifest.  No mutex.
ManifestEndings ==
  IF manifest.submitted <= manifest.admitted /\ paths \in stagingDirs
  THEN {"ok"} \cup Fails({"manifest", "manifest_sync"})
  ELSE {"manifest"}

WorkerWritesManifest ==
  /\ WorkerAt("manifest")
  /\ \E ending \in ManifestEndings :
       /\ WriteFinalizedManifest(paths, manifest, ending)
       /\ worker' = IF ending = "ok" THEN "check" ELSE "fault"
  /\ UNCHANGED <<managerVars, envVars, localVars>>

\* The last deadline check: the activation after it may still be late.
WorkerChecksDeadline ==
  /\ WorkerAt("check")
  /\ LockFree
  /\ worker' = IF Timely THEN "activate" ELSE "fault"
  /\ UNCHANGED <<storeVars, managerVars, envVars, localVars>>

\* activateFinalized.  No mutex.
ActivateEndings ==
  IF CanActivate(paths) THEN {"ok"} \cup Fails({"activate", "activate_sync"})
  ELSE {"activate"}

WorkerActivates ==
  /\ WorkerAt("activate")
  /\ \E ending \in ActivateEndings :
       /\ ActivateFinalized(paths, ending)
       /\ worker' = IF ending = "ok" THEN "publish" ELSE "fault"
  /\ UNCHANGED <<managerVars, envVars, localVars>>

\* The thread returns: its locals are gone.
WorkerReturns ==
  /\ worker' = "done"
  /\ held' = None /\ digest' = <<>> /\ manifest' = None
  /\ UNCHANGED <<storeVars, ledgerVars, counterVars, identityVars, clockVars,
                 mediaVars, queue, envVars>>

\* Mutants of WorkerPublishes and WorkerFaults: the state is not left; the
\* exception is caught inside the loop.
WorkerPublishesNothing ==
  /\ WorkerAt("publish") /\ LockFree
  /\ UNCHANGED flagVars
  /\ WorkerReturns

WorkerFaultsSilently ==
  /\ WorkerAt("fault") /\ LockFree
  /\ UNCHANGED flagVars
  /\ WorkerReturns

WorkerCarriesOn ==
  /\ WorkerAt("fault") /\ LockFree
  /\ state' = "FAULTED" /\ admitting' = FALSE /\ stopRequested' = TRUE
  /\ worker' = "loop"
  /\ UNCHANGED <<storeVars, ledgerVars, counterVars, identityVars, clockVars,
                 mediaVars, queue, localVars, envVars>>

WorkerPublishes ==
  /\ WorkerAt("publish")
  /\ LockFree
  /\ state' = "FINALIZED"
  /\ UNCHANGED <<admitting, stopRequested>>
  /\ WorkerReturns

\* The catch block of runWorker.
WorkerFaults ==
  /\ WorkerAt("fault")
  /\ LockFree
  /\ state' = "FAULTED"
  /\ admitting' = FALSE
  /\ stopRequested' = TRUE
  /\ WorkerReturns

RunWorker ==
  \/ WorkerTakes
  \/ \E e \in StopWriteEndings : WorkerExpires(e)
  \/ WorkerWritesFrame
  \/ WorkerCountsFrame
  \/ WorkerFinalizesVideo
  \/ WorkerClosesSidecar
  \/ WorkerDigests
  \/ WorkerBuildsManifest
  \/ WorkerWritesManifest
  \/ WorkerChecksDeadline
  \/ WorkerActivates
  \/ WorkerPublishes
  \/ WorkerFaults

-----------------------------------------------------------------------------
(***************************************************************************)
(* Clocks, shutdown, crash and restart.                                    *)
(***************************************************************************)
DurationElapses ==
  /\ process # "down"
  /\ Live /\ ~stopRequested /\ ~durationOver
  /\ durationOver' = TRUE
  /\ UNCHANGED <<storeVars, envVars, ledgerVars, counterVars, identityVars, flagVars,
                 mediaVars, localVars, overdue, queue, worker>>

FinalizeTimeElapses ==
  /\ process # "down"
  /\ Live /\ stopRequested /\ ~overdue
  /\ overdue' = TRUE
  /\ UNCHANGED <<storeVars, envVars, ledgerVars, counterVars, identityVars, flagVars,
                 mediaVars, localVars, durationOver, queue, worker>>

\* finalize, up to the join.  stopApplication has joined the provider's and
\* the capture thread before it calls it.
ShutdownBegins(ending) ==
  /\ process = "up"
  /\ LockFree
  /\ capture = "idle"
  /\ process' = "stopping"
  /\ IF state = "RECORDING"
     THEN BeginFinalization("APPLICATION_SHUTDOWN",
            InternalStopEvidence(recordingId, "APPLICATION_SHUTDOWN"), None, ending)
     ELSE /\ ending = "ok"
          /\ UNCHANGED <<storeVars, flagVars, overdue, stopLedger, stopReason>>
  /\ UNCHANGED <<counterVars, identityVars, mediaVars, localVars, captureVars, boots,
                 durationOver, http, queue, recordingId, startLedger, worker>>

\* Memory is gone: the next process starts with what Impl's constructor sets.
ForgetMemory ==
  /\ state' = "IDLE" /\ admitting' = FALSE /\ stopRequested' = FALSE
  /\ recordingId' = None /\ startLedger' = None /\ stopLedger' = None
  /\ stopReason' = "APPLICATION_SHUTDOWN"
  /\ paths' = None /\ writer' = None /\ queue' = <<>>
  /\ admitted' = 0 /\ submitted' = 0 /\ drops' = 0 /\ contention' = 0
  /\ first' = None /\ last' = None
  /\ durationOver' = FALSE /\ overdue' = FALSE
  /\ worker' = "none" /\ held' = None /\ digest' = <<>> /\ manifest' = None
  /\ http' = None /\ capture' = "idle"

\* The join returns and the process exits.
ShutdownEnds ==
  /\ process = "stopping"
  /\ ~Live
  /\ process' = "down"
  /\ ForgetMemory
  /\ UNCHANGED <<storeVars, boots, captured>>

\* The process dies anywhere.  The lines that an open frames.jsonl still had
\* in its stream buffer are lost.
Crash ==
  /\ process # "down"
  /\ process' = "down"
  /\ ForgetMemory
  /\ IF writer # None /\ writer \in stagingDirs /\ ~files[writer].closed
     THEN \E n \in 0..Len(files[writer].lines) :
            files' = [files EXCEPT ![writer].lines = SubSeq(@, 1, n)]
     ELSE UNCHANGED files
  /\ UNCHANGED <<stagingDirs, finalizedDirs, boots, captured>>

Boot ==
  /\ process = "down"
  /\ boots < MaxBoots
  /\ process' = "up"
  /\ boots' = boots + 1
  /\ UNCHANGED <<storeVars, managerVars, localVars, captureVars, http, worker>>

Next ==
  \/ \E q \in StartRequests : StartOrReplay(q)
  \/ \E q \in StopRequests : FinalizeOrReplay(q)
  \/ \E f \in Frames : SubmitFrame(f)
  \/ SubmitContended
  \/ CountContention
  \/ RunWorker
  \/ DurationElapses
  \/ FinalizeTimeElapses
  \/ \E e \in StopWriteEndings : ShutdownBegins(e)
  \/ ShutdownEnds
  \/ Crash
  \/ Boot

Spec == Init /\ [][Next]_vars

\* A thread that can take a step takes one, and time passes.  Nothing makes a
\* caller send a request, a camera deliver a frame or a process crash.
FairSpec ==
  /\ Spec
  /\ WF_vars(RunWorker)
  /\ WF_vars(DurationElapses)
  /\ WF_vars(ShutdownEnds)
  /\ WF_vars(\E q \in StartRequests : http = q /\ StartOrReplay(q))

-----------------------------------------------------------------------------
StoreTypeOK ==
  /\ stagingDirs \subseteq RecordingIds
  /\ finalizedDirs \subseteq RecordingIds
  /\ files \in [RecordingIds -> Directories]

\* Every variable has its type, and the queue never holds more frames than
\* its preallocated ring.
TypeOK ==
  /\ StoreTypeOK
  /\ process \in {"up", "stopping", "down"}
  /\ boots \in Nat
  /\ state \in States
  /\ recordingId \in RecordingIds \cup {None}
  /\ startLedger \in StartRequests \cup {None}
  /\ stopLedger \in StopRequests \cup {None}
  /\ stopReason \in Reasons
  /\ paths \in RecordingIds \cup {None}
  /\ writer \in RecordingIds \cup {None}
  /\ queue \in Seq(Frames) /\ Len(queue) <= QueueCapacity
  /\ admitted \in Nat /\ submitted \in Nat /\ drops \in Nat /\ contention \in Nat
  /\ admitting \in BOOLEAN /\ stopRequested \in BOOLEAN
  /\ first \in Frames \cup {None} /\ last \in Frames \cup {None}
  /\ durationOver \in BOOLEAN /\ overdue \in BOOLEAN
  /\ worker \in WorkerSteps
  /\ held \in Frames \cup {None}
  /\ digest \in Seq(Frames)
  /\ manifest \in Manifests \cup {None}
  /\ http \in StartRequests \cup {None}
  /\ capture \in {"idle", "contended"}
  /\ captured \in Nat

\* A recording has one directory at most: the two lookups of
\* findPersistedArtifact never both succeed, and createStaging and
\* activateFinalized never overwrite.
OneDirectory == stagingDirs \cap finalizedDirs = {}

\* A directory under finalized/ is a complete artifact (design 8.3 and 13):
\* trailer and sidecar are closed, the manifest names this recording and the
\* request that started it, every admitted frame was submitted and has its
\* line, and the digest is of the lines that are there.
ArtifactComplete(r) ==
  LET d == files[r]
      m == d.manifest
  IN  /\ d.trailer /\ d.closed
      /\ m # None
      /\ m.recording = r
      /\ d.start # None /\ m.start = d.start
      /\ m.admitted = m.submitted
      /\ m.submitted = Len(d.lines)
      /\ m.digest = d.lines

FinalizedComplete == \A r \in finalizedDirs : ArtifactComplete(r)

\* The frames of a finalized artifact are strictly increasing, of one capture
\* generation, and the manifest's first and last frame are the sidecar's.
FinalizedOrdered ==
  \A r \in finalizedDirs :
    LET s == files[r].lines
        m == files[r].manifest
    IN  /\ \A i, j \in 1..Len(s) : i < j => IsStrictlyAfter(s[j], s[i])
        /\ \A i, j \in 1..Len(s) : s[i].generation = s[j].generation
        /\ IF s = <<>> THEN m.first = None /\ m.last = None
           ELSE m.first = s[1] /\ m.last = s[Len(s)]

\* The request ledger in memory is the one on disk: whichever of the two a
\* replay is answered from, the answer compares with the same body.
LedgerMatchesDisk ==
  /\ startLedger # None =>
       Persisted(recordingId) /\ files[recordingId].start = startLedger
  /\ stopLedger # None =>
       Persisted(recordingId) /\ files[recordingId].stop = stopLedger

\* A state that refuses every other start is backed by a worker that is going
\* to leave it, and that worker writes the recording the state is about.
ActiveHasWorker ==
  Active => /\ Live
            /\ recordingId = paths /\ paths = writer
            /\ startLedger # None
            /\ Persisted(recordingId)

\* The worker's directory, as long as m_artifact_paths still names it: a stop
\* replay of another recording may have replaced the paths under a worker
\* whose stop evidence could not be written.
Owned == paths = writer /\ writer \in stagingDirs

Closing == {"video", "sidecar", "digest", "build", "manifest", "check", "activate"}
Writing == {"loop", "frame", "count"} \cup Closing

\* Facts about the worker that FramesConserved and ActiveHasWorker rest on:
\* until the activation its directory is in .staging; m_artifact_paths leaves
\* that directory only for a finalized one; and a state of RECORDING has a
\* worker that has not begun to finalize, as every live worker has otherwise.
WorkerInv ==
  /\ worker \in Writing => writer \in stagingDirs /\ (Owned => startLedger # None)
  /\ Live => /\ recordingId \in RecordingIds
             /\ paths \in RecordingIds
             /\ writer \in RecordingIds
             /\ paths = writer \/ paths \in finalizedDirs
             /\ stopRequested \/ state = "RECORDING"
  /\ worker \in {"frame", "count"} => held \in Frames
  /\ worker \in {"manifest", "check", "activate"} => manifest \in Manifests
  /\ state = "RECORDING" => /\ ~stopRequested
                            /\ stopLedger = None
                            /\ writer \in stagingDirs
                            /\ worker \in {"loop", "frame", "count", "fault"}

\* No frame is lost or duplicated between admission and the sidecar, and each
\* step of finalizeArtifacts has done its part of the artifact: the invariant
\* behind FinalizedComplete.
FramesConserved ==
  (worker \in Writing /\ Owned) =>
    LET d == files[writer]
    IN  /\ recordingId = writer
        /\ d.start = startLedger
        /\ Len(d.lines) = submitted + (IF worker = "count" THEN 1 ELSE 0)
        /\ admitted = submitted + Len(queue)
                      + (IF worker \in {"frame", "count"} THEN 1 ELSE 0)
        /\ worker \in Closing => queue = <<>> /\ stopRequested
        /\ worker \in Closing \ {"video"} => d.trailer
        /\ worker \in Closing \ {"video", "sidecar"} => d.closed
        /\ worker \in {"build", "manifest", "check", "activate"} => digest = d.lines
        /\ worker \in {"manifest", "check", "activate"} =>
             /\ manifest.recording = writer
             /\ manifest.start = d.start
             /\ manifest.admitted = admitted /\ manifest.submitted = submitted
             /\ manifest.digest = d.lines
        /\ worker \in {"check", "activate"} => d.manifest = manifest

\* A stop request whose artifact is finalized is answered 200, also after a
\* restart (design 14.2 and 15).  While the worker is between the rename and
\* the publication the answer is still 202.
StopReplayAnswered ==
  \A q \in StopRequests :
    (/\ process = "up" /\ LockFree /\ worker # "publish"
     /\ q.recording \in finalizedDirs
     /\ files[q.recording].stop = q)
      => StopOutcome(q) \in {"REPLAYED", "RESTORED"}

\* The manifest gives the real cause of the end (design 8.3): the stop that it
\* names is the one whose evidence lies beside it.
StopEvidenceMatches ==
  \A r \in finalizedDirs :
    LET m == files[r].manifest
    IN  files[r].stop = IF m.stop # None THEN m.stop
                        ELSE InternalStopEvidence(r, m.reason)

\* The manager implements ArtifactLifecycle: an identity is staged once, for
\* one start request, its directory is published by one rename with every
\* admitted frame in it, and nothing under finalized/ is modified, removed or
\* overwritten (design 8.2, 8.3, 9 and 15).
StageOf(r) ==
  IF r \in finalizedDirs THEN "finalized"
  ELSE IF r \in stagingDirs THEN "staging" ELSE "absent"

PublishedArtifact(r) ==
  IF r \in finalizedDirs
  THEN [owner |-> files[r].start, frames |-> files[r].lines,
        admitted |-> files[r].manifest.admitted, manifest |-> files[r].manifest]
  ELSE None

Lifecycle == INSTANCE ArtifactLifecycle WITH
  Identities <- RecordingIds,
  Nobody <- None,
  stage <- [r \in RecordingIds |-> StageOf(r)],
  owner <- [r \in RecordingIds |-> files[r].start],
  published <- [r \in RecordingIds |-> PublishedArtifact(r)]

ImplementsLifecycle == Lifecycle!LifecycleSpec

\* A recording that has faulted stays below .staging (design 8.3).
FaultedStaysStaged == [][state = "FAULTED" => finalizedDirs' = finalizedDirs]_vars

\* A recording does not stay active for ever, even if nobody stops it.
RecordingEnds == Active ~> ~Active

\* The provider I/O thread never waits for the worker (design 8.3).
ProviderNeverJoins == LockFree

\* A start request whose handler waits is answered.
StartReturns == http # None ~> http = None

\* finalize returns.
ShutdownReturns == process = "stopping" ~> process = "down"
=============================================================================
