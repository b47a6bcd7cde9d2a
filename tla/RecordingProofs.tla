--------------------------- MODULE RecordingProofs ---------------------------
(***************************************************************************)
(* Proofs about RecordingManager for every set of recordings, requests and *)
(* frames, every queue capacity, every set of faults and every number of   *)
(* restarts.                                                               *)
(***************************************************************************)
EXTENDS RecordingManager, TLAPS

-----------------------------------------------------------------------------
(***************************************************************************)
(* Type correctness.                                                       *)
(***************************************************************************)
\* A start or stop body names a recording and is not None.
LEMMA RequestFacts ==
  ASSUME NEW q \in StartRequests \cup StopRequests
  PROVE  q.recording \in RecordingIds
BY RequestsAssumption DEF IsRequest

\* createStaging makes a directory of the right shape.
LEMMA NewDirectoryType ==
  ASSUME NEW s \in StartRequests \cup {None}
  PROVE  NewDirectory(s) \in Directories
BY DEF NewDirectory, Directories

\* The evidence of an internal stop (serializeInternalStopEvidence) is evidence.
LEMMA InternalEvidenceType ==
  ASSUME NEW r \in RecordingIds, NEW why \in Reasons
  PROVE  InternalStopEvidence(r, why) \in StopEvidence
BY DEF StopEvidence

\* A process that has just been started satisfies the type invariant.
LEMMA TypeInit == Init => TypeOK
<1> SUFFICES ASSUME Init PROVE TypeOK
  OBVIOUS
<1>1. StoreTypeOK
  BY NewDirectoryType DEF Init, StoreInit, StoreTypeOK
<1>2. queue \in Seq(Frames) /\ Len(queue) <= QueueCapacity
  BY CapacityAssumption DEF Init
<1>3. QED
  BY <1>1, <1>2 DEF Init, TypeOK, States, Reasons, WorkerSteps

\* createStaging leaves directories of the right shape.
LEMMA CreateStagingType ==
  ASSUME StoreTypeOK, NEW q \in StartRequests, NEW e, CreateStaging(q, e)
  PROVE  StoreTypeOK'
<1>1. q.recording \in RecordingIds
  BY RequestFacts
<1>2. NewDirectory(IF e = "start_request" THEN None ELSE q) \in Directories
  BY NewDirectoryType
<1>3. QED
  BY <1>1, <1>2 DEF CreateStaging, StoreTypeOK, storeVars

\* So do writeStopRequest and writeFinalizedManifest.
LEMMA WriteStopRequestType ==
  ASSUME StoreTypeOK, NEW r, NEW e, NEW evidence \in StopEvidence,
         WriteStopRequest(r, evidence, e)
  PROVE  StoreTypeOK'
BY DEF WriteStopRequest, StoreTypeOK, Directories

\* writeFinalizedManifest leaves directories of the right shape.
LEMMA WriteManifestType ==
  ASSUME StoreTypeOK, NEW r, NEW e, NEW m \in Manifests,
         WriteFinalizedManifest(r, m, e)
  PROVE  StoreTypeOK'
BY DEF WriteFinalizedManifest, StoreTypeOK, Directories

\* So does what the worker writes.
LEMMA LinesType ==
  ASSUME StoreTypeOK, NEW r, NEW s \in Seq(Frames),
         files' = [files EXCEPT ![r].lines = s],
         UNCHANGED <<stagingDirs, finalizedDirs>>
  PROVE  StoreTypeOK'
BY DEF StoreTypeOK, Directories

\* So does the MP4 trailer of ColorVideoWriter::finalize.
LEMMA TrailerType ==
  ASSUME StoreTypeOK, NEW r, files' = [files EXCEPT ![r].trailer = TRUE],
         UNCHANGED <<stagingDirs, finalizedDirs>>
  PROVE  StoreTypeOK'
BY DEF StoreTypeOK, Directories

\* So does closing frames.jsonl.
LEMMA ClosedType ==
  ASSUME StoreTypeOK, NEW r, files' = [files EXCEPT ![r].closed = TRUE],
         UNCHANGED <<stagingDirs, finalizedDirs>>
  PROVE  StoreTypeOK'
BY DEF StoreTypeOK, Directories

\* The queue after an action that leaves it, empties it, takes its head or
\* appends to it where there is room.
LEMMA QueueType ==
  ASSUME TypeOK,
         \/ queue' = queue
         \/ queue' = <<>>
         \/ queue # <<>> /\ queue' = Tail(queue)
         \/ Len(queue) # QueueCapacity /\ \E f \in Frames : queue' = Append(queue, f)
  PROVE  queue' \in Seq(Frames) /\ Len(queue') <= QueueCapacity
<1> USE CapacityAssumption DEF TypeOK
<1>1. CASE queue' = queue
  BY <1>1
<1>2. CASE queue' = <<>>
  BY <1>2
<1>3. CASE queue # <<>> /\ queue' = Tail(queue)
  BY <1>3
<1>4. CASE Len(queue) # QueueCapacity /\ \E f \in Frames : queue' = Append(queue, f)
  BY <1>4
<1>5. QED
  BY <1>1, <1>2, <1>3, <1>4

\* beginFinalizationLocked keeps the types of what it assigns.
LEMMA BeginFinalizationType ==
  ASSUME TypeOK, NEW why \in Reasons, NEW evidence \in StopEvidence,
         NEW request \in StopRequests \cup {None}, NEW e,
         BeginFinalization(why, evidence, request, e)
  PROVE  /\ StoreTypeOK'
         /\ state' \in States
         /\ admitting' \in BOOLEAN /\ stopRequested' \in BOOLEAN
         /\ overdue' \in BOOLEAN
         /\ stopReason' \in Reasons
         /\ stopLedger' \in StopRequests \cup {None}
<1>1. StoreTypeOK'
  BY WriteStopRequestType DEF BeginFinalization, TypeOK
<1>2. QED
  BY <1>1 DEF BeginFinalization, RecordStop, TypeOK, States

\* One action at a time: the store, the queue, then the other variables.
LEMMA TypeStep == TypeOK /\ WorkerInv /\ [Next]_vars => TypeOK'
<1> SUFFICES ASSUME TypeOK, WorkerInv, [Next]_vars PROVE TypeOK'
  OBVIOUS
<1> USE DEF storeVars, ledgerVars, counterVars, identityVars, flagVars, clockVars,
            mediaVars, managerVars, localVars, captureVars, processVars, envVars
<1>st. ASSUME UNCHANGED storeVars PROVE StoreTypeOK'
  BY <1>st DEF TypeOK, StoreTypeOK
<1>1. ASSUME NEW q \in StartRequests, StartBlocksInJoin(q) PROVE TypeOK'
  <2>1. StoreTypeOK'
    BY <1>1, <1>st DEF StartBlocksInJoin
  <2>2. QED
    BY <1>1, <2>1 DEF StartBlocksInJoin, TypeOK
<1>2. ASSUME NEW q \in StartRequests, StartConflicts(q) PROVE TypeOK'
  <2>1. StoreTypeOK'
    BY <1>2, <1>st DEF StartConflicts
  <2>2. QED
    BY <1>2, <2>1 DEF StartConflicts, PastJoin, TypeOK, WorkerSteps
<1>3. ASSUME NEW q \in StartRequests, StartRestores(q) PROVE TypeOK'
  <2>1. StoreTypeOK'
    BY <1>3, <1>st DEF StartRestores
  <2>2. queue' \in Seq(Frames) /\ Len(queue') <= QueueCapacity
    BY <1>3, QueueType DEF StartRestores, RestorePersistedArtifact
  <2>3. q.recording \in RecordingIds
    BY RequestFacts
  <2>4. QED
    BY <1>3, <2>1, <2>2, <2>3
       DEF StartRestores, RestorePersistedArtifact, PastJoin, TypeOK, WorkerSteps,
           States, Reasons
<1>4. ASSUME NEW q \in StartRequests, NEW e, StartFails(q, e) PROVE TypeOK'
  <2>1. StoreTypeOK'
    BY <1>4, CreateStagingType DEF StartFails, TypeOK
  <2>2. q.recording \in RecordingIds
    BY RequestFacts
  <2>3. queue' \in Seq(Frames) /\ Len(queue') <= QueueCapacity
    BY <1>4, QueueType DEF StartFails
  <2>4. paths' \in RecordingIds \cup {None}
    BY <1>4, <2>2 DEF StartFails, TypeOK
  <2>5. /\ state' \in States /\ admitting' \in BOOLEAN /\ worker' \in WorkerSteps
        /\ http' \in StartRequests \cup {None}
    BY <1>4 DEF StartFails, PastJoin, States, WorkerSteps
  <2>6. UNCHANGED <<ledgerVars, counterVars, identityVars, clockVars, localVars,
                    captureVars, processVars, stopRequested, writer>>
    BY <1>4 DEF StartFails
  <2>7. QED
    BY <2>1, <2>3, <2>4, <2>5, <2>6 DEF TypeOK
<1>5. ASSUME NEW q \in StartRequests, NEW e, StartSucceeds(q, e) PROVE TypeOK'
  <2>1. StoreTypeOK'
    BY <1>5, CreateStagingType DEF StartSucceeds, TypeOK
  <2>2. queue' \in Seq(Frames) /\ Len(queue') <= QueueCapacity
    BY <1>5, QueueType DEF StartSucceeds
  <2>3. q.recording \in RecordingIds
    BY RequestFacts
  <2>4. QED
    BY <1>5, <2>1, <2>2, <2>3
       DEF StartSucceeds, PastJoin, TypeOK, WorkerSteps, States, Reasons
<1>6. ASSUME NEW q \in StopRequests, StopRestores(q) PROVE TypeOK'
  <2>1. StoreTypeOK'
    BY <1>6, <1>st DEF StopRestores
  <2>2. queue' \in Seq(Frames) /\ Len(queue') <= QueueCapacity
    BY <1>6, QueueType DEF StopRestores, RestorePersistedArtifact
  <2>3. q.recording \in RecordingIds
    BY RequestFacts
  <2>4. QED
    BY <1>6, <2>1, <2>2, <2>3
       DEF StopRestores, RestorePersistedArtifact, TypeOK, States, Reasons
<1>7. ASSUME NEW q \in StopRequests, NEW e, StopBegins(q, e) PROVE TypeOK'
  <2>1. q \in StopEvidence /\ "REQUESTED" \in Reasons
    BY DEF StopEvidence, Reasons
  <2>2. /\ StoreTypeOK'
        /\ state' \in States
        /\ admitting' \in BOOLEAN /\ stopRequested' \in BOOLEAN
        /\ overdue' \in BOOLEAN
        /\ stopReason' \in Reasons
        /\ stopLedger' \in StopRequests \cup {None}
    BY <1>7, <2>1, BeginFinalizationType DEF StopBegins
  <2>3. QED
    BY <1>7, <2>2 DEF StopBegins, TypeOK
<1>8. ASSUME NEW f \in Frames, SubmitFrame(f) PROVE TypeOK'
  <2>1. StoreTypeOK'
    BY <1>8, <1>st DEF SubmitFrame
  <2>2. queue' \in Seq(Frames) /\ Len(queue') <= QueueCapacity
    BY <1>8, QueueType DEF SubmitFrame, QueueFull
  <2>3. captured' \in Nat /\ admitted' \in Nat /\ drops' \in Nat
    BY <1>8 DEF SubmitFrame, TypeOK
  <2>4. QED
    BY <1>8, <2>1, <2>2, <2>3 DEF SubmitFrame, TypeOK
<1>9. CASE SubmitContended
  <2>1. StoreTypeOK'
    BY <1>9, <1>st DEF SubmitContended
  <2>2. QED
    BY <1>9, <2>1 DEF SubmitContended, TypeOK
<1>10. CASE CountContention
  <2>1. StoreTypeOK'
    BY <1>10, <1>st DEF CountContention
  <2>2. QED
    BY <1>10, <2>1 DEF CountContention, TypeOK
<1>11. CASE WorkerTakes
  <2>1. StoreTypeOK'
    BY <1>11, <1>st DEF WorkerTakes
  <2>2. queue' \in Seq(Frames) /\ Len(queue') <= QueueCapacity
    BY <1>11, QueueType DEF WorkerTakes, TakeFrameOrLeave
  <2>3. queue # <<>> => Head(queue) \in Frames
    BY DEF TypeOK
  <2>4. QED
    BY <1>11, <2>1, <2>2, <2>3 DEF WorkerTakes, TakeFrameOrLeave, TypeOK, WorkerSteps
<1>12. ASSUME NEW e, WorkerExpires(e) PROVE TypeOK'
  <2>1. recordingId \in RecordingIds /\ "MAX_DURATION" \in Reasons
    BY <1>12 DEF WorkerExpires, WorkerAt, WorkerInv, Live, Reasons
  <2>2. InternalStopEvidence(recordingId, "MAX_DURATION") \in StopEvidence
    BY <2>1, InternalEvidenceType
  <2>3. /\ StoreTypeOK'
        /\ state' \in States
        /\ admitting' \in BOOLEAN /\ stopRequested' \in BOOLEAN
        /\ overdue' \in BOOLEAN
        /\ stopReason' \in Reasons
        /\ stopLedger' \in StopRequests \cup {None}
    BY <1>12, <2>1, <2>2, BeginFinalizationType DEF WorkerExpires
  <2>4. queue' \in Seq(Frames) /\ Len(queue') <= QueueCapacity
    BY <1>12, QueueType DEF WorkerExpires, TakeFrameOrLeave
  <2>5. queue # <<>> => Head(queue) \in Frames
    BY DEF TypeOK
  <2>6. QED
    BY <1>12, <2>3, <2>4, <2>5 DEF WorkerExpires, TakeFrameOrLeave, TypeOK, WorkerSteps
<1>13. CASE WorkerWritesFrame
  <2>1. held \in Frames /\ writer \in RecordingIds
    BY <1>13 DEF WorkerWritesFrame, WorkerAt, WorkerInv, Live
  <2>2. files[writer].lines \in Seq(Frames)
    BY <2>1 DEF TypeOK, StoreTypeOK, Directories
  <2>3. Append(files[writer].lines, held) \in Seq(Frames)
    BY <2>1, <2>2
  <2>4. StoreTypeOK'
    BY <1>13, <1>st, <2>3, LinesType DEF WorkerWritesFrame, TypeOK
  <2>5. QED
    BY <1>13, <2>4 DEF WorkerWritesFrame, TypeOK, WorkerSteps
<1>14. CASE WorkerCountsFrame
  <2>1. StoreTypeOK'
    BY <1>14, <1>st DEF WorkerCountsFrame
  <2>2. QED
    BY <1>14, <2>1 DEF WorkerCountsFrame, TypeOK, WorkerSteps
<1>15. CASE WorkerFinalizesVideo
  <2>1. StoreTypeOK'
    BY <1>15, <1>st, TrailerType DEF WorkerFinalizesVideo, TypeOK
  <2>2. QED
    BY <1>15, <2>1 DEF WorkerFinalizesVideo, TypeOK, WorkerSteps
<1>16. CASE WorkerClosesSidecar
  <2>1. StoreTypeOK'
    BY <1>16, <1>st, ClosedType DEF WorkerClosesSidecar, TypeOK
  <2>2. QED
    BY <1>16, <2>1 DEF WorkerClosesSidecar, TypeOK, WorkerSteps
<1>17. CASE WorkerDigests
  <2>1. StoreTypeOK'
    BY <1>17, <1>st DEF WorkerDigests
  <2>2. paths \in stagingDirs => files[paths].lines \in Seq(Frames)
    BY DEF TypeOK, StoreTypeOK, Directories
  <2>3. QED
    BY <1>17, <2>1, <2>2 DEF WorkerDigests, TypeOK, WorkerSteps
<1>18. CASE WorkerBuildsManifest
  <2>1. StoreTypeOK'
    BY <1>18, <1>st DEF WorkerBuildsManifest
  <2>2. recordingId \in RecordingIds
    BY <1>18 DEF WorkerBuildsManifest, WorkerAt, WorkerInv, Live
  <2>3. FinalizedManifest \in Manifests
    BY <2>2 DEF FinalizedManifest, Manifests, TypeOK
  <2>4. QED
    BY <1>18, <2>1, <2>3 DEF WorkerBuildsManifest, TypeOK, WorkerSteps
<1>19. CASE WorkerWritesManifest
  <2>1. manifest \in Manifests
    BY <1>19 DEF WorkerWritesManifest, WorkerAt, WorkerInv
  <2>2. StoreTypeOK'
    BY <1>19, <2>1, WriteManifestType DEF WorkerWritesManifest, TypeOK
  <2>3. QED
    BY <1>19, <2>2 DEF WorkerWritesManifest, TypeOK, WorkerSteps
<1>20. CASE WorkerChecksDeadline
  <2>1. StoreTypeOK'
    BY <1>20, <1>st DEF WorkerChecksDeadline
  <2>2. QED
    BY <1>20, <2>1 DEF WorkerChecksDeadline, TypeOK, WorkerSteps
<1>21. CASE WorkerActivates
  <2>1. StoreTypeOK'
    BY <1>21, <1>st DEF WorkerActivates, ActivateFinalized, CanActivate, TypeOK, StoreTypeOK
  <2>2. QED
    BY <1>21, <2>1 DEF WorkerActivates, TypeOK, WorkerSteps
<1>22. CASE WorkerPublishes \/ WorkerFaults
  <2>1. StoreTypeOK'
    BY <1>22, <1>st DEF WorkerPublishes, WorkerFaults, WorkerReturns
  <2>2. <<>> \in Seq(Frames)
    OBVIOUS
  <2>3. /\ worker' = "done" /\ held' = None /\ digest' = <<>> /\ manifest' = None
        /\ UNCHANGED <<ledgerVars, counterVars, identityVars, clockVars, mediaVars, queue,
                       envVars>>
    BY <1>22 DEF WorkerPublishes, WorkerFaults, WorkerReturns
  <2>4. state' \in States /\ admitting' \in BOOLEAN /\ stopRequested' \in BOOLEAN
    BY <1>22 DEF WorkerPublishes, WorkerFaults, TypeOK, States
  <2>5. QED
    BY <2>1, <2>2, <2>3, <2>4 DEF TypeOK, WorkerSteps
<1>23. CASE DurationElapses \/ FinalizeTimeElapses
  <2>1. StoreTypeOK'
    BY <1>23, <1>st DEF DurationElapses, FinalizeTimeElapses
  <2>2. QED
    BY <1>23, <2>1 DEF DurationElapses, FinalizeTimeElapses, TypeOK
<1>24. ASSUME NEW e, ShutdownBegins(e) PROVE TypeOK'
  <2>1. CASE state = "RECORDING"
    <3>1. recordingId \in RecordingIds /\ "APPLICATION_SHUTDOWN" \in Reasons
      BY <2>1 DEF WorkerInv, Live, Reasons
    <3>2. InternalStopEvidence(recordingId, "APPLICATION_SHUTDOWN") \in StopEvidence
      BY <3>1, InternalEvidenceType
    <3>3. /\ StoreTypeOK'
          /\ state' \in States
          /\ admitting' \in BOOLEAN /\ stopRequested' \in BOOLEAN
          /\ overdue' \in BOOLEAN
          /\ stopReason' \in Reasons
          /\ stopLedger' \in StopRequests \cup {None}
      BY <1>24, <2>1, <3>1, <3>2, BeginFinalizationType DEF ShutdownBegins
    <3>4. QED
      BY <1>24, <3>3 DEF ShutdownBegins, TypeOK
  <2>2. CASE state # "RECORDING"
    <3>1. StoreTypeOK'
      BY <1>24, <2>2, <1>st DEF ShutdownBegins
    <3>2. QED
      BY <1>24, <2>2, <3>1 DEF ShutdownBegins, TypeOK
  <2>3. QED
    BY <2>1, <2>2
<1>25. ASSUME ForgetMemory, StoreTypeOK', process' = "down", UNCHANGED <<boots, captured>>
       PROVE  TypeOK'
  <2>1. queue' \in Seq(Frames) /\ Len(queue') <= QueueCapacity
    BY <1>25, QueueType DEF ForgetMemory
  <2>2. digest' \in Seq(Frames)
    BY <1>25 DEF ForgetMemory
  <2>3. QED
    BY <1>25, <2>1, <2>2 DEF ForgetMemory, TypeOK, States, Reasons, WorkerSteps
<1>26. CASE ShutdownEnds
  BY <1>26, <1>25, <1>st DEF ShutdownEnds
<1>27. CASE Crash
  <2>1. ASSUME writer \in stagingDirs, NEW n \in 0..Len(files[writer].lines)
        PROVE  SubSeq(files[writer].lines, 1, n) \in Seq(Frames)
    <3>1. files[writer].lines \in Seq(Frames)
      BY <2>1 DEF TypeOK, StoreTypeOK, Directories
    <3>2. QED
      BY <2>1, <3>1
  <2>2. StoreTypeOK'
    BY <1>27, <1>st, <2>1, LinesType DEF Crash, TypeOK
  <2>3. QED
    BY <1>27, <2>2, <1>25 DEF Crash
<1>28. CASE Boot
  <2>1. StoreTypeOK'
    BY <1>28, <1>st DEF Boot
  <2>2. QED
    BY <1>28, <2>1, BoundsAssumption DEF Boot, TypeOK
<1>29. CASE UNCHANGED vars
  <2>1. StoreTypeOK'
    BY <1>29, <1>st DEF vars
  <2>2. QED
    BY <1>29, <2>1 DEF vars, TypeOK
<1>30. QED
  BY <1>1, <1>2, <1>3, <1>4, <1>5, <1>6, <1>7, <1>8, <1>9, <1>10, <1>11, <1>12, <1>13,
     <1>14, <1>15, <1>16, <1>17, <1>18, <1>19, <1>20, <1>21, <1>22, <1>23, <1>24, <1>26,
     <1>27, <1>28, <1>29
     DEF Next, StartOrReplay, FinalizeOrReplay, RunWorker
-----------------------------------------------------------------------------
(***************************************************************************)
(* The inductive invariant.  FinalizedComplete holds because a directory   *)
(* is renamed only by a worker that has done every step before on that very *)
(* directory (FramesConserved), and the directory is still its own          *)
(* (WorkerInv); nothing writes below finalized/ because whatever is written *)
(* is in .staging (WorkerInv) and an identity is in one place only          *)
(* (OneDirectory).                                                         *)
(***************************************************************************)
Inv ==
  /\ TypeOK
  /\ OneDirectory
  /\ WorkerInv
  /\ FramesConserved
  /\ ActiveHasWorker
  /\ LedgerMatchesDisk
  /\ FinalizedComplete

\* What the conjuncts of Inv speak of.
invVars == <<storeVars, ledgerVars, flagVars, mediaVars, queue, admitted, submitted,
             localVars, worker>>

\* Steps that touch nothing of it.
Quiet ==
  \/ \E q \in StartRequests : StartBlocksInJoin(q)
  \/ SubmitContended
  \/ CountContention
  \/ DurationElapses
  \/ FinalizeTimeElapses
  \/ Boot
  \/ UNCHANGED vars

\* The clocks and the capture thread leave all that Inv is about.
LEMMA QuietIsQuiet == Quiet => UNCHANGED invVars
BY DEF Quiet, StartBlocksInJoin, SubmitContended, CountContention, DurationElapses,
       FinalizeTimeElapses, Boot, vars, invVars, storeVars, managerVars, ledgerVars,
       counterVars, identityVars, flagVars, clockVars, mediaVars, localVars

\* What the outcomes of startOrReplay and finalizeOrReplay say about the disk.
LEMMA NewIsAbsent ==
  ASSUME NEW q, PastJoin(q), StartOutcome(q) = "NEW"
  PROVE  ~Persisted(q.recording)
BY DEF PastJoin, StartOutcome

\* A start that restores finds its artifact, with its own start request.
LEMMA RestoredByStart ==
  ASSUME NEW q, PastJoin(q), StartOutcome(q) = "RESTORED"
  PROVE  Persisted(q.recording) /\ files[q.recording].start = q
BY DEF PastJoin, StartOutcome

\* A stop that restores finds a finalized artifact with its own evidence.
LEMMA RestoredByStop ==
  ASSUME NEW q, StopOutcome(q) = "RESTORED"
  PROVE  q.recording \in finalizedDirs /\ files[q.recording].stop = q
BY DEF StopOutcome

\* A stop that begins a finalization finds its recording in state RECORDING.
LEMMA BegunByStop ==
  ASSUME NEW q, StopOutcome(q) = "BEGIN"
  PROVE  state = "RECORDING" /\ q.recording = recordingId
BY DEF StopOutcome

\* The directory that a new recording is staged in.
LEMMA Staged ==
  ASSUME StoreTypeOK, NEW q \in StartRequests, NEW e, CreateStaging(q, e)
  PROVE  /\ finalizedDirs' = finalizedDirs
         /\ stagingDirs \subseteq stagingDirs'
         /\ stagingDirs' \subseteq stagingDirs \cup {q.recording}
         /\ \A r \in RecordingIds : r # q.recording => files'[r] = files[r]
         /\ e \notin {"prepare", "start_request"} =>
              /\ q.recording \in stagingDirs'
              /\ files'[q.recording] = NewDirectory(q)
<1>1. q.recording \in RecordingIds
  BY RequestFacts
<1>2. QED
  BY <1>1 DEF CreateStaging, StoreTypeOK, storeVars

\* In state RECORDING the paths are those of the worker's directory.
LEMMA RecordingPaths ==
  ASSUME Inv, state = "RECORDING"
  PROVE  /\ paths = recordingId /\ writer = recordingId /\ Live
         /\ paths \in RecordingIds
         /\ paths \in stagingDirs /\ paths \notin finalizedDirs
         /\ startLedger # None /\ stopLedger = None
BY DEF Inv, WorkerInv, ActiveHasWorker, Active, OneDirectory

\* The evidence of a stop changes nothing else in the directory.
LEMMA EvidenceWritten ==
  ASSUME StoreTypeOK, NEW r \in RecordingIds, NEW e, NEW evidence,
         WriteStopRequest(r, evidence, e)
  PROVE  /\ UNCHANGED <<stagingDirs, finalizedDirs>>
         /\ \A s \in RecordingIds : s # r => files'[s] = files[s]
         /\ files'[r].start = files[r].start
         /\ files'[r].lines = files[r].lines
         /\ files'[r].trailer = files[r].trailer
         /\ files'[r].closed = files[r].closed
         /\ files'[r].manifest = files[r].manifest
         /\ e = "ok" => files'[r].stop = evidence
BY DEF WriteStopRequest, StoreTypeOK, Directories

\* What beginFinalizationLocked leaves of the disk and the ledger.
LEMMA FinalizationBegun ==
  ASSUME Inv, state = "RECORDING", NEW why, NEW evidence, NEW request, NEW e,
         BeginFinalization(why, evidence, request, e)
  PROVE  /\ UNCHANGED <<stagingDirs, finalizedDirs>>
         /\ \A s \in RecordingIds : s # paths => files'[s] = files[s]
         /\ files'[paths].start = files[paths].start
         /\ files'[paths].lines = files[paths].lines
         /\ files'[paths].trailer = files[paths].trailer
         /\ files'[paths].closed = files[paths].closed
         /\ files'[paths].manifest = files[paths].manifest
         /\ e = "ok" => files'[paths].stop = evidence
         /\ state' \in {"FINALIZING", "FAULTED"}
         /\ stopRequested'
         /\ stopLedger' = IF e = "ok" THEN request ELSE None
<1>1. StoreTypeOK /\ paths \in RecordingIds
  BY RecordingPaths DEF Inv, TypeOK
<1>2. WriteStopRequest(paths, evidence, e)
  BY DEF BeginFinalization
<1>3. stopLedger = None
  BY RecordingPaths
<1>4. QED
  BY <1>1, <1>2, <1>3, EvidenceWritten DEF BeginFinalization, RecordStop

-----------------------------------------------------------------------------
(***************************************************************************)
(* What a step does to the disk, seen from outside: nothing that a reader of *)
(* the directories could tell, or one directory is staged, or a complete one *)
(* is renamed.                                                             *)
(***************************************************************************)
DiskKept ==
  /\ UNCHANGED <<stagingDirs, finalizedDirs>>
  /\ \A r \in RecordingIds : files'[r].start = files[r].start
  /\ \A r \in finalizedDirs : files'[r] = files[r]

DiskStages(r) ==
  /\ ~Persisted(r)
  /\ stagingDirs' = stagingDirs \cup {r}
  /\ finalizedDirs' = finalizedDirs
  /\ \A s \in RecordingIds : s # r => files'[s] = files[s]

DiskRenames(r) ==
  /\ r \in stagingDirs
  /\ stagingDirs' = stagingDirs \ {r}
  /\ finalizedDirs' = finalizedDirs \cup {r}
  /\ files' = files
  /\ ArtifactComplete(r)

\* What the worker writes into a directory leaves its requests.
LEMMA RequestsKept ==
  ASSUME StoreTypeOK, NEW w, NEW x,
         \/ files' = [files EXCEPT ![w].lines = x]
         \/ files' = [files EXCEPT ![w].trailer = x]
         \/ files' = [files EXCEPT ![w].closed = x]
         \/ files' = files
  PROVE  \A r \in RecordingIds : /\ files'[r].start = files[r].start
                                 /\ files'[r].stop = files[r].stop
<1> USE DEF StoreTypeOK, Directories
<1>1. CASE files' = [files EXCEPT ![w].lines = x]
  BY <1>1
<1>2. CASE files' = [files EXCEPT ![w].trailer = x]
  BY <1>2
<1>3. CASE files' = [files EXCEPT ![w].closed = x]
  BY <1>3
<1>4. QED
  BY <1>1, <1>2, <1>3

\* Every step keeps the artifacts there are, stages one, or renames one whole.
LEMMA DiskStep ==
  Inv /\ [Next]_vars =>
    DiskKept \/ \E r \in RecordingIds : DiskStages(r) \/ DiskRenames(r)
<1> SUFFICES ASSUME Inv, [Next]_vars
             PROVE  DiskKept \/ \E r \in RecordingIds : DiskStages(r) \/ DiskRenames(r)
  OBVIOUS
<1>t. WorkerInv /\ TypeOK /\ OneDirectory /\ StoreTypeOK
  BY DEF Inv, TypeOK
<1>f. finalizedDirs \subseteq RecordingIds /\ stagingDirs \subseteq RecordingIds
  BY <1>t DEF StoreTypeOK
<1>u. UNCHANGED storeVars => DiskKept
  BY DEF DiskKept, storeVars
<1>w. ASSUME UNCHANGED <<stagingDirs, finalizedDirs>>, NEW w, NEW x,
             w \notin finalizedDirs,
             \/ files' = [files EXCEPT ![w].lines = x]
             \/ files' = [files EXCEPT ![w].trailer = x]
             \/ files' = [files EXCEPT ![w].closed = x]
             \/ files' = files
      PROVE  DiskKept
  <2>1. \A r \in RecordingIds : files'[r].start = files[r].start
    BY <1>t, <1>w, RequestsKept
  <2>2. \A r \in finalizedDirs : files'[r] = files[r]
    BY <1>f, <1>t, <1>w DEF StoreTypeOK
  <2>3. QED
    BY <1>w, <2>1, <2>2 DEF DiskKept
<1>1. ASSUME NEW q \in StartRequests, NEW e, PastJoin(q), StartOutcome(q) = "NEW",
             CreateStaging(q, e)
      PROVE  DiskKept \/ DiskStages(q.recording)
  <2>1. ~Persisted(q.recording)
    BY <1>1, NewIsAbsent
  <2>2. CASE e = "prepare"
    BY <1>1, <1>u, <2>2 DEF CreateStaging
  <2>3. CASE e # "prepare"
    BY <1>1, <1>t, <2>1, <2>3, Staged DEF CreateStaging, DiskStages
  <2>4. QED
    BY <2>2, <2>3
<1>2. ASSUME NEW q \in StartRequests, StartOrReplay(q)
      PROVE  DiskKept \/ DiskStages(q.recording)
  BY <1>2, <1>1, <1>u DEF StartOrReplay, StartBlocksInJoin, StartConflicts,
     StartRestores, StartFails, StartSucceeds
<1>3. ASSUME NEW q \in StartRequests PROVE q.recording \in RecordingIds
  BY RequestFacts
<1>4. ASSUME NEW why, NEW evidence, NEW request, NEW e, state = "RECORDING",
             BeginFinalization(why, evidence, request, e)
      PROVE  DiskKept
  <2>1. paths \notin finalizedDirs
    BY <1>4, RecordingPaths
  <2>2. QED
    BY <1>4, <1>f, <2>1, FinalizationBegun DEF DiskKept
<1>5. ASSUME NEW q \in StopRequests, FinalizeOrReplay(q) PROVE DiskKept
  BY <1>5, <1>4, <1>u, BegunByStop DEF FinalizeOrReplay, StopRestores, StopBegins
<1>6. ASSUME NEW e, ShutdownBegins(e) PROVE DiskKept
  BY <1>6, <1>4, <1>u DEF ShutdownBegins
<1>7. ASSUME NEW e, WorkerExpires(e) PROVE DiskKept
  <2>1. state = "RECORDING"
    BY <1>7, <1>t DEF WorkerExpires, WorkerAt, WorkerInv, Live
  <2>2. QED
    BY <1>7, <1>4, <2>1 DEF WorkerExpires
<1>8. CASE WorkerWritesFrame \/ WorkerFinalizesVideo \/ WorkerClosesSidecar
  <2>1. writer \notin finalizedDirs
    BY <1>8, <1>t DEF WorkerWritesFrame, WorkerFinalizesVideo, WorkerClosesSidecar,
       WorkerAt, WorkerInv, Writing, Closing, OneDirectory
  <2>2. QED
    BY <1>8, <1>w, <2>1 DEF WorkerWritesFrame, WorkerFinalizesVideo,
       WorkerClosesSidecar
<1>9. CASE WorkerWritesManifest
  <2>1. PICK e \in ManifestEndings : WriteFinalizedManifest(paths, manifest, e)
    BY <1>9 DEF WorkerWritesManifest
  <2>2. \A r \in RecordingIds : files'[r].start = files[r].start
    BY <1>t, <2>1 DEF WriteFinalizedManifest, StoreTypeOK, Directories
  <2>3. QED
    BY <1>f, <1>t, <2>1, <2>2
       DEF WriteFinalizedManifest, OneDirectory, StoreTypeOK, DiskKept
<1>10. CASE WorkerActivates
  <2>1. PICK e : ActivateFinalized(paths, e)
    BY <1>10 DEF WorkerActivates
  <2>2. CASE e = "activate"
    BY <1>u, <2>1, <2>2 DEF ActivateFinalized
  <2>3. CASE e # "activate"
    <3>1. worker = "activate" /\ Owned
      BY <1>10, <1>t, <2>1, <2>3
         DEF WorkerActivates, WorkerAt, ActivateFinalized, CanActivate, WorkerInv, Owned,
             Live
    <3>2. /\ manifest \in Manifests /\ manifest # None
          /\ startLedger # None
      BY <1>t, <3>1, NoneIsNoManifest DEF WorkerInv, Writing, Closing
    <3>3. Len(<<>>) = 0 /\ admitted \in Nat /\ submitted \in Nat
      BY <1>t DEF TypeOK
    <3>4. /\ files[writer].trailer /\ files[writer].closed
          /\ files[writer].manifest = manifest
          /\ manifest.recording = writer
          /\ files[writer].start = startLedger /\ manifest.start = startLedger
          /\ manifest.digest = files[writer].lines
          /\ manifest.submitted = Len(files[writer].lines)
          /\ manifest.admitted = manifest.submitted
      BY <3>1, <3>3 DEF Inv, FramesConserved, Writing, Closing
    <3>5. ArtifactComplete(writer)
      BY <3>2, <3>4 DEF ArtifactComplete
    <3>6. writer \in RecordingIds /\ DiskRenames(writer)
      BY <1>f, <2>1, <2>3, <3>1, <3>5 DEF ActivateFinalized, DiskRenames, Owned
    <3>7. QED
      BY <3>6
  <2>4. QED
    BY <2>2, <2>3
<1>11. CASE WorkerTakes \/ WorkerCountsFrame \/ WorkerDigests \/ WorkerBuildsManifest
            \/ WorkerChecksDeadline \/ WorkerPublishes \/ WorkerFaults
  BY <1>11, <1>u DEF WorkerTakes, WorkerCountsFrame, WorkerDigests,
     WorkerBuildsManifest, WorkerChecksDeadline, WorkerPublishes, WorkerFaults,
     WorkerReturns
<1>12. ASSUME NEW f \in Frames, SubmitFrame(f) PROVE DiskKept
  BY <1>12, <1>u DEF SubmitFrame
<1>13. CASE Quiet \/ ShutdownEnds
  BY <1>13, <1>u, QuietIsQuiet DEF invVars, ShutdownEnds
<1>14. CASE Crash
  <2>1. writer \in stagingDirs => writer \notin finalizedDirs
    BY <1>t DEF OneDirectory
  <2>2. CASE files' = files
    BY <1>14, <1>u, <2>2 DEF Crash, storeVars
  <2>3. CASE files' # files
    <3>1. PICK x : files' = [files EXCEPT ![writer].lines = x]
      BY <1>14, <2>3 DEF Crash
    <3>2. QED
      BY <1>14, <1>w, <2>1, <2>3, <3>1 DEF Crash
  <2>4. QED
    BY <2>2, <2>3
<1>15. QED
  BY <1>2, <1>3, <1>5, <1>6, <1>7, <1>8, <1>9, <1>10, <1>11, <1>12, <1>13, <1>14
     DEF Next, Quiet, RunWorker

\* Only activateFinalized adds to finalized/, and what it adds is the worker's
\* own directory.
LEMMA ActivatedIsOwned ==
  ASSUME Inv, [Next]_vars, finalizedDirs' # finalizedDirs
  PROVE  worker = "activate" /\ Owned /\ finalizedDirs' = finalizedDirs \cup {writer}
<1> USE DEF storeVars
<1>1. CASE \E q \in StartRequests : StartOrReplay(q)
  BY <1>1 DEF StartOrReplay, StartBlocksInJoin, StartConflicts, StartRestores, StartFails,
              StartSucceeds, CreateStaging
<1>2. CASE \E q \in StopRequests : FinalizeOrReplay(q)
  BY <1>2 DEF FinalizeOrReplay, StopRestores, StopBegins, BeginFinalization, WriteStopRequest
<1>3. CASE \E e \in StopWriteEndings : ShutdownBegins(e) \/ WorkerExpires(e)
  BY <1>3 DEF ShutdownBegins, WorkerExpires, BeginFinalization, WriteStopRequest
<1>4. CASE WorkerActivates
  <2>1. PICK e : ActivateFinalized(paths, e)
    BY <1>4 DEF WorkerActivates
  <2>2. CanActivate(paths) /\ finalizedDirs' = finalizedDirs \cup {paths}
    BY <2>1 DEF ActivateFinalized
  <2>3. worker = "activate" /\ Live
    BY <1>4 DEF WorkerActivates, WorkerAt, Live
  <2>4. paths = writer
    BY <2>2, <2>3 DEF Inv, WorkerInv, CanActivate
  <2>5. QED
    BY <2>2, <2>3, <2>4 DEF CanActivate, Owned
<1>5. CASE WorkerTakes \/ WorkerWritesFrame \/ WorkerCountsFrame \/ WorkerFinalizesVideo
           \/ WorkerClosesSidecar \/ WorkerDigests \/ WorkerBuildsManifest
           \/ WorkerWritesManifest \/ WorkerChecksDeadline \/ WorkerPublishes \/ WorkerFaults
  BY <1>5 DEF WorkerTakes, WorkerWritesFrame, WorkerCountsFrame, WorkerFinalizesVideo,
     WorkerClosesSidecar, WorkerDigests, WorkerBuildsManifest, WorkerWritesManifest,
     WriteFinalizedManifest, WorkerChecksDeadline, WorkerPublishes, WorkerFaults, WorkerReturns
<1>6. CASE (\E f \in Frames : SubmitFrame(f)) \/ SubmitContended \/ CountContention
           \/ DurationElapses \/ FinalizeTimeElapses \/ ShutdownEnds \/ Crash \/ Boot
           \/ UNCHANGED vars
  BY <1>6 DEF SubmitFrame, SubmitContended, CountContention, DurationElapses,
     FinalizeTimeElapses, ShutdownEnds, Crash, Boot, vars
<1>7. QED
  BY <1>1, <1>2, <1>3, <1>4, <1>5, <1>6 DEF Next, RunWorker

\* No step leaves a recording below both .staging and finalized/.
LEMMA OneDirectoryStep == Inv /\ [Next]_vars => OneDirectory'
BY DiskStep DEF Inv, OneDirectory, DiskKept, DiskStages, DiskRenames, Persisted

\* No step finalizes an artifact that is not complete, or touches a finalized one.
LEMMA FinalizedCompleteStep == Inv /\ [Next]_vars => FinalizedComplete'
<1> SUFFICES ASSUME Inv, [Next]_vars PROVE FinalizedComplete'
  OBVIOUS
<1>1. FinalizedComplete /\ finalizedDirs \subseteq RecordingIds
  BY DEF Inv, TypeOK, StoreTypeOK
<1>2. ASSUME NEW r \in finalizedDirs' PROVE ArtifactComplete(r)'
  <2>1. files'[r] = files[r] /\ ArtifactComplete(r)
    BY <1>1, <1>2, DiskStep
       DEF FinalizedComplete, DiskKept, DiskStages, DiskRenames, Persisted
  <2>2. QED
    BY <2>1 DEF ArtifactComplete
<1>3. QED
  BY <1>2 DEF FinalizedComplete

\* Every step keeps what the live worker relies on between its critical sections.
LEMMA WorkerInvStep == Inv /\ TypeOK' /\ [Next]_vars => WorkerInv'
<1> SUFFICES ASSUME Inv, TypeOK', [Next]_vars PROVE WorkerInv'
  OBVIOUS
<1> USE DEF storeVars, ledgerVars, counterVars, identityVars, flagVars, clockVars,
            mediaVars, managerVars, localVars, captureVars, processVars, envVars
<1>t. WorkerInv
  BY DEF Inv
<1>d. worker' \in {"none", "done"} /\ state' # "RECORDING" => WorkerInv'
  BY DEF WorkerInv, Live, Writing, Closing
<1>1. ASSUME NEW q \in StartRequests, StartConflicts(q) PROVE WorkerInv'
  BY <1>1, <1>d DEF StartConflicts, PastJoin, Active
<1>2. ASSUME NEW q \in StartRequests, StartRestores(q) PROVE WorkerInv'
  BY <1>2, <1>d DEF StartRestores, RestorePersistedArtifact
<1>3. ASSUME NEW q \in StartRequests, NEW e, StartFails(q, e) PROVE WorkerInv'
  BY <1>3, <1>d DEF StartFails
<1>4. ASSUME NEW q \in StartRequests, NEW e \in {"ok", "thread"}, StartSucceeds(q, e)
      PROVE  WorkerInv'
  <2>1. q.recording \in RecordingIds /\ q # None
    BY RequestFacts, RequestsAssumption
  <2>2. q.recording \in stagingDirs'
    BY <1>4, Staged DEF StartSucceeds, Inv, TypeOK
  <2>3. CASE e = "ok"
    BY <1>4, <2>1, <2>2, <2>3 DEF StartSucceeds, WorkerInv, Live, Writing, Closing, Owned
  <2>4. CASE e = "thread"
    BY <1>4, <2>4, <1>d DEF StartSucceeds
  <2>5. QED
    BY <1>4, <2>3, <2>4
<1>5. ASSUME NEW q \in StopRequests, StopRestores(q) PROVE WorkerInv'
  <2>1. q.recording \in finalizedDirs
    BY <1>5, RestoredByStop DEF StopRestores
  <2>2. q.recording \in RecordingIds /\ q.recording \notin stagingDirs
    BY <2>1, RequestFacts DEF Inv, OneDirectory
  <2>3. QED
    BY <1>5, <1>t, <2>1, <2>2
       DEF StopRestores, RestorePersistedArtifact, WorkerInv, Live, Owned
<1>6. ASSUME NEW why, NEW evidence, NEW request, NEW e,
             BeginFinalization(why, evidence, request, e), state = "RECORDING",
             UNCHANGED <<mediaVars, recordingId, startLedger, localVars, worker>>
      PROVE  WorkerInv'
  BY <1>6, <1>t, FinalizationBegun DEF WorkerInv, Live, Owned
<1>7. ASSUME NEW q \in StopRequests, NEW e, StopBegins(q, e) PROVE WorkerInv'
  BY <1>7, <1>6, BegunByStop DEF StopBegins
<1>8. ASSUME NEW e, ShutdownBegins(e) PROVE WorkerInv'
  <2>1. CASE state = "RECORDING"
    BY <1>8, <2>1, <1>6 DEF ShutdownBegins
  <2>2. CASE state # "RECORDING"
    BY <1>8, <2>2, <1>t DEF ShutdownBegins, WorkerInv, Live, Owned
  <2>3. QED
    BY <2>1, <2>2
<1>9. ASSUME NEW f \in Frames, SubmitFrame(f) PROVE WorkerInv'
  BY <1>9, <1>t DEF SubmitFrame, WorkerInv, Live, Owned
<1>h. queue # <<>> => Head(queue) \in Frames
  BY DEF Inv, TypeOK
<1>10. CASE WorkerTakes
  <2>1. worker' = "frame" => held' \in Frames
    BY <1>10, <1>h DEF WorkerTakes, TakeFrameOrLeave
  <2>2. worker' \in {"frame", "video"}
    BY <1>10 DEF WorkerTakes, TakeFrameOrLeave
  <2>3. QED
    BY <1>10, <2>1, <2>2, <1>t
       DEF WorkerTakes, TakeFrameOrLeave, WorkerAt, WorkerInv, Live, Owned, Writing, Closing
<1>11. ASSUME NEW e, WorkerExpires(e) PROVE WorkerInv'
  <2>1. state = "RECORDING"
    BY <1>11, <1>t DEF WorkerExpires, WorkerAt, WorkerInv, Live
  <2>2. /\ stopRequested' /\ state' # "RECORDING"
        /\ UNCHANGED <<stagingDirs, finalizedDirs>>
    BY <1>11, <2>1, FinalizationBegun DEF WorkerExpires
  <2>3. worker' = "frame" => held' \in Frames
    BY <1>11, <1>h DEF WorkerExpires, TakeFrameOrLeave
  <2>4. worker' \in {"frame", "video", "fault"}
    BY <1>11 DEF WorkerExpires, TakeFrameOrLeave
  <2>5. QED
    BY <1>11, <1>t, <2>2, <2>3, <2>4
       DEF WorkerExpires, WorkerAt, WorkerInv, Live, Owned, Writing, Closing
<1>12. CASE WorkerWritesFrame \/ WorkerCountsFrame
  BY <1>12, <1>t DEF WorkerWritesFrame, WorkerCountsFrame, WorkerAt, WorkerInv, Live,
     Owned, Writing, Closing
<1>13. CASE WorkerFinalizesVideo \/ WorkerClosesSidecar \/ WorkerDigests
            \/ WorkerChecksDeadline
  BY <1>13, <1>t DEF WorkerFinalizesVideo, WorkerClosesSidecar, WorkerDigests,
     WorkerChecksDeadline, WorkerAt, WorkerInv, Live, Owned, Writing, Closing
<1>14. CASE WorkerBuildsManifest
  <2>1. recordingId \in RecordingIds
    BY <1>14, <1>t DEF WorkerBuildsManifest, WorkerAt, WorkerInv, Live
  <2>2. FinalizedManifest \in Manifests
    BY <2>1 DEF FinalizedManifest, Manifests, Inv, TypeOK
  <2>3. QED
    BY <1>14, <1>t, <2>2 DEF WorkerBuildsManifest, WorkerAt, WorkerInv, Live, Owned,
       Writing, Closing
<1>15. CASE WorkerWritesManifest
  BY <1>15, <1>t DEF WorkerWritesManifest, WriteFinalizedManifest, WorkerAt, WorkerInv,
     Live, Owned, Writing, Closing
<1>16. CASE WorkerActivates
  BY <1>16, <1>t DEF WorkerActivates, ActivateFinalized, CanActivate, WorkerAt,
     WorkerInv, Live, Owned, Writing, Closing
<1>17. CASE WorkerPublishes \/ WorkerFaults
  BY <1>17, <1>d DEF WorkerPublishes, WorkerFaults, WorkerReturns
<1>18. CASE ShutdownEnds \/ Crash
  BY <1>18, <1>d DEF ShutdownEnds, Crash, ForgetMemory
<1>19. CASE Quiet
  BY <1>19, <1>t, QuietIsQuiet DEF invVars, WorkerInv, Live, Owned
<1>20. QED
  BY <1>1, <1>2, <1>3, <1>4, <1>5, <1>7, <1>8, <1>9, <1>10, <1>11, <1>12, <1>13, <1>14,
     <1>15, <1>16, <1>17, <1>18, <1>19
     DEF Next, StartOrReplay, FinalizeOrReplay, RunWorker, Quiet, Fails

\* The frames of a directory that is not written by the step stay where they
\* are counted: the queue, the worker's hand and the sidecar.
LEMMA FramesConservedStep ==
  Inv /\ TypeOK' /\ WorkerInv' /\ OneDirectory' /\ [Next]_vars => FramesConserved'
<1> SUFFICES ASSUME Inv, TypeOK', WorkerInv', OneDirectory', [Next]_vars
             PROVE  FramesConserved'
  OBVIOUS
<1> USE DEF storeVars, ledgerVars, counterVars, identityVars, flagVars, clockVars,
            mediaVars, managerVars, localVars, captureVars, processVars, envVars
<1>t. FramesConserved /\ WorkerInv /\ TypeOK
  BY DEF Inv
<1>d. worker' \notin Writing => FramesConserved'
  BY DEF FramesConserved
<1>e. ~Owned' => FramesConserved'
  BY DEF FramesConserved
<1>1. ASSUME NEW q \in StartRequests, StartConflicts(q) \/ StartRestores(q)
      PROVE  FramesConserved'
  BY <1>1, <1>d DEF StartConflicts, StartRestores, Writing, Closing
<1>3. ASSUME NEW q \in StartRequests, NEW e, StartFails(q, e) PROVE FramesConserved'
  BY <1>3, <1>d DEF StartFails, Writing, Closing
<1>4. ASSUME NEW q \in StartRequests, NEW e \in {"ok", "thread"}, StartSucceeds(q, e)
      PROVE  FramesConserved'
  <2>1. files'[q.recording] = NewDirectory(q)
    BY <1>4, <1>t, Staged DEF StartSucceeds, TypeOK
  <2>2. files'[q.recording].lines = <<>> /\ files'[q.recording].start = q
    BY <2>1 DEF NewDirectory
  <2>3. Len(<<>>) = 0
    OBVIOUS
  <2>4. QED
    BY <1>4, <1>d, <2>2, <2>3 DEF StartSucceeds, FramesConserved, Writing, Closing
<1>5. ASSUME NEW q \in StopRequests, StopRestores(q) PROVE FramesConserved'
  <2>1. q.recording \in finalizedDirs
    BY <1>5, RestoredByStop DEF StopRestores
  <2>2. ~Owned'
    BY <1>5, <2>1 DEF StopRestores, RestorePersistedArtifact, Owned, OneDirectory
  <2>3. QED
    BY <1>e, <2>2
<1>6. ASSUME NEW why, NEW evidence, NEW request, NEW e,
             BeginFinalization(why, evidence, request, e), state = "RECORDING",
             UNCHANGED <<mediaVars, recordingId, startLedger, localVars, queue,
                         admitted, submitted, worker>>
      PROVE  FramesConserved'
  <2>1. worker \in {"loop", "frame", "count", "fault"} /\ writer = paths
    BY <1>6, <1>t, RecordingPaths DEF WorkerInv
  <2>2. QED
    BY <1>6, <1>t, <2>1, FinalizationBegun DEF FramesConserved, Owned, Writing, Closing
<1>7. ASSUME NEW q \in StopRequests, NEW e, StopBegins(q, e) PROVE FramesConserved'
  BY <1>7, <1>6, BegunByStop DEF StopBegins
<1>8. ASSUME NEW e, ShutdownBegins(e) PROVE FramesConserved'
  <2>1. CASE state = "RECORDING"
    BY <1>8, <2>1, <1>6 DEF ShutdownBegins
  <2>2. CASE state # "RECORDING"
    BY <1>8, <2>2, <1>t DEF ShutdownBegins, FramesConserved, Owned
  <2>3. QED
    BY <2>1, <2>2
<1>9. ASSUME NEW f \in Frames, SubmitFrame(f) PROVE FramesConserved'
  <2>1. CASE state = "RECORDING" /\ Len(queue) # QueueCapacity
    <3>1. Len(queue') = Len(queue) + 1 /\ admitted' = admitted + 1
      BY <1>9, <1>t, <2>1 DEF SubmitFrame, QueueFull, TypeOK
    <3>2. worker \notin Closing
      BY <1>t, <2>1 DEF WorkerInv, Closing
    <3>3. Len(queue) \in Nat /\ admitted \in Nat /\ submitted \in Nat
      BY <1>t DEF TypeOK
    <3>4. QED
      BY <1>9, <1>t, <3>1, <3>2, <3>3 DEF SubmitFrame, FramesConserved, Owned, Closing
  <2>2. CASE ~(state = "RECORDING" /\ Len(queue) # QueueCapacity)
    BY <1>9, <1>t, <2>2 DEF SubmitFrame, QueueFull, FramesConserved, Owned
  <2>3. QED
    BY <2>1, <2>2
\* A frame is taken off the queue or, when it is empty, the loop is left.
<1>10. ASSUME TakeFrameOrLeave, worker = "loop", stopRequested' \/ queue # <<>>,
              UNCHANGED <<mediaVars, stagingDirs, recordingId, startLedger,
                          admitted, submitted>>,
              Owned => /\ files'[writer].start = files[writer].start
                       /\ files'[writer].lines = files[writer].lines
       PROVE  FramesConserved'
  <2>1. queue # <<>> => Len(Tail(queue)) = Len(queue) - 1 /\ Len(queue) \in Nat
    BY <1>t DEF TypeOK
  <2>2. queue = <<>> => Len(queue) = 0
    OBVIOUS
  <2>3. Len(queue) \in Nat /\ admitted \in Nat /\ submitted \in Nat
    BY <1>t DEF TypeOK
  <2>4. Owned' => /\ recordingId = writer
                  /\ Owned
                  /\ files[writer].start = startLedger
                  /\ Len(files[writer].lines) = submitted
                  /\ admitted = submitted + Len(queue)
    BY <1>10, <1>t, <2>3 DEF FramesConserved, Owned, Writing
  <2>5. CASE queue = <<>>
    <3>1. worker' = "video" /\ Len(queue') = 0 /\ queue' = <<>> /\ stopRequested'
      BY <1>10, <2>2, <2>5 DEF TakeFrameOrLeave
    <3>2. QED
      BY <1>10, <2>2, <2>3, <2>4, <2>5, <3>1 DEF FramesConserved, Closing
  <2>6. CASE queue # <<>>
    <3>1. worker' = "frame" /\ Len(queue') = Len(queue) - 1
      BY <1>10, <2>1, <2>6 DEF TakeFrameOrLeave
    <3>2. QED
      BY <1>10, <2>3, <2>4, <3>1 DEF FramesConserved, Closing
  <2>7. QED
    BY <2>5, <2>6
<1>11. CASE WorkerTakes
  BY <1>11, <1>10 DEF WorkerTakes, WorkerAt
<1>12. ASSUME NEW e, WorkerExpires(e) PROVE FramesConserved'
  <2>1. state = "RECORDING"
    BY <1>12, <1>t DEF WorkerExpires, WorkerAt, WorkerInv, Live
  <2>2. CASE e = "ok"
    BY <1>12, <1>10, <2>1, <2>2, FinalizationBegun DEF WorkerExpires, WorkerAt, Owned
  <2>3. CASE e # "ok"
    BY <1>12, <1>d, <2>3 DEF WorkerExpires, Writing, Closing
  <2>4. QED
    BY <2>2, <2>3
<1>w. worker \in Writing => writer \in RecordingIds
  BY <1>t DEF WorkerInv, Writing, Closing, Live
<1>13. CASE WorkerWritesFrame
  <2>1. CASE worker' = "count"
    <3>1. writer \in RecordingIds /\ held \in Frames
      BY <1>13, <1>t, <1>w DEF WorkerWritesFrame, WorkerAt, WorkerInv, Writing
    <3>2. files[writer].lines \in Seq(Frames)
      BY <1>t, <3>1 DEF TypeOK, StoreTypeOK, Directories
    <3>3. Len(Append(files[writer].lines, held)) = Len(files[writer].lines) + 1
      BY <3>1, <3>2
    <3>4. /\ files'[writer].lines = Append(files[writer].lines, held)
          /\ files'[writer].start = files[writer].start
      BY <1>13, <1>t, <2>1, <3>1, SMTT(30)
         DEF WorkerWritesFrame, TypeOK, StoreTypeOK, Directories
    <3>5. QED
      BY <1>13, <1>t, <2>1, <3>3, <3>4
         DEF WorkerWritesFrame, WorkerAt, FramesConserved, Owned, Writing, Closing, TypeOK
  <2>2. CASE worker' = "fault"
    BY <1>d, <2>2 DEF Writing, Closing
  <2>3. QED
    BY <1>13, <2>1, <2>2 DEF WorkerWritesFrame
<1>14. CASE WorkerCountsFrame
  <2>1. submitted \in Nat /\ admitted \in Nat /\ Len(queue) \in Nat
    BY <1>t DEF TypeOK
  <2>2. QED
    BY <1>14, <1>t, <2>1
       DEF WorkerCountsFrame, WorkerAt, FramesConserved, Owned, Writing, Closing
<1>15. CASE WorkerFinalizesVideo
  <2>1. worker' = "sidecar" =>
          /\ files'[writer].trailer
          /\ files'[writer].lines = files[writer].lines
          /\ files'[writer].start = files[writer].start
    BY <1>15, <1>t, <1>w, SMTT(30)
       DEF WorkerFinalizesVideo, WorkerAt, Writing, Closing, TypeOK, StoreTypeOK,
           Directories
  <2>2. QED
    BY <1>15, <1>t, <2>1
       DEF WorkerFinalizesVideo, WorkerAt, FramesConserved, Owned, Writing, Closing
<1>16. CASE WorkerClosesSidecar
  <2>1. worker' = "digest" =>
          /\ files'[writer].closed
          /\ files'[writer].trailer = files[writer].trailer
          /\ files'[writer].lines = files[writer].lines
          /\ files'[writer].start = files[writer].start
    BY <1>16, <1>t, <1>w, SMTT(30)
       DEF WorkerClosesSidecar, WorkerAt, Writing, Closing, TypeOK, StoreTypeOK,
           Directories
  <2>2. QED
    BY <1>16, <1>t, <2>1
       DEF WorkerClosesSidecar, WorkerAt, FramesConserved, Owned, Writing, Closing
<1>17. CASE WorkerDigests
  BY <1>17, <1>t DEF WorkerDigests, WorkerAt, FramesConserved, Owned, Writing, Closing
<1>18. CASE WorkerBuildsManifest
  BY <1>18, <1>t DEF WorkerBuildsManifest, FinalizedManifest, WorkerAt, FramesConserved,
     Owned, Writing, Closing
<1>19. CASE WorkerWritesManifest
  <2>1. worker' = "check" /\ Owned =>
          /\ files'[writer].manifest = manifest
          /\ files'[writer].closed = files[writer].closed
          /\ files'[writer].trailer = files[writer].trailer
          /\ files'[writer].lines = files[writer].lines
          /\ files'[writer].start = files[writer].start
    BY <1>19, <1>t
       DEF WorkerWritesManifest, ManifestEndings, Fails, WriteFinalizedManifest, Owned,
           TypeOK, StoreTypeOK, Directories
  <2>2. QED
    BY <1>19, <1>t, <2>1
       DEF WorkerWritesManifest, WriteFinalizedManifest, WorkerAt, FramesConserved,
           Owned, Writing, Closing
<1>20. CASE WorkerChecksDeadline
  BY <1>20, <1>t DEF WorkerChecksDeadline, WorkerAt, FramesConserved, Owned, Writing,
     Closing
<1>21. CASE WorkerActivates \/ WorkerPublishes \/ WorkerFaults
  BY <1>21, <1>d DEF WorkerActivates, WorkerPublishes, WorkerFaults, WorkerReturns,
     Writing, Closing
<1>22. CASE ShutdownEnds \/ Crash
  BY <1>22, <1>d DEF ShutdownEnds, Crash, ForgetMemory, Writing, Closing
<1>23. CASE Quiet
  BY <1>23, <1>t, QuietIsQuiet DEF invVars, FramesConserved, Owned
<1>24. QED
  BY <1>1, <1>3, <1>4, <1>5, <1>7, <1>8, <1>9, <1>11, <1>12, <1>13, <1>14, <1>15, <1>16,
     <1>17, <1>18, <1>19, <1>20, <1>21, <1>22, <1>23
     DEF Next, StartOrReplay, FinalizeOrReplay, RunWorker, Quiet, Fails

\* No step leaves an active state without a worker.
LEMMA ActiveHasWorkerStep ==
  Inv /\ TypeOK' /\ WorkerInv' /\ [Next]_vars => ActiveHasWorker'
<1> SUFFICES ASSUME Inv, TypeOK', WorkerInv', [Next]_vars PROVE ActiveHasWorker'
  OBVIOUS
<1> USE DEF storeVars, ledgerVars, counterVars, identityVars, flagVars, clockVars,
            mediaVars, managerVars, localVars, captureVars, processVars, envVars
<1>t. ActiveHasWorker /\ WorkerInv
  BY DEF Inv
<1>d. ~Active' => ActiveHasWorker'
  BY DEF ActiveHasWorker
<1>u. ASSUME UNCHANGED <<stagingDirs, finalizedDirs, flagVars, mediaVars, recordingId,
                         startLedger>>,
             Live => Live'
      PROVE  ActiveHasWorker'
  BY <1>t, <1>u DEF ActiveHasWorker, Active, Persisted
<1>1. ASSUME NEW q \in StartRequests, StartConflicts(q) PROVE ActiveHasWorker'
  BY <1>1, <1>d DEF StartConflicts, PastJoin, Active
<1>2. ASSUME NEW q \in StartRequests, NEW e, StartRestores(q) \/ StartFails(q, e)
      PROVE  ActiveHasWorker'
  BY <1>2, <1>d DEF StartRestores, RestorePersistedArtifact, StartFails, Active
<1>3. ASSUME NEW q \in StartRequests, NEW e \in {"ok", "thread"}, StartSucceeds(q, e)
      PROVE  ActiveHasWorker'
  <2>1. q.recording \in stagingDirs' /\ q # None
    BY <1>3, Staged, RequestsAssumption DEF StartSucceeds, Inv, TypeOK
  <2>2. QED
    BY <1>3, <2>1 DEF StartSucceeds, ActiveHasWorker, Active, Persisted, Live
<1>4. ASSUME NEW q \in StopRequests, StopRestores(q) PROVE ActiveHasWorker'
  BY <1>4, <1>d DEF StopRestores, RestorePersistedArtifact, Active
<1>5. ASSUME NEW why, NEW evidence, NEW request, NEW e,
             BeginFinalization(why, evidence, request, e), state = "RECORDING",
             UNCHANGED <<mediaVars, recordingId, startLedger>>, Live'
      PROVE  ActiveHasWorker'
  BY <1>5, RecordingPaths, FinalizationBegun DEF ActiveHasWorker, Persisted
<1>6. ASSUME NEW q \in StopRequests, NEW e, StopBegins(q, e) PROVE ActiveHasWorker'
  <2>1. state = "RECORDING"
    BY <1>6, BegunByStop DEF StopBegins
  <2>2. Live'
    BY <1>6, <2>1, RecordingPaths DEF StopBegins, Live
  <2>3. QED
    BY <1>6, <1>5, <2>1, <2>2 DEF StopBegins
<1>7. ASSUME NEW e, ShutdownBegins(e) PROVE ActiveHasWorker'
  <2>1. CASE state = "RECORDING"
    <3>1. Live'
      BY <1>7, <2>1, RecordingPaths DEF ShutdownBegins, Live
    <3>2. QED
      BY <1>7, <1>5, <2>1, <3>1 DEF ShutdownBegins
  <2>2. CASE state # "RECORDING"
    BY <1>7, <2>2, <1>u DEF ShutdownBegins, Live
  <2>3. QED
    BY <2>1, <2>2
<1>8. ASSUME NEW e, WorkerExpires(e) PROVE ActiveHasWorker'
  <2>1. state = "RECORDING"
    BY <1>8, <1>t DEF WorkerExpires, WorkerAt, WorkerInv, Live
  <2>2. Live'
    BY <1>8 DEF WorkerExpires, TakeFrameOrLeave, Live
  <2>3. QED
    BY <1>8, <1>5, <2>1, <2>2 DEF WorkerExpires
<1>9. ASSUME NEW f \in Frames, SubmitFrame(f) PROVE ActiveHasWorker'
  BY <1>9, <1>u DEF SubmitFrame, Live
<1>10. CASE WorkerTakes \/ WorkerWritesFrame \/ WorkerCountsFrame
            \/ WorkerFinalizesVideo \/ WorkerClosesSidecar \/ WorkerDigests
            \/ WorkerBuildsManifest \/ WorkerWritesManifest \/ WorkerChecksDeadline
  BY <1>10, <1>u DEF WorkerTakes, TakeFrameOrLeave, WorkerWritesFrame,
     WorkerCountsFrame, WorkerFinalizesVideo, WorkerClosesSidecar, WorkerDigests,
     WorkerBuildsManifest, WorkerWritesManifest, WriteFinalizedManifest,
     WorkerChecksDeadline, Live
<1>11. CASE WorkerActivates
  BY <1>11, <1>t DEF WorkerActivates, ActivateFinalized, ActiveHasWorker, Active, Live,
     Persisted
<1>12. CASE WorkerPublishes \/ WorkerFaults \/ ShutdownEnds \/ Crash
  BY <1>12, <1>d DEF WorkerPublishes, WorkerFaults, ShutdownEnds, Crash, ForgetMemory,
     Active
<1>13. CASE Quiet
  BY <1>13, <1>u, QuietIsQuiet DEF invVars, Live
<1>14. QED
  BY <1>1, <1>2, <1>3, <1>4, <1>6, <1>7, <1>8, <1>9, <1>10, <1>11, <1>12, <1>13
     DEF Next, StartOrReplay, FinalizeOrReplay, RunWorker, Quiet, Fails

\* No step separates the ledger in memory from the requests on disk.
LEMMA LedgerMatchesDiskStep ==
  Inv /\ TypeOK' /\ [Next]_vars => LedgerMatchesDisk'
<1> SUFFICES ASSUME Inv, TypeOK', [Next]_vars PROVE LedgerMatchesDisk'
  OBVIOUS
<1> USE DEF storeVars, ledgerVars, counterVars, identityVars, flagVars, clockVars,
            mediaVars, managerVars, localVars, captureVars, processVars, envVars
<1>t. LedgerMatchesDisk /\ WorkerInv /\ TypeOK
  BY DEF Inv
<1>i. recordingId \in RecordingIds \cup {None} /\ None \notin RecordingIds
  BY <1>t, IdsAssumption DEF TypeOK
<1>p. \A r : Persisted(r) => r \in RecordingIds
  BY <1>t DEF Persisted, TypeOK, StoreTypeOK
\* Neither directory disappears and no request in one changes.
<1>u. ASSUME UNCHANGED <<recordingId, startLedger, stopLedger>>,
             stagingDirs \cup finalizedDirs \subseteq stagingDirs' \cup finalizedDirs',
             \A r \in RecordingIds :
               Persisted(r) => /\ files'[r].start = files[r].start
                               /\ files'[r].stop = files[r].stop
      PROVE  LedgerMatchesDisk'
  BY <1>t, <1>p, <1>u DEF LedgerMatchesDisk, Persisted
<1>1. ASSUME NEW q \in StartRequests, StartConflicts(q) PROVE LedgerMatchesDisk'
  BY <1>1, <1>u DEF StartConflicts
<1>2. ASSUME NEW q \in StartRequests, StartRestores(q) PROVE LedgerMatchesDisk'
  <2>1. Persisted(q.recording) /\ files[q.recording].start = q
    BY <1>2, RestoredByStart DEF StartRestores
  <2>2. QED
    BY <1>2, <2>1 DEF StartRestores, RestorePersistedArtifact, LedgerMatchesDisk,
       Persisted
<1>3. ASSUME NEW q \in StartRequests, NEW e, StartFails(q, e) PROVE LedgerMatchesDisk'
  <2>1. ~Persisted(q.recording)
    BY <1>3, NewIsAbsent DEF StartFails
  <2>2. \A r \in RecordingIds : Persisted(r) => files'[r] = files[r]
    BY <1>3, <1>t, <2>1, Staged DEF StartFails, TypeOK
  <2>3. stagingDirs \cup finalizedDirs \subseteq stagingDirs' \cup finalizedDirs'
    BY <1>3, <1>t, Staged DEF StartFails, TypeOK
  <2>4. QED
    BY <1>3, <1>u, <2>2, <2>3 DEF StartFails
<1>4. ASSUME NEW q \in StartRequests, NEW e \in {"ok", "thread"}, StartSucceeds(q, e)
      PROVE  LedgerMatchesDisk'
  <2>1. q.recording \in stagingDirs' /\ files'[q.recording] = NewDirectory(q)
    BY <1>4, <1>t, Staged DEF StartSucceeds, TypeOK
  <2>2. QED
    BY <1>4, <2>1 DEF StartSucceeds, LedgerMatchesDisk, Persisted, NewDirectory
<1>5. ASSUME NEW q \in StopRequests, StopRestores(q) PROVE LedgerMatchesDisk'
  <2>1. q.recording \in finalizedDirs /\ files[q.recording].stop = q
    BY <1>5, RestoredByStop DEF StopRestores
  <2>2. QED
    BY <1>5, <2>1 DEF StopRestores, RestorePersistedArtifact, LedgerMatchesDisk,
       Persisted
<1>6. ASSUME NEW why, NEW evidence, NEW request \in {evidence, None}, NEW e,
             BeginFinalization(why, evidence, request, e), state = "RECORDING",
             UNCHANGED <<recordingId, startLedger>>
      PROVE  LedgerMatchesDisk'
  <2>1. Persisted(recordingId)' /\ files'[recordingId].start = files[recordingId].start
    BY <1>6, RecordingPaths, FinalizationBegun DEF Persisted
  <2>2. stopLedger' # None => files'[recordingId].stop = stopLedger'
    BY <1>6, RecordingPaths, FinalizationBegun
  <2>3. QED
    BY <1>6, <1>t, <2>1, <2>2 DEF LedgerMatchesDisk
<1>7. ASSUME NEW q \in StopRequests, NEW e, StopBegins(q, e) PROVE LedgerMatchesDisk'
  BY <1>7, <1>6, BegunByStop DEF StopBegins
<1>8. ASSUME NEW e, ShutdownBegins(e) PROVE LedgerMatchesDisk'
  <2>1. CASE state = "RECORDING"
    BY <1>8, <2>1, <1>6 DEF ShutdownBegins
  <2>2. CASE state # "RECORDING"
    BY <1>8, <2>2, <1>u DEF ShutdownBegins
  <2>3. QED
    BY <2>1, <2>2
<1>9. ASSUME NEW e, WorkerExpires(e) PROVE LedgerMatchesDisk'
  <2>1. state = "RECORDING"
    BY <1>9, <1>t DEF WorkerExpires, WorkerAt, WorkerInv, Live
  <2>2. QED
    BY <1>9, <1>6, <2>1 DEF WorkerExpires
<1>10. ASSUME NEW f \in Frames, SubmitFrame(f) PROVE LedgerMatchesDisk'
  BY <1>10, <1>u DEF SubmitFrame
<1>11. CASE WorkerTakes \/ WorkerCountsFrame \/ WorkerDigests \/ WorkerBuildsManifest
            \/ WorkerChecksDeadline \/ WorkerPublishes \/ WorkerFaults
  BY <1>11, <1>u DEF WorkerTakes, WorkerCountsFrame, WorkerDigests,
     WorkerBuildsManifest, WorkerChecksDeadline, WorkerPublishes, WorkerFaults,
     WorkerReturns
<1>s. StoreTypeOK
  BY <1>t DEF TypeOK
<1>12. CASE WorkerWritesFrame
  <2>1. \A r \in RecordingIds : /\ files'[r].start = files[r].start
                                /\ files'[r].stop = files[r].stop
    BY <1>12, <1>s, RequestsKept DEF WorkerWritesFrame
  <2>2. QED
    BY <1>12, <1>u, <2>1 DEF WorkerWritesFrame
<1>13. CASE WorkerFinalizesVideo \/ WorkerClosesSidecar
  <2>1. \A r \in RecordingIds : /\ files'[r].start = files[r].start
                                /\ files'[r].stop = files[r].stop
    BY <1>13, <1>s, RequestsKept DEF WorkerFinalizesVideo, WorkerClosesSidecar
  <2>2. QED
    BY <1>13, <1>u, <2>1 DEF WorkerFinalizesVideo, WorkerClosesSidecar
<1>14. CASE WorkerWritesManifest
  BY <1>14, <1>t, <1>u DEF WorkerWritesManifest, WriteFinalizedManifest, TypeOK,
     StoreTypeOK, Directories
<1>15. CASE WorkerActivates
  <2>1. PICK e : ActivateFinalized(paths, e)
    BY <1>15 DEF WorkerActivates
  <2>2. /\ files' = files
        /\ stagingDirs \cup finalizedDirs \subseteq stagingDirs' \cup finalizedDirs'
    BY <2>1 DEF ActivateFinalized
  <2>3. QED
    BY <1>15, <1>u, <2>2 DEF WorkerActivates
<1>16. CASE ShutdownEnds \/ Crash
  <2>1. startLedger' = None /\ stopLedger' = None
    BY <1>16 DEF ShutdownEnds, Crash, ForgetMemory
  <2>2. QED
    BY <2>1 DEF LedgerMatchesDisk
<1>17. CASE Quiet
  BY <1>17, <1>u, QuietIsQuiet DEF invVars
<1>18. QED
  BY <1>1, <1>2, <1>3, <1>4, <1>5, <1>7, <1>8, <1>9, <1>10, <1>11, <1>12, <1>13, <1>14,
     <1>15, <1>16, <1>17
     DEF Next, StartOrReplay, FinalizeOrReplay, RunWorker, Quiet, Fails

-----------------------------------------------------------------------------
\* The invariant holds of a process that has just been started.
LEMMA InvInit == Init => Inv
<1> SUFFICES ASSUME Init PROVE Inv
  OBVIOUS
<1>1. TypeOK
  BY TypeInit
<1>2. stagingDirs = {} /\ finalizedDirs = {}
  BY DEF Init, StoreInit
<1>3. OneDirectory /\ FinalizedComplete
  BY <1>2 DEF OneDirectory, FinalizedComplete
<1>4. WorkerInv /\ FramesConserved
  BY DEF Init, WorkerInv, FramesConserved, Live, Writing, Closing
<1>5. ActiveHasWorker /\ LedgerMatchesDisk
  BY DEF Init, ActiveHasWorker, Active, LedgerMatchesDisk
<1>6. QED
  BY <1>1, <1>3, <1>4, <1>5 DEF Inv

\* The invariant is inductive.
LEMMA InvStep == Inv /\ [Next]_vars => Inv'
<1> SUFFICES ASSUME Inv, [Next]_vars PROVE Inv'
  OBVIOUS
<1>1. TypeOK'
  BY TypeStep DEF Inv
<1>2. OneDirectory'
  BY OneDirectoryStep
<1>3. WorkerInv'
  BY <1>1, WorkerInvStep
<1>4. FramesConserved'
  BY <1>1, <1>2, <1>3, FramesConservedStep
<1>5. ActiveHasWorker' /\ LedgerMatchesDisk' /\ FinalizedComplete'
  BY <1>1, <1>3, ActiveHasWorkerStep, LedgerMatchesDiskStep, FinalizedCompleteStep
<1>6. QED
  BY <1>1, <1>2, <1>3, <1>4, <1>5 DEF Inv

\* The conjuncts of Inv hold in every reachable state.
THEOREM Invariance == Spec => []Inv
<1>1. QED
  BY InvInit, InvStep, PTL DEF Spec

\* Every variable of the manager and of the disk keeps its type, and m_queue
\* never exceeds its ring.
THEOREM TypeCorrect == Spec => []TypeOK
<1>1. Inv => TypeOK
  BY DEF Inv
<1>2. QED
  BY <1>1, Invariance, PTL

\* No recording is ever both below .staging and below finalized/, whatever
\* fails and whenever the process dies.
THEOREM OneDirectoryHolds == Spec => []OneDirectory
<1>1. Inv => OneDirectory
  BY DEF Inv
<1>2. QED
  BY <1>1, Invariance, PTL

\* No frame is lost or duplicated between trySubmitFrame and frames.jsonl, and
\* finalizeArtifacts works on the directory that runWorker wrote.
THEOREM FramesConservedHolds == Spec => []FramesConserved
<1>1. Inv => FramesConserved
  BY DEF Inv
<1>2. QED
  BY <1>1, Invariance, PTL

\* Whatever lies below finalized/ is a complete artifact: closed, owned by the
\* request that started it, with a line for every admitted frame and the digest
\* of exactly these lines, also when stop, duration deadline, shutdown, failed
\* writes, restores under a live worker and crashes interleave.
THEOREM FinalizedCompleteHolds == Spec => []FinalizedComplete
<1>1. Inv => FinalizedComplete
  BY DEF Inv
<1>2. QED
  BY <1>1, Invariance, PTL

\* The request ledger that replays are answered from agrees with the one on
\* disk.
THEOREM LedgerMatchesDiskHolds == Spec => []LedgerMatchesDisk
<1>1. Inv => LedgerMatchesDisk
  BY DEF Inv
<1>2. QED
  BY <1>1, Invariance, PTL

\* A state that refuses every other start has a live worker.
THEOREM ActiveHasWorkerHolds == Spec => []ActiveHasWorker
<1>1. Inv => ActiveHasWorker
  BY DEF Inv
<1>2. QED
  BY <1>1, Invariance, PTL

-----------------------------------------------------------------------------
(***************************************************************************)
(* Refinement: staging a directory is Stage, the rename is Publish, and all *)
(* the rest stutters.                                                       *)
(***************************************************************************)
\* The initial states implement the initial states of ArtifactLifecycle.
LEMMA LifecycleInitHolds == Init => Lifecycle!LifecycleInit
<1> SUFFICES ASSUME Init PROVE Lifecycle!LifecycleInit
  OBVIOUS
<1>1. \A r \in RecordingIds :
        StageOf(r) = "absent" /\ files[r].start = None /\ PublishedArtifact(r) = None
  BY DEF Init, StoreInit, NewDirectory, StageOf, PublishedArtifact
<1>2. QED
  BY <1>1 DEF Lifecycle!LifecycleInit

\* Every step implements a step of ArtifactLifecycle, or a stutter.
LEMMA LifecycleStep ==
  Inv /\ [Next]_vars => [Lifecycle!LifecycleNext]_(Lifecycle!artifactVars)
<1> SUFFICES ASSUME Inv, [Next]_vars
             PROVE  Lifecycle!LifecycleNext \/ UNCHANGED Lifecycle!artifactVars
  OBVIOUS
<1>t. /\ stagingDirs \subseteq RecordingIds /\ finalizedDirs \subseteq RecordingIds
      /\ OneDirectory
  BY DEF Inv, TypeOK, StoreTypeOK
<1>1. CASE DiskKept
  <2>1. \A r \in RecordingIds : StageOf(r)' = StageOf(r)
    BY <1>1 DEF DiskKept, StageOf
  <2>2. \A r \in RecordingIds : PublishedArtifact(r)' = PublishedArtifact(r)
    BY <1>1 DEF DiskKept, PublishedArtifact
  <2>3. QED
    BY <1>1, <2>1, <2>2 DEF DiskKept, Lifecycle!artifactVars
<1>2. ASSUME NEW r \in RecordingIds, DiskStages(r) PROVE Lifecycle!Stage(r)
  <2>1. StageOf(r) = "absent" /\ StageOf(r)' = "staging"
    BY <1>2 DEF DiskStages, StageOf, Persisted
  <2>2. \A s \in RecordingIds : s # r => StageOf(s)' = StageOf(s)
    BY <1>2 DEF DiskStages, StageOf
  <2>3. \A s \in RecordingIds : PublishedArtifact(s)' = PublishedArtifact(s)
    BY <1>2 DEF DiskStages, PublishedArtifact, Persisted
  <2>4. \A s \in RecordingIds \ {r} : files'[s].start = files[s].start
    BY <1>2 DEF DiskStages
  <2>5. QED
    BY <2>1, <2>2, <2>3, <2>4 DEF Lifecycle!Stage
<1>3. ASSUME NEW r \in RecordingIds, DiskRenames(r) PROVE Lifecycle!Publish(r)
  <2>1. StageOf(r) = "staging" /\ StageOf(r)' = "finalized"
    BY <1>3, <1>t DEF DiskRenames, StageOf, OneDirectory
  <2>2. \A s \in RecordingIds : s # r => StageOf(s)' = StageOf(s)
    BY <1>3 DEF DiskRenames, StageOf
  <2>3. \A s \in RecordingIds : s # r => PublishedArtifact(s)' = PublishedArtifact(s)
    BY <1>3 DEF DiskRenames, PublishedArtifact
  <2>4. /\ PublishedArtifact(r)'.admitted = Len(PublishedArtifact(r)'.frames)
        /\ PublishedArtifact(r)'.owner # None
        /\ PublishedArtifact(r)'.owner = files[r].start
    BY <1>3 DEF DiskRenames, PublishedArtifact, ArtifactComplete
  <2>5. \A s \in RecordingIds : files'[s].start = files[s].start
    BY <1>3 DEF DiskRenames
  <2>6. QED
    BY <2>1, <2>2, <2>3, <2>4, <2>5 DEF Lifecycle!Publish, Lifecycle!Whole
<1>4. QED
  BY <1>1, <1>2, <1>3, DiskStep DEF Lifecycle!LifecycleNext

\* The manager implements the abstract life of an artifact: it is staged once,
\* published whole by one rename, and never changed after that.
THEOREM RefinesLifecycle == Spec => ImplementsLifecycle
<1>1. QED
  BY LifecycleInitHolds, LifecycleStep, Invariance, PTL
     DEF Spec, ImplementsLifecycle, Lifecycle!LifecycleSpec
=============================================================================
