------------------------ MODULE RecordingHistoryProofs ------------------------
(***************************************************************************)
(* Proofs about RecordingManager that need more than RecordingProofs'       *)
(* invariant: the order of the frames in an artifact, for every set of      *)
(* faults; and the answers to a stop and to its replay, as long as certain  *)
(* writes do not fail, for every set of the other faults.                   *)
(***************************************************************************)
EXTENDS RecordingProofs, SequenceTheorems

-----------------------------------------------------------------------------
(***************************************************************************)
(* The order of the frames, whatever fails.                                *)
(***************************************************************************)
\* The lines of a sidecar as RecordingSidecarWriter and the worker admit them.
Increasing(s) == \A i, j \in 1 .. Len(s) : i < j => IsStrictlyAfter(s[j], s[i])
OneGeneration(s) == \A i, j \in 1 .. Len(s) : s[i].generation = s[j].generation

\* f and l are the first and the last line of s.
EndsAre(s, f, l) ==
  IF s = <<>> THEN f = None /\ l = None ELSE f = s[1] /\ l = s[Len(s)]

\* The worker's own directory: m_first_identity and m_last_identity are the ends
\* of the sidecar, but for the line that is written and not yet counted; the
\* manifest has them once it is built.
OrderInv ==
  (worker \in Writing /\ Owned) =>
    LET s == files[writer].lines
    IN  /\ Increasing(s) /\ OneGeneration(s)
        /\ worker # "count" => EndsAre(s, first, last)
        /\ worker = "count" =>
             /\ s # <<>> /\ held = s[Len(s)]
             /\ IF Len(s) = 1 THEN last = None ELSE last # None /\ first = s[1]
        /\ worker \in {"manifest", "check", "activate"} =>
             manifest.first = first /\ manifest.last = last

-----------------------------------------------------------------------------
(***************************************************************************)
(* The order of frames.                                                    *)
(***************************************************************************)
\* A frame's generation and number are numbers, and no frame is None.
LEMMA FrameFacts ==
  ASSUME NEW f \in Frames
  PROVE  f.generation \in Nat /\ f.number \in Nat /\ f # None
<1>1. f.generation \in Generations /\ f.number \in Numbers
  BY DEF Frames
<1>2. QED
  BY <1>1, FramesAssumption, NoneIsNoFrame

\* isStrictlyAfter is transitive.
LEMMA AfterTransitive ==
  ASSUME NEW f \in Frames, NEW g \in Frames, NEW h \in Frames,
         IsStrictlyAfter(h, g), IsStrictlyAfter(g, f)
  PROVE  IsStrictlyAfter(h, f)
<1>1. /\ f.generation \in Nat /\ f.number \in Nat
      /\ g.generation \in Nat /\ g.number \in Nat
      /\ h.generation \in Nat /\ h.number \in Nat
  BY FrameFacts
<1>2. QED
  BY <1>1 DEF IsStrictlyAfter

\* A line that follows the last one keeps the order of the whole sidecar.
LEMMA AppendOrdered ==
  ASSUME NEW s \in Seq(Frames), NEW f \in Frames, Increasing(s), OneGeneration(s),
         s # <<>> => IsStrictlyAfter(f, s[Len(s)]) /\ f.generation = s[Len(s)].generation
  PROVE  Increasing(Append(s, f)) /\ OneGeneration(Append(s, f))
<1> DEFINE t == Append(s, f)
<1>1. /\ Len(s) \in Nat /\ Len(t) = Len(s) + 1 /\ t[Len(s) + 1] = f
      /\ \A i \in 1 .. Len(s) : t[i] = s[i] /\ s[i] \in Frames
  BY AppendProperties, ElementOfSeq, LenProperties
<1>2. s = <<>> \/ Len(s) \in 1 .. Len(s)
  BY <1>1, EmptySeq
<1> HIDE DEF t
<1>3. ASSUME NEW i \in 1 .. Len(s)
      PROVE  IsStrictlyAfter(f, s[i]) /\ f.generation = s[i].generation
  <2>1. Len(s) \in 1 .. Len(s) /\ s # <<>>
    BY <1>1, <1>2, <1>3, EmptySeq
  <2>2. IsStrictlyAfter(f, s[Len(s)]) /\ f.generation = s[Len(s)].generation
    BY <2>1
  <2>3. s[Len(s)].generation = s[i].generation
    BY <2>1 DEF OneGeneration
  <2>4. CASE i = Len(s)
    BY <2>2, <2>4
  <2>5. CASE i < Len(s)
    <3>1. IsStrictlyAfter(s[Len(s)], s[i])
      BY <2>1, <2>5 DEF Increasing
    <3>2. IsStrictlyAfter(f, s[i])
      BY <1>1, <2>1, <2>2, <3>1, AfterTransitive
    <3>3. QED
      BY <2>2, <2>3, <3>2
  <2>6. QED
    BY <1>1, <2>4, <2>5
<1>4. Increasing(t)
  <2>1. SUFFICES ASSUME NEW i \in 1 .. Len(t), NEW j \in 1 .. Len(t), i < j
                 PROVE  IsStrictlyAfter(t[j], t[i])
    BY DEF Increasing
  <2>2. i \in 1 .. Len(s)
    BY <1>1, <2>1
  <2>3. CASE j = Len(s) + 1
    BY <1>1, <1>3, <2>2, <2>3
  <2>4. CASE j \in 1 .. Len(s)
    BY <1>1, <2>1, <2>2, <2>4 DEF Increasing
  <2>5. QED
    BY <1>1, <2>1, <2>3, <2>4
<1>5. OneGeneration(t)
  <2>1. SUFFICES ASSUME NEW i \in 1 .. Len(t)
                 PROVE  t[i].generation = f.generation
    <3>1. \A i, j \in 1 .. Len(t) : t[i].generation = t[j].generation
      BY <2>1
    <3>2. QED
      BY <3>1 DEF OneGeneration
  <2>2. CASE i = Len(s) + 1
    BY <1>1, <2>2
  <2>3. CASE i \in 1 .. Len(s)
    BY <1>1, <1>3, <2>3
  <2>4. QED
    BY <1>1, <2>2, <2>3
<1>6. QED
  BY <1>4, <1>5 DEF t

-----------------------------------------------------------------------------
(***************************************************************************)
(* The steps.                                                              *)
(***************************************************************************)
\* What OrderInv speaks of.
orderVars == <<storeVars, mediaVars, identityVars, localVars, worker>>

\* Every step keeps the order of the lines in the worker's directory.
LEMMA OrderStep == Inv /\ OrderInv /\ Inv' /\ [Next]_vars => OrderInv'
<1> SUFFICES ASSUME Inv, OrderInv, Inv', [Next]_vars PROVE OrderInv'
  OBVIOUS
<1> USE DEF storeVars, ledgerVars, counterVars, identityVars, flagVars, clockVars,
            mediaVars, managerVars, localVars, captureVars, processVars, envVars
<1>t. WorkerInv /\ TypeOK /\ WorkerInv' /\ OneDirectory'
  BY DEF Inv
<1>d. worker' \notin Writing => OrderInv'
  BY DEF OrderInv
<1>e. ~Owned' => OrderInv'
  BY DEF OrderInv
<1>w. worker \in Writing => writer \in RecordingIds /\ files[writer].lines \in Seq(Frames)
  BY <1>t DEF WorkerInv, Writing, Closing, Live, TypeOK, StoreTypeOK, Directories
\* A step that keeps the lines and the identities, and goes on.
<1>k. ASSUME worker \in Writing, worker' \in Writing, worker # "count", worker' # "count",
             worker' \in {"manifest", "check", "activate"} =>
               manifest'.first = first' /\ manifest'.last = last',
             Owned' => Owned, writer' = writer,
             files'[writer].lines = files[writer].lines, UNCHANGED identityVars
      PROVE  OrderInv'
  BY <1>k DEF OrderInv
<1>1. ASSUME NEW q \in StartRequests, StartConflicts(q) \/ StartRestores(q)
      PROVE  OrderInv'
  BY <1>1, <1>d DEF StartConflicts, StartRestores, Writing, Closing
<1>2. ASSUME NEW q \in StartRequests, NEW e, StartFails(q, e) PROVE OrderInv'
  BY <1>2, <1>d DEF StartFails, Writing, Closing
<1>3. ASSUME NEW q \in StartRequests, NEW e \in {"ok", "thread"}, StartSucceeds(q, e)
      PROVE  OrderInv'
  <2>1. files'[q.recording] = NewDirectory(q)
    BY <1>3, <1>t, Staged DEF StartSucceeds, TypeOK
  <2>2. files'[writer'].lines = <<>> /\ first' = None /\ last' = None /\ worker' \in {"loop", "none"}
    BY <1>3, <2>1 DEF StartSucceeds, NewDirectory
  <2>3. Len(<<>>) = 0
    OBVIOUS
  <2>4. QED
    BY <2>2, <2>3 DEF OrderInv, Increasing, OneGeneration, EndsAre
<1>4. ASSUME NEW q \in StopRequests, StopRestores(q) PROVE OrderInv'
  <2>1. q.recording \in finalizedDirs
    BY <1>4, RestoredByStop DEF StopRestores
  <2>2. ~Owned'
    BY <1>4, <1>t, <2>1 DEF StopRestores, RestorePersistedArtifact, Owned, OneDirectory
  <2>3. QED
    BY <1>e, <2>2
<1>5. ASSUME NEW why, NEW evidence, NEW request, NEW e,
             BeginFinalization(why, evidence, request, e), state = "RECORDING",
             UNCHANGED <<mediaVars, identityVars, localVars, worker>>
      PROVE  OrderInv'
  <2>1. writer = paths /\ files'[paths].lines = files[paths].lines
        /\ UNCHANGED <<stagingDirs, finalizedDirs>>
    BY <1>5, RecordingPaths, FinalizationBegun
  <2>2. QED
    BY <1>5, <2>1 DEF OrderInv, Owned
<1>6. ASSUME NEW q \in StopRequests, NEW e, StopBegins(q, e) PROVE OrderInv'
  BY <1>6, <1>5, BegunByStop DEF StopBegins
<1>7. ASSUME NEW e, ShutdownBegins(e) PROVE OrderInv'
  <2>1. CASE state = "RECORDING"
    BY <1>7, <2>1, <1>5 DEF ShutdownBegins
  <2>2. CASE state # "RECORDING"
    BY <1>7, <2>2 DEF ShutdownBegins, OrderInv, Owned
  <2>3. QED
    BY <2>1, <2>2
<1>8. CASE UNCHANGED orderVars
  BY <1>8 DEF orderVars, OrderInv, Owned
<1>9. CASE WorkerTakes
  <2>1. worker = "loop" /\ worker' \in {"video", "frame"}
    BY <1>9 DEF WorkerTakes, WorkerAt, TakeFrameOrLeave
  <2>2. UNCHANGED <<storeVars, mediaVars, identityVars>>
    BY <1>9 DEF WorkerTakes
  <2>3. QED
    BY <1>k, <2>1, <2>2 DEF Writing, Closing, Owned
<1>10. ASSUME NEW e, WorkerExpires(e) PROVE OrderInv'
  <2>1. state = "RECORDING"
    BY <1>10, <1>t DEF WorkerExpires, WorkerAt, WorkerInv, Live
  <2>2. CASE e = "ok"
    <3>1. writer = paths /\ files'[paths].lines = files[paths].lines
          /\ UNCHANGED <<stagingDirs, finalizedDirs>>
      BY <1>10, <2>1, RecordingPaths, FinalizationBegun DEF WorkerExpires
    <3>2. worker = "loop" /\ worker' \in {"video", "frame"}
      BY <1>10, <2>2 DEF WorkerExpires, WorkerAt, TakeFrameOrLeave
    <3>3. UNCHANGED <<mediaVars, identityVars>>
      BY <1>10 DEF WorkerExpires
    <3>4. QED
      BY <1>k, <3>1, <3>2, <3>3 DEF Writing, Closing, Owned
  <2>3. CASE e # "ok"
    BY <1>10, <1>d, <2>3 DEF WorkerExpires, Writing, Closing
  <2>4. QED
    BY <2>2, <2>3
<1>11. CASE WorkerWritesFrame
  <2>1. CASE worker' = "count" /\ Owned'
    <3> DEFINE s == files[writer].lines
    <3>1. worker = "frame" /\ worker \in Writing /\ held \in Frames
      BY <1>11, <1>t DEF WorkerWritesFrame, WorkerAt, WorkerInv, Writing
    <3>2. s \in Seq(Frames) /\ writer \in RecordingIds
      BY <1>w, <3>1
    <3>3. /\ FrameAccepted(held) /\ SidecarAccepts(held, s)
          /\ files' = [files EXCEPT ![writer].lines = Append(@, held)]
          /\ UNCHANGED <<stagingDirs, finalizedDirs, mediaVars, identityVars, localVars>>
      BY <1>11, <2>1 DEF WorkerWritesFrame
    <3>4. files'[writer'].lines = Append(s, held)
      BY <1>t, <3>2, <3>3 DEF TypeOK, StoreTypeOK, Directories
    <3>5. Owned
      BY <2>1, <3>3 DEF Owned
    <3>6. Increasing(s) /\ OneGeneration(s) /\ EndsAre(s, first, last)
      BY <3>1, <3>5 DEF OrderInv
    <3> HIDE DEF s
    <3>7. s # <<>> => last # None /\ first = s[1] /\ last = s[Len(s)]
      <4>1. s # <<>> => s[Len(s)] \in Frames
        BY <3>2, ElementOfSeq, EmptySeq, LenProperties
      <4>2. QED
        BY <3>6, <4>1, FrameFacts DEF EndsAre
    <3>8. s # <<>> => IsStrictlyAfter(held, s[Len(s)]) /\ held.generation = s[Len(s)].generation
      BY <3>3, <3>7 DEF FrameAccepted
    <3>9. Increasing(Append(s, held)) /\ OneGeneration(Append(s, held))
      BY <3>1, <3>2, <3>6, <3>8, AppendOrdered
    <3>10. /\ Len(Append(s, held)) = Len(s) + 1 /\ Len(s) \in Nat
           /\ Append(s, held)[Len(s) + 1] = held
           /\ s # <<>> => Len(s) # 0 /\ Append(s, held)[1] = s[1]
           /\ s = <<>> => Len(s) = 0
      BY <3>1, <3>2, AppendProperties, LenProperties, EmptySeq
    <3>11. s = <<>> => last = None
      BY <3>6 DEF EndsAre
    <3>12. Append(s, held) # <<>>
      BY <3>1, <3>2, AppendProperties
    <3>13. IF Len(Append(s, held)) = 1 THEN last = None
           ELSE last # None /\ first = Append(s, held)[1]
      BY <3>7, <3>10, <3>11
    <3>14. QED
      BY <2>1, <3>3, <3>4, <3>9, <3>10, <3>12, <3>13 DEF OrderInv
  <2>2. CASE worker' = "fault"
    BY <1>d, <2>2 DEF Writing, Closing
  <2>3. QED
    BY <1>11, <1>e, <2>1, <2>2 DEF WorkerWritesFrame
<1>12. CASE WorkerCountsFrame
  <2>1. CASE Owned'
    <3>1. /\ worker = "count" /\ worker' = "loop" /\ UNCHANGED <<storeVars, mediaVars>>
          /\ first' = (IF last = None THEN held ELSE first) /\ last' = held
      BY <1>12 DEF WorkerCountsFrame, WorkerAt
    <3>2. Owned
      BY <2>1, <3>1 DEF Owned
    <3> DEFINE s == files[writer].lines
    <3>3. /\ Increasing(s) /\ OneGeneration(s)
          /\ s # <<>> /\ held = s[Len(s)]
          /\ IF Len(s) = 1 THEN last = None ELSE last # None /\ first = s[1]
      BY <3>1, <3>2 DEF OrderInv, Writing
    <3>4. EndsAre(s, first', last')
      BY <3>1, <3>3 DEF EndsAre
    <3>5. QED
      BY <3>1, <3>3, <3>4 DEF OrderInv
  <2>2. QED
    BY <1>e, <2>1
<1>13. CASE WorkerFinalizesVideo \/ WorkerClosesSidecar
  <2>1. worker \in {"video", "sidecar"} /\ worker' \in {"sidecar", "digest", "fault"}
        /\ UNCHANGED <<stagingDirs, mediaVars, identityVars>>
    BY <1>13 DEF WorkerFinalizesVideo, WorkerClosesSidecar, WorkerAt
  <2>2. files'[writer].lines = files[writer].lines
    <3>1. /\ writer \in RecordingIds /\ files[writer] \in Directories
          /\ files \in [RecordingIds -> Directories]
      BY <1>t, <1>w, <2>1 DEF Writing, Closing, TypeOK, StoreTypeOK
    <3>2. CASE WorkerFinalizesVideo
      BY <3>1, <3>2 DEF WorkerFinalizesVideo, Directories
    <3>3. CASE WorkerClosesSidecar
      BY <3>1, <3>3 DEF WorkerClosesSidecar, Directories
    <3>4. QED
      BY <1>13, <3>2, <3>3
  <2>3. CASE worker' = "fault"
    BY <1>d, <2>3 DEF Writing, Closing
  <2>4. CASE worker' # "fault"
    BY <1>k, <2>1, <2>2, <2>4 DEF Writing, Closing, Owned
  <2>5. QED
    BY <2>3, <2>4
<1>14. CASE WorkerDigests \/ WorkerBuildsManifest
  <2>1. worker \in {"digest", "build"} /\ UNCHANGED <<storeVars, mediaVars, identityVars>>
        /\ worker' \in {"build", "manifest", "fault"}
        /\ (worker' = "manifest" => manifest' = FinalizedManifest)
    BY <1>14 DEF WorkerDigests, WorkerBuildsManifest, WorkerAt
  <2>2. CASE worker' = "fault"
    BY <1>d, <2>2 DEF Writing, Closing
  <2>3. worker' = "manifest" => manifest'.first = first' /\ manifest'.last = last'
    BY <2>1 DEF FinalizedManifest
  <2>4. CASE worker' # "fault"
    BY <1>k, <2>1, <2>3, <2>4 DEF Writing, Closing, Owned
  <2>5. QED
    BY <2>2, <2>4
<1>15. CASE WorkerWritesManifest
  <2>1. worker = "manifest" /\ worker' \in {"check", "fault"}
        /\ UNCHANGED <<stagingDirs, finalizedDirs, mediaVars, identityVars, manifest>>
    BY <1>15 DEF WorkerWritesManifest, WriteFinalizedManifest, WorkerAt
  <2>2. files'[writer].lines = files[writer].lines
    BY <1>15, <1>t, <1>w, <2>1 DEF WorkerWritesManifest, WriteFinalizedManifest, Writing, Closing,
       TypeOK, StoreTypeOK, Directories
  <2>3. CASE worker' = "fault"
    BY <1>d, <2>3 DEF Writing, Closing
  <2>4. CASE worker' # "fault" /\ Owned'
    <3>1. Owned
      BY <2>1, <2>4 DEF Owned
    <3>2. manifest.first = first /\ manifest.last = last
      BY <2>1, <3>1 DEF OrderInv, Writing, Closing
    <3>3. QED
      BY <1>k, <2>1, <2>2, <2>4, <3>1, <3>2 DEF Writing, Closing
  <2>5. QED
    BY <1>e, <2>3, <2>4
<1>16. CASE WorkerChecksDeadline
  <2>1. worker = "check" /\ worker' \in {"activate", "fault"}
        /\ UNCHANGED <<storeVars, mediaVars, identityVars, manifest>>
    BY <1>16 DEF WorkerChecksDeadline, WorkerAt
  <2>2. CASE worker' = "fault"
    BY <1>d, <2>2 DEF Writing, Closing
  <2>3. CASE worker' # "fault" /\ Owned'
    <3>1. Owned
      BY <2>1, <2>3 DEF Owned
    <3>2. manifest.first = first /\ manifest.last = last
      BY <2>1, <3>1 DEF OrderInv, Writing, Closing
    <3>3. QED
      BY <1>k, <2>1, <2>3, <3>1, <3>2 DEF Writing, Closing
  <2>4. QED
    BY <1>e, <2>2, <2>3
<1>17. CASE WorkerActivates \/ WorkerPublishes \/ WorkerFaults
  BY <1>17, <1>d DEF WorkerActivates, WorkerPublishes, WorkerFaults, WorkerReturns,
     Writing, Closing
<1>18. CASE ShutdownEnds \/ Crash
  BY <1>18, <1>d DEF ShutdownEnds, Crash, ForgetMemory, Writing, Closing
<1>19. CASE (\E f \in Frames : SubmitFrame(f)) \/ Quiet
  BY <1>8, <1>19 DEF SubmitFrame, Quiet, StartBlocksInJoin, SubmitContended, CountContention,
     DurationElapses, FinalizeTimeElapses, Boot, vars, orderVars
<1>20. QED
  BY <1>1, <1>2, <1>3, <1>4, <1>6, <1>7, <1>9, <1>10, <1>11, <1>12, <1>13, <1>14, <1>15,
     <1>16, <1>17, <1>18, <1>19
     DEF Next, StartOrReplay, FinalizeOrReplay, RunWorker, Quiet, Fails

\* An artifact that is renamed is in order, and the others are not touched.
LEMMA FinalizedOrderedStep ==
  Inv /\ OrderInv /\ FinalizedOrdered /\ [Next]_vars => FinalizedOrdered'
<1> SUFFICES ASSUME Inv, OrderInv, FinalizedOrdered, [Next]_vars, NEW r \in finalizedDirs'
             PROVE  /\ Increasing(files'[r].lines) /\ OneGeneration(files'[r].lines)
                    /\ EndsAre(files'[r].lines, files'[r].manifest.first, files'[r].manifest.last)
  BY DEF FinalizedOrdered, Increasing, OneGeneration, EndsAre
<1>1. finalizedDirs \subseteq RecordingIds
  BY DEF Inv, TypeOK, StoreTypeOK
<1>2. files'[r] = files[r]
  BY <1>1, DiskStep DEF DiskKept, DiskStages, DiskRenames, Persisted
<1>3. CASE r \in finalizedDirs
  <2>1. /\ Increasing(files[r].lines) /\ OneGeneration(files[r].lines)
        /\ EndsAre(files[r].lines, files[r].manifest.first, files[r].manifest.last)
    BY <1>3 DEF FinalizedOrdered, Increasing, OneGeneration, EndsAre
  <2>2. QED
    BY <1>2, <2>1
<1>4. CASE r \notin finalizedDirs
  <2>1. worker = "activate" /\ Owned /\ r = writer
    BY <1>4, ActivatedIsOwned
  <2>2. files[writer].manifest = manifest
    BY <2>1 DEF Inv, FramesConserved, Writing, Closing
  <2>3. /\ Increasing(files[writer].lines) /\ OneGeneration(files[writer].lines)
        /\ EndsAre(files[writer].lines, first, last)
        /\ manifest.first = first /\ manifest.last = last
    BY <2>1 DEF OrderInv, Writing, Closing
  <2>4. QED
    BY <1>2, <2>1, <2>2, <2>3
<1>5. QED
  BY <1>3, <1>4

\* The frames of every finalized artifact are strictly increasing and of one
\* capture generation, and its manifest names the first and the last of them,
\* whichever writes fail and whenever the process dies.
THEOREM FinalizedOrderedHolds == Spec => []FinalizedOrdered
<1>1. Init => OrderInv /\ FinalizedOrdered
  BY DEF Init, StoreInit, OrderInv, FinalizedOrdered, Writing, Closing
<1>2. Inv /\ Inv' /\ OrderInv /\ FinalizedOrdered /\ [Next]_vars => OrderInv' /\ FinalizedOrdered'
  BY OrderStep, FinalizedOrderedStep
<1>3. QED
  BY <1>1, <1>2, Invariance, PTL DEF Spec

-----------------------------------------------------------------------------
(***************************************************************************)
(* What holds as long as certain writes do not fail.                       *)
(***************************************************************************)
\* The evidence of a stop can be written, and in time.
StopsAreWritten == Faults \cap {"stop_request", "stop_sync", "stop_late"} = {}

\* Besides, a start does not fail before its ledger replaces the one before, and
\* an activation either renames and syncs or does neither.
AnswersAreKept ==
  StopsAreWritten /\ Faults \cap {"prepare", "start_request", "media", "activate_sync"} = {}

\* A live worker is what makes the state active.
LiveIsActive == Live => state \in {"RECORDING", "FINALIZING"}

\* The stop that the worker will name in the manifest is the one on disk.
Evidence(r, stop, why) == IF stop # None THEN stop ELSE InternalStopEvidence(r, why)
EvidenceInv ==
  worker \in Writing /\ stopRequested =>
    /\ files[writer].stop = Evidence(writer, stopLedger, stopReason)
    /\ worker \in {"manifest", "check", "activate"} =>
         manifest.stop = stopLedger /\ manifest.reason = stopReason

\* The state that a replayed stop is answered from is the artifact's.
AnswerInv ==
  /\ worker = "fault" => writer \in stagingDirs
  /\ recordingId \in finalizedDirs /\ stopLedger # None /\ worker # "publish"
       => state = "FINALIZED"

-----------------------------------------------------------------------------
(***************************************************************************)
(* While the evidence of a stop can be written, a worker is live only in an *)
(* active state: no start joins it, and no stop replay replaces its paths.  *)
(***************************************************************************)
StopInv == LiveIsActive /\ LockFree /\ EvidenceInv /\ StopEvidenceMatches

\* A stop that restores is not sent during a recording.
LEMMA RestoresAtRest ==
  ASSUME NEW q, StopOutcome(q) = "RESTORED"
  PROVE  state \notin {"RECORDING", "FINALIZING"}
BY DEF StopOutcome

\* Every beginning of a finalization succeeds.
LEMMA OnlyOk ==
  ASSUME StopsAreWritten, NEW e \in StopWriteEndings
  PROVE  e = "ok"
BY DEF StopsAreWritten, StopWriteEndings, Fails

\* Every step keeps a live worker active, and no start waits for one.
LEMMA LiveStep ==
  ASSUME StopsAreWritten, Inv, LiveIsActive, LockFree, [Next]_vars
  PROVE  LiveIsActive' /\ LockFree'
<1> USE DEF storeVars, ledgerVars, counterVars, identityVars, flagVars, clockVars,
            mediaVars, managerVars, localVars, captureVars, processVars, envVars
<1>1. CASE UNCHANGED <<worker, state, http>>
  BY <1>1 DEF LiveIsActive, LockFree, Live
<1>2. ASSUME NEW q \in StartRequests, StartOrReplay(q)
      PROVE  LiveIsActive' /\ LockFree'
  <2>1. ~StartBlocksInJoin(q)
    BY DEF StartBlocksInJoin, LiveIsActive, Active
  <2>2. CASE StartConflicts(q) \/ StartRestores(q)
    BY <2>2 DEF StartConflicts, StartRestores, PastJoin, LiveIsActive, LockFree, Live
  <2>3. CASE \E e : StartFails(q, e)
    BY <2>3 DEF StartFails, PastJoin, LiveIsActive, LockFree, Live
  <2>4. CASE \E e : StartSucceeds(q, e)
    BY <2>4 DEF StartSucceeds, PastJoin, LiveIsActive, LockFree, Live
  <2>5. QED
    BY <1>2, <2>1, <2>2, <2>3, <2>4 DEF StartOrReplay
<1>3. ASSUME NEW q \in StopRequests, StopRestores(q)
      PROVE  LiveIsActive' /\ LockFree'
  <2>1. ~Live
    BY <1>3, RestoresAtRest DEF StopRestores, LiveIsActive
  <2>2. QED
    BY <1>3, <2>1 DEF StopRestores, LiveIsActive, LockFree, Live
<1>4. ASSUME NEW why, NEW evidence, NEW request, BeginFinalization(why, evidence, request, "ok"),
             UNCHANGED http
      PROVE  LiveIsActive' /\ LockFree'
  BY <1>4 DEF BeginFinalization, LiveIsActive, LockFree
<1>5. ASSUME NEW q \in StopRequests, NEW e \in StopWriteEndings, StopBegins(q, e)
      PROVE  LiveIsActive' /\ LockFree'
  BY <1>4, <1>5, OnlyOk DEF StopBegins
<1>6. ASSUME NEW e \in StopWriteEndings, WorkerExpires(e)
      PROVE  LiveIsActive' /\ LockFree'
  BY <1>4, <1>6, OnlyOk DEF WorkerExpires
<1>7. ASSUME NEW e \in StopWriteEndings, ShutdownBegins(e)
      PROVE  LiveIsActive' /\ LockFree'
  <2>1. CASE state = "RECORDING"
    BY <1>4, <1>7, <2>1, OnlyOk DEF ShutdownBegins
  <2>2. CASE state # "RECORDING"
    BY <1>1, <1>7, <2>2 DEF ShutdownBegins
  <2>3. QED
    BY <2>1, <2>2
<1>8. CASE WorkerTakes \/ WorkerWritesFrame \/ WorkerCountsFrame \/ WorkerFinalizesVideo
           \/ WorkerClosesSidecar \/ WorkerDigests \/ WorkerBuildsManifest
           \/ WorkerWritesManifest \/ WorkerChecksDeadline \/ WorkerActivates
  <2>1. UNCHANGED <<state, http>> /\ Live
    BY <1>8 DEF WorkerTakes, WorkerWritesFrame, WorkerCountsFrame, WorkerFinalizesVideo,
       WorkerClosesSidecar, WorkerDigests, WorkerBuildsManifest, WorkerWritesManifest,
       WorkerChecksDeadline, WorkerActivates, WorkerAt, Live
  <2>2. QED
    BY <2>1 DEF LiveIsActive, LockFree
<1>9. CASE WorkerPublishes \/ WorkerFaults
  BY <1>9 DEF WorkerPublishes, WorkerFaults, WorkerReturns, LiveIsActive, LockFree, Live
<1>10. CASE ShutdownEnds \/ Crash
  BY <1>10 DEF ShutdownEnds, Crash, ForgetMemory, LiveIsActive, LockFree, Live
<1>11. CASE (\E f \in Frames : SubmitFrame(f)) \/ SubmitContended \/ CountContention
            \/ DurationElapses \/ FinalizeTimeElapses \/ Boot \/ UNCHANGED vars
  BY <1>1, <1>11 DEF SubmitFrame, SubmitContended, CountContention, DurationElapses,
     FinalizeTimeElapses, Boot, vars
<1>12. QED
  BY <1>2, <1>3, <1>5, <1>6, <1>7, <1>8, <1>9, <1>10, <1>11
     DEF Next, FinalizeOrReplay, RunWorker

\* The stop that begins a finalization is the one whose evidence is written.
LEMMA EvidenceBegun ==
  ASSUME Inv, state = "RECORDING", NEW why, NEW evidence, NEW request,
         evidence = Evidence(recordingId, request, why),
         BeginFinalization(why, evidence, request, "ok"), UNCHANGED <<writer, paths>>
  PROVE  /\ files'[writer].stop = Evidence(writer', stopLedger', stopReason')
         /\ worker \in {"loop", "frame", "count", "fault"}
<1>1. paths = recordingId /\ writer = recordingId /\ paths \in RecordingIds
  BY RecordingPaths
<1>2. files'[paths].stop = evidence
  BY <1>1 DEF BeginFinalization, WriteStopRequest, Inv, TypeOK, StoreTypeOK, Directories
<1>3. stopLedger' = request /\ stopReason' = why
  BY DEF BeginFinalization, RecordStop
<1>4. QED
  BY <1>1, <1>2, <1>3 DEF Inv, WorkerInv

\* Every step keeps the evidence of the stop that the worker will name.
LEMMA EvidenceStep ==
  ASSUME StopsAreWritten, Inv, Inv', LiveIsActive, EvidenceInv, [Next]_vars
  PROVE  EvidenceInv'
<1> USE DEF storeVars, ledgerVars, counterVars, identityVars, flagVars, clockVars,
            mediaVars, managerVars, localVars, captureVars, processVars, envVars
<1>t. TypeOK /\ StoreTypeOK /\ WorkerInv
  BY DEF Inv, TypeOK
<1>w. worker \in Writing => /\ writer \in RecordingIds /\ Live
                            /\ paths = writer /\ recordingId = writer
  BY <1>t DEF Inv, WorkerInv, ActiveHasWorker, LiveIsActive, Active, Writing, Closing, Live
<1>d. worker' \notin Writing \/ ~stopRequested' => EvidenceInv'
  BY DEF EvidenceInv
\* A step that keeps the stop and its evidence, and goes on.
<1>k. ASSUME worker \in Writing, UNCHANGED <<writer, stopLedger, stopReason, stopRequested>>,
             files'[writer].stop = files[writer].stop,
             worker' \in {"manifest", "check", "activate"} =>
               \/ worker \in {"manifest", "check", "activate"} /\ manifest' = manifest
               \/ manifest' = FinalizedManifest
      PROVE  EvidenceInv'
  BY <1>k DEF EvidenceInv, FinalizedManifest
<1>1. ASSUME NEW q \in StartRequests, StartOrReplay(q)
      PROVE  EvidenceInv'
  <2>1. ~StartBlocksInJoin(q)
    BY DEF StartBlocksInJoin, LiveIsActive, Active
  <2>2. CASE StartConflicts(q) \/ StartRestores(q) \/ \E e : StartFails(q, e)
    BY <1>d, <2>2 DEF StartConflicts, StartRestores, StartFails, Writing, Closing
  <2>3. CASE \E e : StartSucceeds(q, e)
    BY <1>d, <2>3 DEF StartSucceeds
  <2>4. QED
    BY <1>1, <2>1, <2>2, <2>3 DEF StartOrReplay
<1>2. ASSUME NEW q \in StopRequests, StopRestores(q)
      PROVE  EvidenceInv'
  <2>1. ~Live /\ worker' = worker
    BY <1>2, RestoresAtRest DEF StopRestores, LiveIsActive
  <2>2. QED
    BY <1>d, <2>1 DEF Live, Writing, Closing
<1>3. ASSUME NEW q \in StopRequests, NEW e \in StopWriteEndings, StopBegins(q, e)
      PROVE  EvidenceInv'
  <2>1. e = "ok" /\ state = "RECORDING" /\ BeginFinalization("REQUESTED", q, q, "ok")
        /\ UNCHANGED <<writer, paths, worker>>
    BY <1>3, OnlyOk, BegunByStop DEF StopBegins
  <2>2. q = Evidence(recordingId, q, "REQUESTED")
    BY RequestsAssumption DEF Evidence
  <2>3. QED
    BY <2>1, <2>2, EvidenceBegun DEF EvidenceInv
<1>4. ASSUME NEW e \in StopWriteEndings, ShutdownBegins(e)
      PROVE  EvidenceInv'
  <2>1. CASE state = "RECORDING"
    <3>1. /\ BeginFinalization("APPLICATION_SHUTDOWN",
               InternalStopEvidence(recordingId, "APPLICATION_SHUTDOWN"), None, "ok")
          /\ UNCHANGED <<writer, paths, worker>>
      BY <1>4, <2>1, OnlyOk DEF ShutdownBegins
    <3>2. QED
      BY <2>1, <3>1, EvidenceBegun DEF EvidenceInv, Evidence
  <2>2. CASE state # "RECORDING"
    BY <1>4, <2>2 DEF ShutdownBegins, EvidenceInv
  <2>3. QED
    BY <2>1, <2>2
<1>5. ASSUME NEW e \in StopWriteEndings, WorkerExpires(e)
      PROVE  EvidenceInv'
  <2>1. /\ BeginFinalization("MAX_DURATION",
             InternalStopEvidence(recordingId, "MAX_DURATION"), None, "ok")
        /\ UNCHANGED <<writer, paths>> /\ worker' \in {"video", "frame"}
    BY <1>5, OnlyOk DEF WorkerExpires, TakeFrameOrLeave
  <2>2. state = "RECORDING"
    BY <1>5, <1>t DEF WorkerExpires, WorkerAt, WorkerInv, Live
  <2>3. QED
    BY <2>1, <2>2, EvidenceBegun DEF EvidenceInv, Evidence
<1>6. CASE WorkerTakes \/ WorkerCountsFrame \/ WorkerDigests \/ WorkerBuildsManifest
           \/ WorkerChecksDeadline
  <2>1. /\ UNCHANGED <<storeVars, writer, stopLedger, stopReason, stopRequested>>
        /\ worker \in Writing
        /\ worker' \in {"manifest", "check", "activate"} =>
             \/ worker \in {"manifest", "check", "activate"} /\ manifest' = manifest
             \/ manifest' = FinalizedManifest
    BY <1>6 DEF WorkerTakes, TakeFrameOrLeave, WorkerCountsFrame, WorkerDigests,
       WorkerBuildsManifest, WorkerChecksDeadline, WorkerAt, Writing, Closing
  <2>2. QED
    BY <1>k, <2>1
<1>7. CASE WorkerWritesFrame \/ WorkerFinalizesVideo \/ WorkerClosesSidecar
  <2>1. worker \in Writing /\ worker' \in {"count", "sidecar", "digest", "fault"}
        /\ UNCHANGED <<writer, stopLedger, stopReason, stopRequested>>
    BY <1>7 DEF WorkerWritesFrame, WorkerFinalizesVideo, WorkerClosesSidecar, WorkerAt, Writing,
       Closing
  <2>2. \A r \in RecordingIds : files'[r].stop = files[r].stop
    BY <1>7, <1>t, RequestsKept
       DEF WorkerWritesFrame, WorkerFinalizesVideo, WorkerClosesSidecar
  <2>3. QED
    BY <1>k, <1>w, <2>1, <2>2
<1>8. CASE WorkerWritesManifest
  <2>1. worker = "manifest" /\ worker' \in {"check", "fault"}
        /\ UNCHANGED <<writer, stopLedger, stopReason, stopRequested, manifest>>
    BY <1>8 DEF WorkerWritesManifest, WorkerAt
  <2>2. files'[writer].stop = files[writer].stop
    BY <1>8, <1>t, <1>w, <2>1 DEF WorkerWritesManifest, WriteFinalizedManifest, Writing, Closing,
       StoreTypeOK, Directories
  <2>3. QED
    BY <1>k, <2>1, <2>2 DEF Writing, Closing
<1>9. CASE WorkerActivates \/ WorkerPublishes \/ WorkerFaults
  BY <1>9, <1>d DEF WorkerActivates, WorkerPublishes, WorkerFaults, WorkerReturns,
     Writing, Closing
<1>10. CASE ShutdownEnds \/ Crash
  BY <1>10, <1>d DEF ShutdownEnds, Crash, ForgetMemory, Writing, Closing
<1>11. CASE (\E f \in Frames : SubmitFrame(f)) \/ SubmitContended \/ CountContention
            \/ DurationElapses \/ FinalizeTimeElapses \/ Boot \/ UNCHANGED vars
  BY <1>11 DEF SubmitFrame, SubmitContended, CountContention, DurationElapses,
     FinalizeTimeElapses, Boot, vars, EvidenceInv
<1>12. QED
  BY <1>1, <1>2, <1>3, <1>4, <1>5, <1>6, <1>7, <1>8, <1>9, <1>10, <1>11
     DEF Next, FinalizeOrReplay, RunWorker

\* What is renamed has the evidence of the stop that its manifest names.
LEMMA EvidenceMatchesStep ==
  ASSUME Inv, EvidenceInv, StopEvidenceMatches, [Next]_vars
  PROVE  StopEvidenceMatches'
<1> SUFFICES ASSUME NEW r \in finalizedDirs'
             PROVE  files'[r].stop = Evidence(r, files'[r].manifest.stop, files'[r].manifest.reason)
  BY DEF StopEvidenceMatches, Evidence
<1>1. finalizedDirs \subseteq RecordingIds
  BY DEF Inv, TypeOK, StoreTypeOK
<1>2. files'[r] = files[r]
  BY <1>1, DiskStep DEF DiskKept, DiskStages, DiskRenames, Persisted
<1>3. CASE r \in finalizedDirs
  BY <1>2, <1>3 DEF StopEvidenceMatches, Evidence
<1>4. CASE r \notin finalizedDirs
  <2>1. worker = "activate" /\ Owned /\ r = writer
    BY <1>4, ActivatedIsOwned
  <2>2. files[writer].manifest = manifest /\ stopRequested
    BY <2>1 DEF Inv, FramesConserved, Writing, Closing
  <2>3. files[writer].stop = Evidence(writer, manifest.stop, manifest.reason)
    BY <2>1, <2>2 DEF EvidenceInv, Writing, Closing
  <2>4. QED
    BY <1>2, <2>1, <2>2, <2>3
<1>5. QED
  BY <1>3, <1>4

\* As long as the evidence of stops can be written, StopInv is an invariant.
LEMMA StopInvariance ==
  ASSUME StopsAreWritten
  PROVE  Spec => []StopInv
<1>1. Init => StopInv
  BY DEF Init, StoreInit, StopInv, LiveIsActive, LockFree, EvidenceInv, StopEvidenceMatches, Live,
         Writing, Closing
<1>2. Inv /\ Inv' /\ StopInv /\ [Next]_vars => StopInv'
  BY LiveStep, EvidenceStep, EvidenceMatchesStep DEF StopInv
<1>3. QED
  BY <1>1, <1>2, Invariance, PTL DEF Spec

\* As long as the evidence of stops can be written, the provider I/O thread never
\* waits in m_worker.join(), whatever else fails.
THEOREM NeverJoins ==
  ASSUME StopsAreWritten
  PROVE  Spec => []ProviderNeverJoins
<1>1. StopInv => ProviderNeverJoins
  BY DEF StopInv, ProviderNeverJoins
<1>2. QED
  BY <1>1, StopInvariance, PTL

\* As long as the evidence of stops can be written, every finalized artifact has
\* beside its manifest the evidence of the stop that the manifest names.
THEOREM EvidenceMatches ==
  ASSUME StopsAreWritten
  PROVE  Spec => []StopEvidenceMatches
<1>1. StopInv => StopEvidenceMatches
  BY DEF StopInv
<1>2. QED
  BY <1>1, StopInvariance, PTL

\* As long as the evidence of stops can be written, nothing is finalized once the
\* state is FAULTED.
THEOREM FaultedStays ==
  ASSUME StopsAreWritten
  PROVE  Spec => FaultedStaysStaged
<1>1. Inv /\ StopInv /\ [Next]_vars => [state = "FAULTED" => finalizedDirs' = finalizedDirs]_vars
  <2> SUFFICES ASSUME Inv, StopInv, [Next]_vars, state = "FAULTED"
               PROVE  finalizedDirs' = finalizedDirs
    OBVIOUS
  <2>1. ~Live
    BY DEF StopInv, LiveIsActive
  <2>2. QED
    BY <2>1, ActivatedIsOwned DEF Live
<1>2. QED
  BY <1>1, StopInvariance, Invariance, PTL DEF Spec, FaultedStaysStaged

-----------------------------------------------------------------------------
(***************************************************************************)
(* The answer to a replayed stop.  It is given from memory when the ledger  *)
(* still has the request, else from the disk: memory must say FINALIZED.    *)
(***************************************************************************)
\* A worker that faults has not renamed its directory.
LEMMA FaultStep ==
  ASSUME AnswersAreKept, Inv, LiveIsActive, AnswerInv, [Next]_vars, worker' = "fault"
  PROVE  writer' \in stagingDirs'
<1> USE DEF storeVars, ledgerVars, counterVars, identityVars, flagVars, clockVars,
            mediaVars, managerVars, localVars, captureVars, processVars, envVars
<1>t. WorkerInv
  BY DEF Inv
<1>1. CASE UNCHANGED <<worker, writer, stagingDirs>>
  BY <1>1 DEF AnswerInv
<1>2. CASE \E q \in StartRequests : StartOrReplay(q)
  BY <1>1, <1>2 DEF StartOrReplay, StartBlocksInJoin, StartConflicts, StartRestores, StartFails,
     StartSucceeds
<1>3. CASE \E q \in StopRequests : FinalizeOrReplay(q)
  BY <1>1, <1>3 DEF FinalizeOrReplay, StopRestores, StopBegins, BeginFinalization,
     WriteStopRequest
<1>4. CASE \E e \in StopWriteEndings : ShutdownBegins(e)
  BY <1>1, <1>4 DEF ShutdownBegins, BeginFinalization, WriteStopRequest
<1>5. CASE worker \in Writing /\ UNCHANGED <<writer, stagingDirs>>
  BY <1>t, <1>5 DEF WorkerInv
<1>6. CASE \E e \in StopWriteEndings : WorkerExpires(e)
  BY <1>5, <1>6 DEF WorkerExpires, WorkerAt, BeginFinalization, WriteStopRequest, Writing
<1>7. CASE WorkerActivates
  <2>1. PICK e \in ActivateEndings : /\ ActivateFinalized(paths, e)
                                     /\ worker' = IF e = "ok" THEN "publish" ELSE "fault"
    BY <1>7 DEF WorkerActivates
  <2>2. e = "activate"
    BY <2>1 DEF ActivateEndings, Fails, AnswersAreKept
  <2>3. QED
    BY <1>5, <1>7, <2>1, <2>2 DEF ActivateFinalized, WorkerActivates, WorkerAt, Writing, Closing
<1>8. CASE WorkerTakes \/ WorkerWritesFrame \/ WorkerCountsFrame \/ WorkerFinalizesVideo
           \/ WorkerClosesSidecar \/ WorkerDigests \/ WorkerBuildsManifest
           \/ WorkerWritesManifest \/ WorkerChecksDeadline
  BY <1>5, <1>8 DEF WorkerTakes, WorkerWritesFrame, WorkerCountsFrame, WorkerFinalizesVideo,
     WorkerClosesSidecar, WorkerDigests, WorkerBuildsManifest, WorkerWritesManifest,
     WriteFinalizedManifest, WorkerChecksDeadline, WorkerAt, Writing, Closing
<1>9. CASE WorkerPublishes \/ WorkerFaults \/ ShutdownEnds \/ Crash
  BY <1>9 DEF WorkerPublishes, WorkerFaults, WorkerReturns, ShutdownEnds, Crash, ForgetMemory
<1>10. CASE (\E f \in Frames : SubmitFrame(f)) \/ SubmitContended \/ CountContention
            \/ DurationElapses \/ FinalizeTimeElapses \/ Boot \/ UNCHANGED vars
  BY <1>1, <1>10 DEF SubmitFrame, SubmitContended, CountContention, DurationElapses,
     FinalizeTimeElapses, Boot, vars
<1>11. QED
  BY <1>2, <1>3, <1>4, <1>6, <1>7, <1>8, <1>9, <1>10 DEF Next, RunWorker

\* Every step keeps the state that a replayed stop is answered from.
LEMMA AnswerStep ==
  ASSUME AnswersAreKept, Inv, Inv', LiveIsActive, LiveIsActive', AnswerInv, [Next]_vars
  PROVE  AnswerInv'
<1> USE DEF storeVars, ledgerVars, counterVars, identityVars, flagVars, clockVars,
            mediaVars, managerVars, localVars, captureVars, processVars, envVars
<1>1. worker' = "fault" => writer' \in stagingDirs'
  BY FaultStep
<1>2. SUFFICES ASSUME recordingId' \in finalizedDirs', stopLedger' # None, worker' # "publish"
               PROVE  state' = "FINALIZED"
  BY <1>1 DEF AnswerInv
\* The worker has returned: its recording was below .staging until then.
<1>3. worker' \in {"none", "done"}
  <2>1. ASSUME worker' \in Writing \cup {"fault"}
        PROVE  FALSE
    <3>1. recordingId' = writer' /\ writer' \in stagingDirs'
      BY <1>1, <2>1 DEF Inv, WorkerInv, ActiveHasWorker, LiveIsActive, Active, Live, Writing, Closing
    <3>2. QED
      BY <1>2, <3>1 DEF Inv, OneDirectory
  <2>2. worker' \in WorkerSteps
    BY DEF Inv, TypeOK
  <2>3. QED
    BY <1>2, <2>1, <2>2 DEF WorkerSteps, Writing, Closing
<1>4. CASE UNCHANGED <<state, recordingId, stopLedger, finalizedDirs>> /\ worker # "publish"
  BY <1>2, <1>4 DEF AnswerInv
<1>5. ASSUME NEW q \in StartRequests, StartOrReplay(q)
      PROVE  state' = "FINALIZED"
  <2>1. ~StartBlocksInJoin(q)
    BY DEF StartBlocksInJoin, LiveIsActive, Active
  <2>2. CASE StartConflicts(q)
    BY <1>4, <2>2 DEF StartConflicts, PastJoin, Live
  <2>3. CASE StartRestores(q) \/ \E e : StartSucceeds(q, e)
    BY <1>2, <2>3 DEF StartRestores, StartSucceeds
  <2>4. ASSUME NEW e \in StartFailures(q), StartFails(q, e)
        PROVE  FALSE
    <3>1. CanStage(q.recording)
      BY <2>4, NewIsAbsent DEF StartFails, Persisted, CanStage
    <3>2. QED
      BY <2>4, <3>1 DEF StartFailures, Fails, AnswersAreKept
  <2>5. QED
    BY <1>5, <2>1, <2>2, <2>3, <2>4 DEF StartOrReplay
<1>6. ASSUME NEW q \in StopRequests, FinalizeOrReplay(q)
      PROVE  state' = "FINALIZED"
  <2>1. CASE StopRestores(q)
    BY <2>1, RestoredByStop DEF StopRestores, RestorePersistedArtifact
  <2>2. ASSUME NEW e, StopBegins(q, e) PROVE FALSE
    BY <1>3, <2>2, BegunByStop, RecordingPaths DEF StopBegins, Live
  <2>3. QED
    BY <1>6, <2>1, <2>2 DEF FinalizeOrReplay
<1>7. ASSUME NEW e, ShutdownBegins(e)
      PROVE  state' = "FINALIZED"
  <2>1. worker' = worker
    BY <1>7 DEF ShutdownBegins
  <2>2. state # "RECORDING"
    BY <1>3, <2>1, RecordingPaths DEF Live
  <2>3. QED
    BY <1>2, <1>4, <1>7, <2>1, <2>2 DEF ShutdownBegins
<1>8. CASE RunWorker
  <2>1. CASE WorkerPublishes
    BY <2>1 DEF WorkerPublishes
  <2>2. CASE WorkerFaults
    <3>1. worker = "fault" /\ UNCHANGED <<recordingId, finalizedDirs>>
      BY <2>2 DEF WorkerFaults, WorkerReturns, WorkerAt
    <3>2. recordingId = writer /\ writer \in stagingDirs
      BY <3>1 DEF AnswerInv, Inv, ActiveHasWorker, LiveIsActive, Active, Live
    <3>3. QED
      BY <1>2, <3>1, <3>2 DEF Inv, OneDirectory
  <2>3. CASE (\E e \in StopWriteEndings : WorkerExpires(e)) \/ WorkerTakes \/ WorkerWritesFrame
             \/ WorkerCountsFrame \/ WorkerFinalizesVideo \/ WorkerClosesSidecar \/ WorkerDigests
             \/ WorkerBuildsManifest \/ WorkerWritesManifest \/ WorkerChecksDeadline
             \/ WorkerActivates
    BY <1>3, <2>3 DEF WorkerExpires, WorkerTakes, TakeFrameOrLeave, WorkerWritesFrame,
       WorkerCountsFrame, WorkerFinalizesVideo, WorkerClosesSidecar, WorkerDigests,
       WorkerBuildsManifest, WorkerWritesManifest, WorkerChecksDeadline, WorkerActivates
  <2>4. QED
    BY <1>8, <2>1, <2>2, <2>3 DEF RunWorker
<1>9. CASE ShutdownEnds \/ Crash
  BY <1>2, <1>9 DEF ShutdownEnds, Crash, ForgetMemory
<1>10. CASE (\E f \in Frames : SubmitFrame(f)) \/ SubmitContended \/ CountContention
            \/ DurationElapses \/ FinalizeTimeElapses \/ Boot \/ UNCHANGED vars
  BY <1>2, <1>4, <1>10 DEF SubmitFrame, SubmitContended, CountContention, DurationElapses,
     FinalizeTimeElapses, Boot, vars
<1>11. QED
  BY <1>5, <1>6, <1>7, <1>8, <1>9, <1>10 DEF Next

\* Memory and disk give the same answer.
LEMMA AnswerGiven ==
  ASSUME Inv, AnswerInv, NEW q \in StopRequests, worker # "publish",
         q.recording \in finalizedDirs, files[q.recording].stop = q
  PROVE  StopOutcome(q) \in {"REPLAYED", "RESTORED"}
<1>1. CASE SameStop(q)
  <2>1. stopLedger # None /\ q.recording = recordingId
    BY <1>1 DEF SameStop
  <2>2. stopLedger = q /\ state = "FINALIZED"
    BY <2>1 DEF Inv, LedgerMatchesDisk, AnswerInv
  <2>3. QED
    BY <1>1, <2>2 DEF StopOutcome
<1>2. CASE ~SameStop(q)
  <2>1. Persisted(q.recording) /\ Readable(q.recording)
    BY DEF Inv, OneDirectory, FinalizedComplete, ArtifactComplete, Persisted, Readable
  <2>2. q # None
    BY RequestsAssumption
  <2>3. QED
    BY <1>2, <2>1, <2>2 DEF StopOutcome
<1>3. QED
  BY <1>1, <1>2

\* A stop request whose artifact is finalized is answered 200, also after
\* restarts and when other recordings came between, as long as stops are
\* written, no start fails half way and no directory sync fails after a rename.
THEOREM ReplayAnswered ==
  ASSUME AnswersAreKept
  PROVE  Spec => []StopReplayAnswered
<1>0. StopsAreWritten
  BY DEF AnswersAreKept
<1>1. Init => AnswerInv
  BY DEF Init, StoreInit, AnswerInv
<1>2. /\ Inv /\ Inv' /\ StopInv /\ StopInv' /\ AnswerInv /\ [Next]_vars
      => AnswerInv'
  BY AnswerStep DEF StopInv
<1>3. Inv /\ AnswerInv => StopReplayAnswered
  BY AnswerGiven DEF StopReplayAnswered
<1>4. Spec => []StopInv
  BY <1>0, StopInvariance
<1>5. QED
  BY <1>1, <1>2, <1>3, <1>4, Invariance, PTL DEF Spec
===============================================================================
