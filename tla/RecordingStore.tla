--------------------------- MODULE RecordingStore ---------------------------
(***************************************************************************)
(* The filesystem below the recording root, as RecordingStore              *)
(* (src/recording/recording_store.cpp) lays it out:                        *)
(*   .staging/<id>/    an artifact that is being written, or was left       *)
(*   finalized/<id>/   an artifact that was activated by one rename         *)
(* files[r] is the content of the directory of recording r, wherever the    *)
(* directory is: activation renames the directory and copies nothing.       *)
(*                                                                          *)
(* Every operation takes the way it ends as a parameter, because each of    *)
(* its system calls can fail and leave the calls before it on disk.  A      *)
(* crash of the process between two calls leaves the same disk as the       *)
(* failure of the second one, so these endings cover both.                  *)
(***************************************************************************)
EXTENDS Naturals, Sequences

CONSTANTS
  RecordingIds,   \* recording identities (valid ones: see the README)
  StartRequests,  \* canonical start bodies that callers send
  StopRequests,   \* canonical stop bodies that callers send
  Generations,    \* capture generations of the camera
  Numbers,        \* frame numbers within a generation
  None            \* an absent file, an empty string, an empty optional

VARIABLES
  stagingDirs,    \* {r : .staging/r exists}
  finalizedDirs,  \* {r : finalized/r exists}
  files           \* files[r]: what the directory of r holds

storeVars == <<stagingDirs, finalizedDirs, files>>

Reasons == {"REQUESTED", "MAX_DURATION", "APPLICATION_SHUTDOWN"}

\* A request body names its recording and its request ID; two bodies that
\* differ elsewhere differ in content.
IsRequest(q) ==
  /\ DOMAIN q = {"recording", "request", "content"}
  /\ q.recording \in RecordingIds

ASSUME RequestsAssumption ==
  /\ \A q \in StartRequests \cup StopRequests : IsRequest(q)
  /\ \A q \in StartRequests \cup StopRequests : q.request # None
  /\ None \notin StartRequests
  /\ None \notin StopRequests

ASSUME IdsAssumption == None \notin RecordingIds

ASSUME FramesAssumption == Generations \subseteq Nat /\ Numbers \subseteq Nat

\* FrameIdentity.
Frames == [generation : Generations, number : Numbers]

ASSUME NoneIsNoFrame == None \notin Frames

\* serializeInternalStopEvidence: evidence of a stop that nobody requested.
InternalStopEvidence(r, reason) ==
  [recording |-> r, request |-> None, content |-> reason]

StopEvidence ==
  StopRequests \cup
    {InternalStopEvidence(r, why) : r \in RecordingIds, why \in Reasons}

ASSUME NoneIsNoEvidence == None \notin StopEvidence

\* What a directory holds when it has just been made: its start request, no
\* MP4 trailer, no line in an open frames.jsonl, no manifest.
NewDirectory(start) ==
  [start |-> start, stop |-> None, trailer |-> FALSE, closed |-> FALSE,
   lines |-> <<>>, manifest |-> None]

StoreInit ==
  /\ stagingDirs = {}
  /\ finalizedDirs = {}
  /\ files = [r \in RecordingIds |-> NewDirectory(None)]

-----------------------------------------------------------------------------
\* createStaging.  "prepare": initialize, the free-space check or mkdir
\* failed, or one of the directories was there; "start_request":
\* start_request.json was not renamed into place; every other ending has it.
CanStage(r) == r \notin finalizedDirs /\ r \notin stagingDirs

CreateStaging(q, ending) ==
  IF ending = "prepare"
  THEN UNCHANGED storeVars
  ELSE /\ CanStage(q.recording)
       /\ stagingDirs' = stagingDirs \cup {q.recording}
       /\ files' = [files EXCEPT ![q.recording] =
                      NewDirectory(IF ending = "start_request" THEN None ELSE q)]
       /\ UNCHANGED finalizedDirs

\* writeStopRequest into .staging/r.  "stop_request": nothing was renamed into
\* place; "stop_sync" and "stop_late": the file is there.
WriteStopRequest(r, evidence, ending) ==
  /\ ending # "stop_request" => r \in stagingDirs
  /\ files' = IF ending = "stop_request" THEN files
              ELSE [files EXCEPT ![r].stop = evidence]
  /\ UNCHANGED <<stagingDirs, finalizedDirs>>

\* writeFinalizedManifest into .staging/r.
WriteFinalizedManifest(r, manifest, ending) ==
  /\ ending # "manifest" => r \in stagingDirs
  /\ files' = IF ending = "manifest" THEN files
              ELSE [files EXCEPT ![r].manifest = manifest]
  /\ UNCHANGED <<stagingDirs, finalizedDirs>>

\* activateFinalized: the guards and the rename.  "activate_sync": the rename
\* is done and one of the two directory syncs after it failed.
CanActivate(r) == r \in stagingDirs /\ r \notin finalizedDirs

\* Mutant of ActivateFinalized: the directory is copied.
ActivateCopy(r, ending) ==
  IF ending = "activate"
  THEN UNCHANGED storeVars
  ELSE /\ CanActivate(r)
       /\ finalizedDirs' = finalizedDirs \cup {r}
       /\ UNCHANGED <<stagingDirs, files>>

ActivateFinalized(r, ending) ==
  IF ending = "activate"
  THEN UNCHANGED storeVars
  ELSE /\ CanActivate(r)
       /\ stagingDirs' = stagingDirs \ {r}
       /\ finalizedDirs' = finalizedDirs \cup {r}
       /\ UNCHANGED files

\* findPersistedArtifact: is there one, and can it be read?  It throws when
\* both directories exist and when start_request.json is not there.
Persisted(r) == r \in stagingDirs \cup finalizedDirs

Readable(r) == ~(r \in stagingDirs /\ r \in finalizedDirs) /\ files[r].start # None
=============================================================================
