----------------------------- MODULE MCRecording -----------------------------
(***************************************************************************)
(* Instances of RecordingManager for TLC: two recordings, start bodies one  *)
(* of which reuses a request ID with other content, stop bodies likewise.   *)
(***************************************************************************)
EXTENDS RecordingManager

Request(r, id, content) == [recording |-> r, request |-> id, content |-> content]

TwoStarts == {Request("r1", "a", "x"), Request("r2", "b", "x")}
ThreeStarts == TwoStarts \cup {Request("r1", "a", "y")}
TwoStops == {Request("r1", "c", "x"), Request("r2", "c", "x")}
OneStart == {Request("r1", "a", "x")}
OneStop == {Request("r1", "c", "x")}

StartFaults == {"prepare", "start_request", "media", "thread"}
StopFaults == {"stop_request", "stop_sync", "stop_late"}
WorkerIoFaults == {"frame", "video", "sidecar", "digest", "manifest",
                   "manifest_sync", "activate", "activate_sync"}
AllFaults == StartFaults \cup StopFaults \cup WorkerIoFaults
NoFaults == {}
StopWriteFault == {"stop_request"}
StartFault == {"prepare"}
\* Faults after which an artifact and the answers about it still agree.
CleanFaults == WorkerIoFaults \ {"activate_sync"}

\* The input bound of the fault run: of the frames of two generations and two
\* numbers, the camera delivers three.  They still make an artifact of two
\* frames, an older or repeated number and a change of generation.
ThreeFrames ==
  \A i \in DOMAIN queue : queue[i] # [generation |-> 2, number |-> 2]
=============================================================================
