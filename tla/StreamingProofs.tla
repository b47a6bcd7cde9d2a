--------------------------- MODULE StreamingProofs ---------------------------
(***************************************************************************)
(* Proofs about ProviderHttpServer for every finite set of sessions, all   *)
(* limits, streams, generations and frame numbers.                         *)
(***************************************************************************)
EXTENDS ProviderHttpServer, FiniteSetTheorems, SequenceTheorems, TLAPS

-----------------------------------------------------------------------------
(***************************************************************************)
(* The inductive invariant.                                                *)
(***************************************************************************)
\* Until stopServer is called, nothing has been posted that ends the server.
ServerInv ==
  /\ started <=> server = "running"
  /\ started => \A i \in 1 .. Len(posted) : posted[i] # "stop"

\* The timer and the stream fields of a session, by its outstanding operation.
TimerInv ==
  \A s \in Sessions :
    /\ armed[s] => Open(s) /\ Streaming(s) /\ op[s] = "none"
    /\ fired[s] => Streaming(s) /\ op[s] \in {"none", "part"}

OperationInv ==
  \A s \in Sessions :
    /\ op[s] \in {"read", "response"} => ~Streaming(s)
    /\ op[s] \in {"header", "part"} => Streaming(s)
    /\ op[s] \in {"read", "header"} => parts[s] = 0
    /\ op[s] = "part" \/ Waiting(s) => initial[s] = None

\* While the server runs, only the session's own handlers end it: a session
\* that is reading is open.
ReadInv == server = "running" => \A s \in Sessions : op[s] = "read" => Open(s)

\* A newer frame that comes while a later part is written is remembered, or
\* will be announced.
Announced(s) == NotificationOnItsWay(kind[s]) \/ refresh[s]
Overtaken(s) ==
  /\ Open(s) /\ op[s] = "part" /\ parts[s] >= 1
  /\ AcquireFreshPreview(kind[s]) # None
  /\ Newer(AcquireFreshPreview(kind[s]), pending[s])

WakeupInv ==
  /\ NoLostWakeupLater
  /\ started => \A s \in Sessions : Overtaken(s) => Announced(s)

Inv ==
  /\ TypeOK /\ ServerInv /\ TimerInv /\ OperationInv /\ ReadInv
  /\ CountsMatch /\ SessionHasHandler /\ PartsGetNewer /\ WakeupInv

-----------------------------------------------------------------------------
(***************************************************************************)
(* The steps that touch a session.                                         *)
(***************************************************************************)
\* What every handler of a session leaves alone.
IoFrame == UNCHANGED <<pipelineVars, posted, started, acceptVars, server>>

Ends(s) == op[s] # "none" /\ EndsSession(s) /\ IoFrame
Responds(s) == op[s] = "read" /\ SendResponse(s) /\ IoFrame
Streams(s, k) == op[s] = "read" /\ StartStream(s, k) /\ IoFrame
HeaderDone(s) ==
  /\ op[s] = "header" /\ Open(s)
  /\ WriteLatestStreamFrame({s}, lastSent, [op EXCEPT ![s] = "none"], refresh)
  /\ UNCHANGED <<countVars, status, kind, lastSent, parts, fired>>
  /\ IoFrame
PartDone(s) ==
  /\ op[s] = "part" /\ Open(s)
  /\ lastSent' = [lastSent EXCEPT ![s] = pending[s]]
  /\ parts' = [parts EXCEPT ![s] = IF parts[s] < 2 THEN parts[s] + 1 ELSE 2]
  /\ UNCHANGED <<countVars, status, kind, fired>>
  /\ IoFrame
PartDoneRefreshes(s) ==
  /\ PartDone(s) /\ refresh[s]
  /\ WriteLatestStreamFrame({s}, lastSent', [op EXCEPT ![s] = "none"],
                            [refresh EXCEPT ![s] = FALSE])
PartDoneWaits(s) ==
  /\ PartDone(s) /\ ~refresh[s]
  /\ op' = [op EXCEPT ![s] = "none"]
  /\ armed' = [armed EXCEPT ![s] = TRUE]
  /\ UNCHANGED <<initial, pending, refresh>>
Expires(s) == TimerExpires(s) /\ IoFrame
TimesOut(s) == IdleTimeout(s) /\ IoFrame
Notifies == NotifySessions /\ UNCHANGED pipelineVars
StopsOnIoThread == StopOnIoThread /\ UNCHANGED pipelineVars
Idles == UNCHANGED sessionVars

SessionStep(s) ==
  \/ AcceptsSession(s) \/ Ends(s) \/ Responds(s) \/ (\E k \in Kinds : Streams(s, k))
  \/ HeaderDone(s) \/ PartDoneRefreshes(s) \/ PartDoneWaits(s)
  \/ Expires(s) \/ TimesOut(s)

\* A handler of a session is one of them.
LEMMA HandlerCases ==
  ASSUME NEW s \in Sessions, SessionHandler(s)
  PROVE  SessionStep(s) /\ IoFrame
<1>1. IoFrame
  BY DEF SessionHandler, IoFrame
<1>2. CASE HandleRead(s)
  BY <1>1, <1>2 DEF HandleRead, SessionStep, Ends, Responds, Streams
<1>3. CASE ResponseWritten(s)
  BY <1>1, <1>3 DEF ResponseWritten, SessionStep, Ends
<1>4. CASE HandleStreamHeaderWritten(s)
  BY <1>1, <1>4 DEF HandleStreamHeaderWritten, SessionStep, Ends, HeaderDone
<1>5. CASE HandleStreamPartWritten(s)
  BY <1>1, <1>5
     DEF HandleStreamPartWritten, SessionStep, Ends, PartDone, PartDoneRefreshes, PartDoneWaits
<1>6. CASE TimerExpires(s) \/ IdleTimeout(s)
  BY <1>1, <1>6 DEF SessionStep, Expires, TimesOut
<1>7. QED
  BY <1>1, <1>2, <1>3, <1>4, <1>5, <1>6 DEF SessionHandler, OperationEnds

\* Every step is one of them, or leaves the sessions alone.
LEMMA StepCases ==
  ASSUME [Next]_vars
  PROVE  Idles \/ Notifies \/ StopsOnIoThread \/ \E s \in Sessions : SessionStep(s)
<1>1. CASE UNCHANGED vars
  BY <1>1 DEF vars, Idles
<1>2. CASE PipelineNext /\ UNCHANGED <<acceptVars, countVars, sessionVars, server>>
  BY <1>2 DEF Idles
<1>3. CASE ClientConnects \/ StopServer \/ StopTimesOut \/ StopEnds
  BY <1>3 DEF Idles, ClientConnects, StopServer, StopTimesOut, StopEnds
<1>4. CASE AcceptHandler
  BY <1>4 DEF AcceptHandler, AcceptRefuses, Idles, SessionStep
<1>5. CASE PostedHandler
  BY <1>5 DEF PostedHandler, Notifies, StopsOnIoThread
<1>6. CASE \E s \in Sessions : SessionHandler(s)
  BY <1>6, HandlerCases
<1>7. QED
  BY <1>1, <1>2, <1>3, <1>4, <1>5, <1>6 DEF Next, IoStep

-----------------------------------------------------------------------------
(***************************************************************************)
(* Type correctness.                                                       *)
(***************************************************************************)
Operations == {"none", "read", "response", "header", "part"}

\* The initial state satisfies the inductive invariant.
LEMMA InitInv == Init => Inv
<1> SUFFICES ASSUME Init PROVE Inv
  OBVIOUS
<1> USE SessionsAssumption, LimitsAssumption, KindsAssumption, IdentityAssumption
        DEF Init, PipelineInit
<1>1. TypeOK
  <2>1. PipelineTypeOK
    BY DEF PipelineTypeOK, EncoderSteps, At
  <2>2. posted \in Seq(Kinds \cup {"stop"})
    BY EmptySeq
  <2>3. connections \in 0 .. MaxConnections /\ streams \in 0 .. MaxStreamClients
    OBVIOUS
  <2>4. /\ status \in [Sessions -> {"free", "open", "finished"}]
        /\ op \in [Sessions -> {"none", "read", "response", "header", "part"}]
        /\ parts \in [Sessions -> 0 .. 2]
    OBVIOUS
  <2>5. /\ kind \in [Sessions -> Kinds \cup {None}]
        /\ initial \in [Sessions -> Identities \cup {None}]
        /\ pending \in [Sessions -> Identities \cup {None}]
        /\ lastSent \in [Sessions -> Identities \cup {None}]
    OBVIOUS
  <2>6. /\ refresh \in [Sessions -> BOOLEAN]
        /\ armed \in [Sessions -> BOOLEAN]
        /\ fired \in [Sessions -> BOOLEAN]
    OBVIOUS
  <2>7. QED
    BY <2>1, <2>2, <2>3, <2>4, <2>5, <2>6 DEF TypeOK
<1>2. ServerInv /\ TimerInv /\ OperationInv /\ ReadInv
  BY DEF ServerInv, TimerInv, OperationInv, ReadInv, Open, Streaming, Waiting
<1>3. CountsMatch
  <2>1. {s \in Sessions : Open(s)} = {} /\ {s \in Sessions : Open(s) /\ Streaming(s)} = {}
    BY DEF Open
  <2>2. QED
    BY <2>1, FS_EmptySet DEF CountsMatch
<1>4. SessionHasHandler /\ PartsGetNewer /\ WakeupInv
  BY DEF SessionHasHandler, PartsGetNewer, WakeupInv, NoLostWakeupLater, Overtaken, Open
<1>5. QED
  BY <1>1, <1>2, <1>3, <1>4 DEF Inv

\* A preview is an identity or none.
LEMMA PreviewType ==
  ASSUME TypeOK, NEW k \in Kinds
  PROVE  AcquireFreshPreview(k) \in Identities \cup {None}
BY DEF TypeOK, PipelineTypeOK, AcquireFreshPreview

\* So is what a stream sends.
LEMMA FrameToSendType ==
  ASSUME TypeOK, NEW s \in Sessions, kind[s] \in Kinds
  PROVE  FrameToSend(s) \in Identities \cup {None}
<1>1. AcquireFreshPreview(kind[s]) \in Identities \cup {None}
  BY PreviewType
<1>2. QED
  BY <1>1 DEF TypeOK, FrameToSend

\* writeLatestStreamFrame keeps the types of what it assigns.
LEMMA WriteType ==
  ASSUME TypeOK,
         NEW W \in SUBSET Sessions, \A s \in W : kind[s] \in Kinds,
         NEW sent, NEW ops \in [Sessions -> Operations],
         NEW wanted \in [Sessions -> BOOLEAN],
         WriteLatestStreamFrame(W, sent, ops, wanted)
  PROVE  /\ op' \in [Sessions -> Operations]
         /\ pending' \in [Sessions -> Identities \cup {None}]
         /\ initial' \in [Sessions -> Identities \cup {None}]
         /\ refresh' \in [Sessions -> BOOLEAN]
         /\ armed' \in [Sessions -> BOOLEAN]
<1> DEFINE writes == {s \in W : HasFrameToSend(s, sent[s])}
<1>1. /\ op' = [s \in Sessions |-> IF s \in writes THEN "part" ELSE ops[s]]
      /\ pending' = [s \in Sessions |-> IF s \in writes THEN FrameToSend(s) ELSE pending[s]]
      /\ initial' = [s \in Sessions |-> IF s \in W THEN None ELSE initial[s]]
      /\ refresh' = [s \in Sessions |-> wanted[s] /\ s \notin writes]
      /\ armed' = [s \in Sessions |-> IF s \in W THEN s \notin writes ELSE armed[s]]
  BY DEF WriteLatestStreamFrame
<1>2. \A s \in writes : FrameToSend(s) \in Identities \cup {None}
  BY FrameToSendType
<1> HIDE DEF writes
<1>3. op' \in [Sessions -> Operations]
  BY <1>1 DEF Operations
<1>4. pending' \in [Sessions -> Identities \cup {None}]
  BY <1>1, <1>2 DEF TypeOK
<1>5. initial' \in [Sessions -> Identities \cup {None}]
  BY <1>1 DEF TypeOK
<1>6. refresh' \in [Sessions -> BOOLEAN]
  BY <1>1, Zenon
<1>7. armed' \in [Sessions -> BOOLEAN]
  <2>1. ASSUME NEW s \in Sessions PROVE (IF s \in W THEN s \notin writes ELSE armed[s]) \in BOOLEAN
    <3>1. armed[s] \in BOOLEAN
      BY DEF TypeOK
    <3>2. QED
      BY <3>1
  <2>2. QED
    BY <1>1, <2>1, Zenon
<1>8. QED
  BY <1>3, <1>4, <1>5, <1>6, <1>7

\* A counter that closes take from stays within its limit.
LEMMA LessByBound ==
  ASSUME NEW c \in Nat, NEW n \in Nat
  PROVE  LessBy(c, n) \in 0 .. c
BY DEF LessBy

\* cancelSession keeps the types of what it assigns.
LEMMA CancelType ==
  ASSUME TypeOK, NEW C \in SUBSET Sessions, CancelSessions(C)
  PROVE  /\ connections' \in 0 .. MaxConnections
         /\ streams' \in 0 .. MaxStreamClients
         /\ status' \in [Sessions -> {"free", "open", "finished"}]
         /\ armed' \in [Sessions -> BOOLEAN]
<1> DEFINE D == {s \in C : Open(s)}
           E == {s \in D : Streaming(s)}
<1>1. IsFiniteSet(D) /\ IsFiniteSet(E)
  BY SessionsAssumption, FS_Subset
<1>2. Cardinality(D) \in Nat /\ Cardinality(E) \in Nat
  BY <1>1, FS_CardinalityType
<1>3. connections' = LessBy(connections, Cardinality(D)) /\ streams' = LessBy(streams, Cardinality(E))
  BY DEF CancelSessions, CloseSession
<1> HIDE DEF D, E
<1>4. connections' \in 0 .. MaxConnections
  BY <1>2, <1>3, LimitsAssumption DEF TypeOK, LessBy
<1>5. streams' \in 0 .. MaxStreamClients
  BY <1>2, <1>3, LimitsAssumption DEF TypeOK, LessBy
<1>6. status' \in [Sessions -> {"free", "open", "finished"}]
  BY DEF CancelSessions, TypeOK
<1>7. armed' \in [Sessions -> BOOLEAN]
  BY Zenon DEF CancelSessions
<1>8. QED
  BY <1>4, <1>5, <1>6, <1>7

\* The encoder and the camera keep the types of the pipeline.
LEMMA PipelineType ==
  ASSUME TypeOK, PipelineNext
  PROVE  PipelineTypeOK' /\ posted' \in Seq(Kinds \cup {"stop"})
<1> USE DEF TypeOK, PipelineTypeOK
<1>1. CASE \E f \in Identities : PublishFrame(f)
  BY <1>1 DEF PublishFrame
<1>2. CASE EncoderTakes
  BY <1>2 DEF EncoderTakes, EncoderSteps, At
<1>3. CASE EncoderInvalidates
  BY <1>3 DEF EncoderInvalidates, EncoderSteps, At
<1>4. ASSUME NEW k \in {"COLOR", "DEPTH"}, EncoderPublishes(k)
      PROVE  PipelineTypeOK' /\ posted' \in Seq(Kinds \cup {"stop"})
  <2>1. encoder' \in EncoderSteps
    BY <1>4 DEF EncoderPublishes, EncoderSteps, At, AfterKind
  <2>2. CASE /\ k \in Kinds /\ Newer(encoded, preview[k])
             /\ preview' = [preview EXCEPT ![k] = encoded]
             /\ stale' = [stale EXCEPT ![k] = FALSE]
    BY <1>4, <2>1, <2>2 DEF EncoderPublishes
  <2>3. CASE UNCHANGED <<preview, stale>>
    BY <1>4, <2>1, <2>3 DEF EncoderPublishes
  <2>4. QED
    BY <1>4, <2>2, <2>3 DEF EncoderPublishes
<1>5. ASSUME NEW k \in Kinds, EncoderNotifies(k)
      PROVE  PipelineTypeOK' /\ posted' \in Seq(Kinds \cup {"stop"})
  <2>1. encoder' \in EncoderSteps
    BY <1>5, KindsAssumption DEF EncoderNotifies, EncoderSteps, At, AfterKind
  <2>2. posted' \in Seq(Kinds \cup {"stop"})
    BY <1>5, AppendProperties DEF EncoderNotifies
  <2>3. QED
    BY <1>5, <2>1, <2>2 DEF EncoderNotifies
<1>6. ASSUME NEW k \in Kinds, PreviewAges(k)
      PROVE  PipelineTypeOK' /\ posted' \in Seq(Kinds \cup {"stop"})
  BY <1>6 DEF PreviewAges
<1>7. QED
  BY <1>1, <1>2, <1>3, <1>4, <1>5, <1>6 DEF PipelineNext

\* Every step keeps the types.
LEMMA TypeStep ==
  ASSUME TypeOK, OperationInv, [Next]_vars
  PROVE  TypeOK'
<1> USE SessionsAssumption, LimitsAssumption
<1>1. CASE UNCHANGED vars
  <2>1. UNCHANGED <<pipelineVars, posted, started, acceptVars, countVars, server>>
        /\ UNCHANGED <<status, op, kind, frameVars, timerVars>>
    BY <1>1 DEF vars, sessionVars
  <2>2. QED
    BY <2>1 DEF TypeOK, PipelineTypeOK, pipelineVars, acceptVars, countVars, frameVars, timerVars
<1>2. CASE PipelineNext /\ UNCHANGED <<acceptVars, countVars, sessionVars, server>>
  <2>1. PipelineTypeOK' /\ posted' \in Seq(Kinds \cup {"stop"})
    BY <1>2, PipelineType
  <2>2. QED
    BY <1>2, <2>1 DEF TypeOK, acceptVars, countVars, sessionVars, frameVars, timerVars
<1>3. CASE ClientConnects \/ AcceptRefuses \/ StopServer \/ StopTimesOut \/ StopEnds
  <2>1. UNCHANGED <<pipelineVars, sessionVars>>
    BY <1>3 DEF ClientConnects, AcceptRefuses, StopServer, StopTimesOut, StopEnds
  <2>2. /\ accepting' \in BOOLEAN /\ connected' \in BOOLEAN
        /\ started' \in BOOLEAN
        /\ server' \in {"running", "stopping", "draining", "stopped"}
    BY <1>3 DEF ClientConnects, AcceptRefuses, StopServer, StopTimesOut, StopEnds, acceptVars,
                TypeOK, PipelineTypeOK
  <2>3. connections' \in 0 .. MaxConnections /\ streams' \in 0 .. MaxStreamClients
    BY <1>3 DEF ClientConnects, AcceptRefuses, StopServer, StopTimesOut, StopEnds, countVars,
                TypeOK
  <2>4. posted' \in Seq(Kinds \cup {"stop"})
    BY <1>3, AppendProperties, SMTT(30)
       DEF ClientConnects, AcceptRefuses, StopServer, StopTimesOut, StopEnds, TypeOK
  <2>5. QED
    BY <2>1, <2>2, <2>3, <2>4
       DEF TypeOK, PipelineTypeOK, pipelineVars, sessionVars, frameVars, timerVars
<1>4. ASSUME NEW s \in Sessions, AcceptsSession(s)
      PROVE  TypeOK'
  <2> USE <1>4 DEF AcceptsSession
  <2>1. connections' \in 0 .. MaxConnections
    BY DEF TypeOK
  <2>2. UNCHANGED <<pipelineVars, posted, started, accepting, streams, timerVars, server>>
        /\ connected' = FALSE
    OBVIOUS
  <2>3. /\ status' \in [Sessions -> {"free", "open", "finished"}]
        /\ op' \in [Sessions -> {"none", "read", "response", "header", "part"}]
        /\ kind' \in [Sessions -> Kinds \cup {None}]
    BY DEF TypeOK
  <2>4. /\ initial' \in [Sessions -> Identities \cup {None}]
        /\ pending' \in [Sessions -> Identities \cup {None}]
        /\ lastSent' \in [Sessions -> Identities \cup {None}]
    BY DEF TypeOK
  <2>5. refresh' \in [Sessions -> BOOLEAN] /\ parts' \in [Sessions -> 0 .. 2]
    BY DEF TypeOK
  <2> HIDE <1>4 DEF AcceptsSession
  <2>6. QED
    BY <2>1, <2>2, <2>3, <2>4, <2>5 DEF TypeOK, PipelineTypeOK, pipelineVars, timerVars
<1>5. CASE Notifies
  <2> DEFINE k == Head(posted)
  <2>1. k \in Kinds /\ posted' = Tail(posted) /\ posted # <<>>
    BY <1>5 DEF Notifies, NotifySessions
  <2>2. posted' \in Seq(Kinds \cup {"stop"})
    BY <2>1, HeadTailProperties DEF TypeOK
  <2>3. RefreshAfter(k) \in [Sessions -> BOOLEAN]
    <3>1. \A s \in Sessions : (refresh[s] \/ s \in Busy(k)) \in BOOLEAN
      OBVIOUS
    <3>2. QED
      BY <3>1, Zenon DEF RefreshAfter
  <2>4. WriteLatestStreamFrame(Idle(k), lastSent, op, RefreshAfter(k))
    BY <1>5 DEF Notifies, NotifySessions
  <2>5. Idle(k) \in SUBSET Sessions /\ \A s \in Idle(k) : kind[s] \in Kinds
    BY <2>1 DEF Idle
  <2>6. op \in [Sessions -> Operations]
    BY DEF TypeOK, Operations
  <2> HIDE DEF k
  <2>7. /\ op' \in [Sessions -> Operations]
        /\ pending' \in [Sessions -> Identities \cup {None}]
        /\ initial' \in [Sessions -> Identities \cup {None}]
        /\ refresh' \in [Sessions -> BOOLEAN]
        /\ armed' \in [Sessions -> BOOLEAN]
    BY <2>3, <2>4, <2>5, <2>6, WriteType
  <2>8. UNCHANGED <<pipelineVars, acceptVars, countVars, status, kind, lastSent, parts, fired,
                    started, server>>
    BY <1>5 DEF Notifies, NotifySessions
  <2>9. QED
    BY <2>2, <2>7, <2>8
       DEF TypeOK, PipelineTypeOK, Operations, pipelineVars, acceptVars, countVars
<1>6. CASE StopsOnIoThread
  <2>1. CancelSessions({s \in Sessions : Open(s)}) /\ posted' = Tail(posted) /\ posted # <<>>
        /\ accepting' = FALSE
        /\ UNCHANGED <<pipelineVars, connected, started, op, kind, frameVars, fired, server>>
    BY <1>6 DEF StopsOnIoThread, StopOnIoThread
  <2>2. posted' \in Seq(Kinds \cup {"stop"})
    BY <2>1, HeadTailProperties DEF TypeOK
  <2>3. {s \in Sessions : Open(s)} \in SUBSET Sessions
    OBVIOUS
  <2>4. /\ connections' \in 0 .. MaxConnections
        /\ streams' \in 0 .. MaxStreamClients
        /\ status' \in [Sessions -> {"free", "open", "finished"}]
        /\ armed' \in [Sessions -> BOOLEAN]
    BY <2>1, <2>3, CancelType
  <2>5. QED
    BY <2>1, <2>2, <2>4 DEF TypeOK, PipelineTypeOK, pipelineVars, frameVars
<1>7. ASSUME NEW s \in Sessions, SessionStep(s), IoFrame
      PROVE  TypeOK'
  <2>0. {s} \in SUBSET Sessions
    OBVIOUS
  <2>1. CASE Ends(s)
    <3>1. CancelSessions({s}) /\ op' = [op EXCEPT ![s] = "none"] /\ UNCHANGED <<kind, frameVars, fired>>
      BY <2>1 DEF Ends, EndsSession
    <3>2. /\ connections' \in 0 .. MaxConnections
          /\ streams' \in 0 .. MaxStreamClients
          /\ status' \in [Sessions -> {"free", "open", "finished"}]
          /\ armed' \in [Sessions -> BOOLEAN]
      BY <2>0, <3>1, CancelType
    <3>3. QED
      BY <1>7, <3>1, <3>2 DEF IoFrame, TypeOK, PipelineTypeOK, pipelineVars, acceptVars, frameVars
  <2>2. CASE Responds(s)
    BY <1>7, <2>2 DEF Responds, SendResponse, IoFrame, TypeOK, PipelineTypeOK, pipelineVars,
                      acceptVars, countVars, frameVars, timerVars
  <2>3. ASSUME NEW k \in Kinds, Streams(s, k)
        PROVE  TypeOK'
    <3>1. AcquireFreshPreview(k) \in Identities \cup {None}
      BY PreviewType
    <3>2. streams' \in 0 .. MaxStreamClients
      BY <2>3 DEF Streams, StartStream, AdmitStream, TypeOK
    <3>3. QED
      BY <1>7, <2>3, <3>1, <3>2
         DEF Streams, StartStream, IoFrame, TypeOK, PipelineTypeOK, pipelineVars, acceptVars,
             timerVars
  <2>4. CASE HeaderDone(s)
    <3>1. [op EXCEPT ![s] = "none"] \in [Sessions -> Operations] /\ refresh \in [Sessions -> BOOLEAN]
      BY DEF TypeOK, Operations
    <3>2. \A t \in {s} : kind[t] \in Kinds
      BY <2>4 DEF HeaderDone, OperationInv, Streaming, TypeOK
    <3>3. WriteLatestStreamFrame({s}, lastSent, [op EXCEPT ![s] = "none"], refresh)
      BY <2>4 DEF HeaderDone
    <3>4. /\ op' \in [Sessions -> Operations]
          /\ pending' \in [Sessions -> Identities \cup {None}]
          /\ initial' \in [Sessions -> Identities \cup {None}]
          /\ refresh' \in [Sessions -> BOOLEAN]
          /\ armed' \in [Sessions -> BOOLEAN]
      BY <2>0, <3>1, <3>2, <3>3, WriteType
    <3>5. UNCHANGED <<countVars, status, kind, lastSent, parts, fired>>
      BY <2>4 DEF HeaderDone
    <3>6. QED
      BY <1>7, <3>4, <3>5
         DEF IoFrame, TypeOK, PipelineTypeOK, Operations, pipelineVars, acceptVars, countVars
  <2>5. CASE PartDone(s) /\ (PartDoneRefreshes(s) \/ PartDoneWaits(s))
    <3>1. /\ UNCHANGED <<countVars, status, kind, fired>>
          /\ lastSent' \in [Sessions -> Identities \cup {None}]
          /\ parts' \in [Sessions -> 0 .. 2]
      BY <2>5 DEF PartDone, TypeOK
    <3>2. /\ op' \in [Sessions -> Operations]
          /\ pending' \in [Sessions -> Identities \cup {None}]
          /\ initial' \in [Sessions -> Identities \cup {None}]
          /\ refresh' \in [Sessions -> BOOLEAN]
          /\ armed' \in [Sessions -> BOOLEAN]
      <4>1. CASE PartDoneWaits(s)
        BY <4>1 DEF PartDoneWaits, TypeOK, Operations
      <4>2. CASE PartDoneRefreshes(s)
        <5>1. /\ [op EXCEPT ![s] = "none"] \in [Sessions -> Operations]
              /\ [refresh EXCEPT ![s] = FALSE] \in [Sessions -> BOOLEAN]
          BY DEF TypeOK, Operations
        <5>2. \A t \in {s} : kind[t] \in Kinds
          BY <2>5 DEF PartDone, OperationInv, Streaming, TypeOK
        <5>3. WriteLatestStreamFrame({s}, lastSent', [op EXCEPT ![s] = "none"],
                                     [refresh EXCEPT ![s] = FALSE])
          BY <4>2 DEF PartDoneRefreshes
        <5>4. QED
          BY <2>0, <5>1, <5>2, <5>3, WriteType
      <4>3. QED
        BY <2>5, <4>1, <4>2
    <3>3. QED
      BY <1>7, <3>1, <3>2
         DEF IoFrame, TypeOK, PipelineTypeOK, Operations, pipelineVars, acceptVars, countVars
  <2>6. CASE Expires(s)
    BY <1>7, <2>6 DEF Expires, TimerExpires, IoFrame, TypeOK, PipelineTypeOK, pipelineVars,
                      acceptVars, countVars, frameVars
  <2>7. CASE TimesOut(s)
    <3>1. CancelSessions({s}) /\ fired' = [fired EXCEPT ![s] = FALSE] /\ UNCHANGED <<op, kind, frameVars>>
      BY <2>7 DEF TimesOut, IdleTimeout
    <3>2. /\ connections' \in 0 .. MaxConnections
          /\ streams' \in 0 .. MaxStreamClients
          /\ status' \in [Sessions -> {"free", "open", "finished"}]
          /\ armed' \in [Sessions -> BOOLEAN]
      BY <2>0, <3>1, CancelType
    <3>3. QED
      BY <1>7, <3>1, <3>2 DEF IoFrame, TypeOK, PipelineTypeOK, pipelineVars, acceptVars, frameVars
  <2>8. QED
    BY <1>4, <1>7, <2>1, <2>2, <2>3, <2>4, <2>5, <2>6, <2>7
       DEF SessionStep, PartDoneRefreshes, PartDoneWaits
<1>8. QED
  <2>1. ASSUME NEW s \in Sessions, SessionHandler(s)
        PROVE  TypeOK'
    BY <1>7, <2>1, HandlerCases
  <2>2. QED
    BY <1>1, <1>2, <1>3, <1>4, <1>5, <1>6, <2>1
       DEF Next, IoStep, AcceptHandler, PostedHandler, Notifies, StopsOnIoThread

-----------------------------------------------------------------------------
(***************************************************************************)
(* The stop, the timer and the operations of a session.                    *)
(***************************************************************************)
\* What the tail of a queue holds, the queue held one place later.
LEMMA TailElements ==
  ASSUME TypeOK, posted # <<>>
  PROVE  /\ Len(posted) \in Nat \ {0}
         /\ Len(Tail(posted)) = Len(posted) - 1
         /\ Head(posted) = posted[1]
         /\ \A i \in 1 .. Len(Tail(posted)) : Tail(posted)[i] = posted[i + 1]
BY HeadTailProperties DEF TypeOK

\* What is appended is at the end, and the rest stays where it is.
LEMMA AppendElements ==
  ASSUME TypeOK, NEW e \in Kinds \cup {"stop"}
  PROVE  /\ Len(posted) \in Nat
         /\ Len(Append(posted, e)) = Len(posted) + 1
         /\ Append(posted, e)[Len(posted) + 1] = e
         /\ \A i \in 1 .. Len(posted) : Append(posted, e)[i] = posted[i]
BY AppendProperties, LenProperties DEF TypeOK

\* Only stopServer posts the handler that ends the sessions.
LEMMA ServerStep ==
  ASSUME TypeOK, ServerInv, [Next]_vars
  PROVE  ServerInv'
<1> USE DEF ServerInv
<1>1. CASE UNCHANGED <<posted, started, server>>
  BY <1>1
<1>2. CASE PipelineNext /\ UNCHANGED server
  <2>1. started' = started
    BY <1>2 DEF PipelineNext, PublishFrame, EncoderTakes, EncoderInvalidates, EncoderPublishes,
                EncoderNotifies, PreviewAges
  <2>2. CASE posted' = posted
    BY <1>2, <2>1, <2>2
  <2>3. ASSUME NEW k \in Kinds, posted' = Append(posted, k)
        PROVE  ServerInv'
    <3>1. k # "stop"
      BY KindsAssumption
    <3>2. QED
      BY <1>2, <2>1, <2>3, <3>1, AppendElements
  <2>4. QED
    BY <1>2, <2>2, <2>3 DEF PipelineNext, PublishFrame, EncoderTakes, EncoderInvalidates,
                            EncoderPublishes, EncoderNotifies, PreviewAges
<1>3. CASE StopServer \/ StopTimesOut \/ StopEnds
  BY <1>3 DEF StopServer, StopTimesOut, StopEnds
<1>4. CASE posted # <<>> /\ posted' = Tail(posted) /\ UNCHANGED <<started, server>>
  BY <1>4, TailElements
<1>5. CASE \E s \in Sessions : SessionHandler(s)
  BY <1>1, <1>5 DEF SessionHandler
<1>6. QED
  BY <1>1, <1>2, <1>3, <1>4, <1>5
     DEF Next, vars, ClientConnects, IoStep, AcceptHandler, AcceptRefuses, AcceptsSession,
         PostedHandler, NotifySessions, StopOnIoThread

\* Nothing of session t changes.
Untouched(t) ==
  /\ status'[t] = status[t] /\ op'[t] = op[t] /\ kind'[t] = kind[t]
  /\ initial'[t] = initial[t] /\ pending'[t] = pending[t] /\ lastSent'[t] = lastSent[t]
  /\ parts'[t] = parts[t]
  /\ refresh'[t] <=> refresh[t]
  /\ armed'[t] <=> armed[t]
  /\ fired'[t] <=> fired[t]

\* What writeLatestStreamFrame does to session t, which is in W or not.
Writes(t) ==
  op'[t] = "part" /\ pending'[t] = FrameToSend(t) /\ initial'[t] = None
  /\ ~refresh'[t] /\ ~armed'[t]
WaitsOn(t, o, r) ==
  op'[t] = o /\ pending'[t] = pending[t] /\ initial'[t] = None
  /\ (refresh'[t] <=> r) /\ armed'[t]
LeftAlone(t, o, r) ==
  op'[t] = o /\ pending'[t] = pending[t] /\ initial'[t] = initial[t]
  /\ (refresh'[t] <=> r) /\ (armed'[t] <=> armed[t])

\* writeLatestStreamFrame, session by session.
LEMMA WriteEffect ==
  ASSUME NEW W \in SUBSET Sessions, NEW sent, NEW ops, NEW wanted,
         WriteLatestStreamFrame(W, sent, ops, wanted),
         NEW t \in Sessions
  PROVE  /\ t \in W /\ HasFrameToSend(t, sent[t]) => Writes(t)
         /\ t \in W /\ ~HasFrameToSend(t, sent[t]) => WaitsOn(t, ops[t], wanted[t])
         /\ t \notin W => LeftAlone(t, ops[t], wanted[t])
<1> DEFINE writes == {s \in W : HasFrameToSend(s, sent[s])}
<1>1. /\ op' = [s \in Sessions |-> IF s \in writes THEN "part" ELSE ops[s]]
      /\ pending' = [s \in Sessions |-> IF s \in writes THEN FrameToSend(s) ELSE pending[s]]
      /\ initial' = [s \in Sessions |-> IF s \in W THEN None ELSE initial[s]]
      /\ refresh' = [s \in Sessions |-> wanted[s] /\ s \notin writes]
      /\ armed' = [s \in Sessions |-> IF s \in W THEN s \notin writes ELSE armed[s]]
  BY DEF WriteLatestStreamFrame
<1>2. /\ t \in writes <=> t \in W /\ HasFrameToSend(t, sent[t])
  OBVIOUS
<1> HIDE DEF writes
<1>3. /\ op'[t] = (IF t \in writes THEN "part" ELSE ops[t])
      /\ pending'[t] = (IF t \in writes THEN FrameToSend(t) ELSE pending[t])
      /\ initial'[t] = (IF t \in W THEN None ELSE initial[t])
  BY <1>1
<1>4. refresh'[t] = (wanted[t] /\ t \notin writes)
  BY <1>1, Zenon
<1>5. armed'[t] = (IF t \in W THEN t \notin writes ELSE armed[t])
  BY <1>1, Zenon
<1>6. CASE t \in writes
  BY <1>2, <1>3, <1>4, <1>5, <1>6 DEF Writes
<1>7. CASE t \in W /\ t \notin writes
  BY <1>2, <1>3, <1>4, <1>5, <1>7 DEF WaitsOn
<1>8. CASE t \notin W
  BY <1>2, <1>3, <1>4, <1>5, <1>8 DEF LeftAlone
<1>9. QED
  BY <1>2, <1>6, <1>7, <1>8

\* cancelSession, session by session.
LEMMA CancelEffect ==
  ASSUME TypeOK, NEW C \in SUBSET Sessions, CancelSessions(C), NEW t \in Sessions
  PROVE  /\ t \in C => status'[t] # "open" /\ ~armed'[t]
         /\ t \notin C => status'[t] = status[t] /\ (armed'[t] <=> armed[t])
<1>1. status'[t] = (IF t \in C /\ Open(t) THEN "finished" ELSE status[t])
  BY DEF CancelSessions
<1>2. armed'[t] = (armed[t] /\ t \notin C)
  BY Zenon DEF CancelSessions
<1>3. QED
  BY <1>1, <1>2 DEF Open

\* A step of one session leaves the others alone.
LEMMA OthersUntouched ==
  ASSUME TypeOK, NEW s \in Sessions, NEW t \in Sessions, s # t, SessionStep(s)
  PROVE  Untouched(t)
<1>0. {s} \in SUBSET Sessions /\ t \notin {s}
  OBVIOUS
<1> USE DEF frameVars, timerVars
<1>1. CASE AcceptsSession(s)
  BY <1>1 DEF AcceptsSession, TypeOK, Untouched
<1>2. CASE Ends(s)
  <2>1. CancelSessions({s}) /\ op' = [op EXCEPT ![s] = "none"] /\ UNCHANGED <<kind, frameVars, fired>>
    BY <1>2 DEF Ends, EndsSession
  <2>2. status'[t] = status[t] /\ (armed'[t] <=> armed[t])
    BY <1>0, <2>1, CancelEffect
  <2>3. QED
    BY <2>1, <2>2 DEF TypeOK, Untouched
<1>3. CASE Responds(s)
  BY <1>3 DEF Responds, SendResponse, TypeOK, Untouched
<1>4. CASE \E k \in Kinds : Streams(s, k)
  BY <1>4 DEF Streams, StartStream, TypeOK, Untouched
<1>5. CASE HeaderDone(s)
  <2>1. LeftAlone(t, [op EXCEPT ![s] = "none"][t], refresh[t])
    BY <1>0, <1>5, WriteEffect DEF HeaderDone
  <2>2. [op EXCEPT ![s] = "none"][t] = op[t]
    BY DEF TypeOK
  <2>3. QED
    BY <1>5, <2>1, <2>2 DEF HeaderDone, LeftAlone, Untouched
<1>6. CASE PartDoneRefreshes(s)
  <2>1. LeftAlone(t, [op EXCEPT ![s] = "none"][t], [refresh EXCEPT ![s] = FALSE][t])
    BY <1>0, <1>6, WriteEffect DEF PartDoneRefreshes
  <2>2. [op EXCEPT ![s] = "none"][t] = op[t] /\ [refresh EXCEPT ![s] = FALSE][t] = refresh[t]
    BY DEF TypeOK
  <2>3. lastSent'[t] = lastSent[t] /\ parts'[t] = parts[t] /\ UNCHANGED <<status, kind, fired>>
    BY <1>6 DEF PartDoneRefreshes, PartDone, TypeOK
  <2>4. QED
    BY <2>1, <2>2, <2>3 DEF LeftAlone, Untouched
<1>7. CASE PartDoneWaits(s)
  BY <1>7 DEF PartDoneWaits, PartDone, TypeOK, Untouched
<1>8. CASE Expires(s)
  BY <1>8 DEF Expires, TimerExpires, TypeOK, Untouched
<1>9. CASE TimesOut(s)
  <2>1. CancelSessions({s}) /\ fired' = [fired EXCEPT ![s] = FALSE] /\ UNCHANGED <<op, kind, frameVars>>
    BY <1>9 DEF TimesOut, IdleTimeout
  <2>2. status'[t] = status[t] /\ (armed'[t] <=> armed[t])
    BY <1>0, <2>1, CancelEffect
  <2>3. QED
    BY <2>1, <2>2 DEF TypeOK, Untouched
<1>10. QED
  BY <1>1, <1>2, <1>3, <1>4, <1>5, <1>6, <1>7, <1>8, <1>9 DEF SessionStep

\* The parts of the invariant that are about one session.
SessionInv(t) ==
  /\ armed[t] => status[t] = "open" /\ kind[t] # None /\ op[t] = "none"
  /\ fired[t] => kind[t] # None /\ op[t] \in {"none", "part"}
  /\ op[t] \in {"read", "response"} => kind[t] = None
  /\ op[t] \in {"header", "part"} => kind[t] # None
  /\ op[t] \in {"read", "header"} => parts[t] = 0
  /\ op[t] = "part" \/ (status[t] = "open" /\ kind[t] # None /\ op[t] = "none") => initial[t] = None
  /\ status[t] = "open" => op[t] # "none" \/ armed[t] \/ fired[t]
  /\ op[t] = "part" /\ lastSent[t] # None => IsNewer(pending[t], lastSent[t])

\* They are the invariants of all sessions, session by session.
LEMMA SessionInvs ==
  (\A t \in Sessions : SessionInv(t)) <=>
    TimerInv /\ OperationInv /\ SessionHasHandler /\ PartsGetNewer
BY DEF SessionInv, TimerInv, OperationInv, SessionHasHandler, PartsGetNewer, Open, Streaming, Waiting

\* A stream that writes the newest frame keeps them.
LEMMA WriteKeeps ==
  ASSUME TypeOK, NEW t \in Sessions, SessionInv(t),
         status[t] = "open", kind[t] # None,
         NEW sent, lastSent'[t] = sent, UNCHANGED <<status, kind>>,
         fired'[t] <=> fired[t], fired[t] => op[t] \in {"none", "part"},
         \/ HasFrameToSend(t, sent) /\ Writes(t)
         \/ \E r : WaitsOn(t, "none", r)
  PROVE  SessionInv(t)'
<1>1. CASE HasFrameToSend(t, sent) /\ Writes(t)
  <2>1. lastSent'[t] # None => IsNewer(pending'[t], lastSent'[t])
    BY <1>1 DEF Writes, HasFrameToSend, Newer
  <2>2. QED
    BY <1>1, <2>1 DEF Writes, SessionInv
<1>2. CASE \E r : WaitsOn(t, "none", r)
  BY <1>2 DEF WaitsOn, SessionInv
<1>3. QED
  BY <1>1, <1>2

\* A session keeps them in its own steps.
LEMMA OwnStep ==
  ASSUME TypeOK, NEW s \in Sessions, SessionInv(s), SessionStep(s)
  PROVE  SessionInv(s)'
<1>0. {s} \in SUBSET Sessions /\ s \in {s}
  OBVIOUS
<1> USE DEF frameVars, timerVars
<1>1. CASE AcceptsSession(s)
  BY <1>1 DEF AcceptsSession, Gone, Open, TypeOK, SessionInv
<1>2. CASE Ends(s)
  <2>1. CancelSessions({s}) /\ op' = [op EXCEPT ![s] = "none"] /\ UNCHANGED <<kind, frameVars, fired>>
    BY <1>2 DEF Ends, EndsSession
  <2>2. status'[s] # "open" /\ ~armed'[s]
    BY <1>0, <2>1, CancelEffect
  <2>3. QED
    BY <2>1, <2>2 DEF TypeOK, SessionInv
<1>3. CASE Responds(s)
  BY <1>3 DEF Responds, SendResponse, TypeOK, SessionInv
<1>4. CASE \E k \in Kinds : Streams(s, k)
  BY <1>4, KindsAssumption DEF Streams, StartStream, TypeOK, SessionInv
<1>5. CASE HeaderDone(s)
  <2>1. /\ HasFrameToSend(s, lastSent[s]) => Writes(s)
        /\ ~HasFrameToSend(s, lastSent[s]) => WaitsOn(s, [op EXCEPT ![s] = "none"][s], refresh[s])
    BY <1>0, <1>5, WriteEffect DEF HeaderDone
  <2>2. [op EXCEPT ![s] = "none"][s] = "none"
    BY DEF TypeOK
  <2>3. /\ status[s] = "open" /\ kind[s] # None /\ ~fired[s]
        /\ UNCHANGED <<status, kind, lastSent, fired>>
    BY <1>5 DEF HeaderDone, Open, SessionInv
  <2>4. QED
    BY <2>1, <2>2, <2>3, WriteKeeps
<1>6. CASE PartDoneRefreshes(s)
  <2>1. /\ HasFrameToSend(s, lastSent'[s]) => Writes(s)
        /\ ~HasFrameToSend(s, lastSent'[s]) =>
             WaitsOn(s, [op EXCEPT ![s] = "none"][s], [refresh EXCEPT ![s] = FALSE][s])
    BY <1>0, <1>6, WriteEffect DEF PartDoneRefreshes
  <2>2. [op EXCEPT ![s] = "none"][s] = "none"
    BY DEF TypeOK
  <2>3. /\ status[s] = "open" /\ kind[s] # None /\ op[s] = "part"
        /\ UNCHANGED <<status, kind, fired>>
    BY <1>6 DEF PartDoneRefreshes, PartDone, Open, SessionInv
  <2>4. QED
    BY <2>1, <2>2, <2>3, WriteKeeps
<1>7. CASE PartDoneWaits(s)
  BY <1>7 DEF PartDoneWaits, PartDone, Open, TypeOK, SessionInv
<1>8. CASE Expires(s)
  BY <1>8 DEF Expires, TimerExpires, TypeOK, SessionInv
<1>9. CASE TimesOut(s)
  <2>1. CancelSessions({s}) /\ fired' = [fired EXCEPT ![s] = FALSE] /\ UNCHANGED <<op, kind, frameVars>>
    BY <1>9 DEF TimesOut, IdleTimeout
  <2>2. status'[s] # "open" /\ ~armed'[s]
    BY <1>0, <2>1, CancelEffect
  <2>3. QED
    BY <2>1, <2>2 DEF TypeOK, SessionInv
<1>10. QED
  BY <1>1, <1>2, <1>3, <1>4, <1>5, <1>6, <1>7, <1>8, <1>9 DEF SessionStep

\* A session that is not touched keeps them.
LEMMA UntouchedKeeps ==
  ASSUME NEW t, SessionInv(t), Untouched(t)
  PROVE  SessionInv(t)'
BY DEF SessionInv, Untouched

\* notifySessions does to session t: a stream of the kind that waits tries to
\* write, one that writes is told, the others are left alone.
LEMMA NotifyEffect ==
  ASSUME TypeOK, Notifies, NEW t \in Sessions, SessionInv(t), NEW k, k = Head(posted)
  PROVE  /\ k \in Kinds
         /\ UNCHANGED <<status, kind, lastSent, parts, fired, started, server, pipelineVars>>
         /\ \/ /\ status[t] = "open" /\ kind[t] = k /\ op[t] = "none"
               /\ \/ HasFrameToSend(t, lastSent[t]) /\ Writes(t)
                  \/ ~HasFrameToSend(t, lastSent[t]) /\ \E r : WaitsOn(t, "none", r)
            \/ /\ status[t] = "open" /\ kind[t] = k /\ op[t] \in {"header", "part"}
               /\ LeftAlone(t, op[t], TRUE)
            \/ /\ status[t] # "open" \/ kind[t] # k
               /\ LeftAlone(t, op[t], refresh[t])
<1>1. k \in Kinds /\ WriteLatestStreamFrame(Idle(k), lastSent, op, RefreshAfter(k))
      /\ UNCHANGED <<status, kind, lastSent, parts, fired, started, server, pipelineVars>>
  BY DEF Notifies, NotifySessions
<1>2. Idle(k) \in SUBSET Sessions
  BY DEF Idle
<1>3. /\ t \in Idle(k) /\ HasFrameToSend(t, lastSent[t]) => Writes(t)
      /\ t \in Idle(k) /\ ~HasFrameToSend(t, lastSent[t]) => WaitsOn(t, op[t], RefreshAfter(k)[t])
      /\ t \notin Idle(k) => LeftAlone(t, op[t], RefreshAfter(k)[t])
  BY <1>1, <1>2, WriteEffect
<1>4. RefreshAfter(k)[t] = (refresh[t] \/ t \in Busy(k))
  BY Zenon DEF RefreshAfter
<1>5. t \in Busy(k) <=> status[t] = "open" /\ kind[t] = k /\ op[t] \in {"header", "part"}
  BY DEF Busy, Open, WriteInProgress
<1>6. t \in Idle(k) <=> status[t] = "open" /\ kind[t] = k /\ op[t] \notin {"header", "part"}
  BY DEF Idle, Open, WriteInProgress
<1>7. CASE t \in Idle(k)
  <2>1. kind[t] # None
    BY <1>1, <1>6, <1>7, KindsAssumption
  <2>2. op[t] = "none"
    BY <1>6, <1>7, <2>1 DEF SessionInv, TypeOK
  <2>3. QED
    BY <1>1, <1>3, <1>6, <1>7, <2>2
<1>8. CASE t \in Busy(k)
  <2>1. LeftAlone(t, op[t], RefreshAfter(k)[t]) /\ RefreshAfter(k)[t]
    BY <1>3, <1>4, <1>5, <1>6, <1>8
  <2>2. LeftAlone(t, op[t], TRUE)
    BY <2>1 DEF LeftAlone
  <2>3. QED
    BY <1>1, <1>5, <1>8, <2>2
<1>9. CASE t \notin Idle(k) /\ t \notin Busy(k)
  <2>1. LeftAlone(t, op[t], RefreshAfter(k)[t]) /\ (RefreshAfter(k)[t] <=> refresh[t])
    BY <1>3, <1>4, <1>9
  <2>2. LeftAlone(t, op[t], refresh[t])
    BY <2>1 DEF LeftAlone
  <2>3. QED
    BY <1>1, <1>5, <1>6, <1>9, <2>2
<1>10. QED
  BY <1>7, <1>8, <1>9

\* Every step keeps the invariants of every session.
LEMMA SessionInvStep ==
  ASSUME TypeOK, \A t \in Sessions : SessionInv(t), [Next]_vars
  PROVE  \A t \in Sessions : SessionInv(t)'
<1> SUFFICES ASSUME NEW t \in Sessions PROVE SessionInv(t)'
  OBVIOUS
<1>1. CASE Idles
  BY <1>1 DEF Idles, sessionVars, frameVars, timerVars, SessionInv
<1>2. CASE Notifies
  <2>1. PICK k : k = Head(posted)
    OBVIOUS
  <2>2. UNCHANGED <<status, kind, lastSent, parts, fired>> /\ k \in Kinds
    BY <1>2, <2>1, NotifyEffect
  <2>3. CASE /\ status[t] = "open" /\ kind[t] = k /\ op[t] = "none"
             /\ \/ HasFrameToSend(t, lastSent[t]) /\ Writes(t)
                \/ \E r : WaitsOn(t, "none", r)
    BY <2>2, <2>3, WriteKeeps, KindsAssumption
  <2>4. CASE \E r : LeftAlone(t, op[t], r)
    BY <2>2, <2>4 DEF LeftAlone, SessionInv
  <2>5. QED
    BY <1>2, <2>1, <2>3, <2>4, NotifyEffect
<1>3. CASE StopsOnIoThread
  <2>1. CancelSessions({s \in Sessions : Open(s)}) /\ UNCHANGED <<op, kind, frameVars, fired>>
    BY <1>3 DEF StopsOnIoThread, StopOnIoThread
  <2>2. status'[t] # "open"
    BY <2>1, CancelEffect DEF Open
  <2>3. armed'[t] => armed[t] /\ status[t] # "open"
    BY <2>1, CancelEffect DEF Open
  <2>4. QED
    BY <2>1, <2>2, <2>3 DEF SessionInv, frameVars
<1>4. ASSUME NEW s \in Sessions, SessionStep(s)
      PROVE  SessionInv(t)'
  BY <1>4, OwnStep, OthersUntouched, UntouchedKeeps
<1>5. QED
  BY <1>1, <1>2, <1>3, <1>4, StepCases

-----------------------------------------------------------------------------
(***************************************************************************)
(* The counters.                                                           *)
(***************************************************************************)
\* A server that runs after a step ran before it, and the step is not the one
\* that stops every session.
LEMMA StillRunning ==
  ASSUME TypeOK, ServerInv, [Next]_vars, server' = "running"
  PROVE  server = "running" /\ ~StopsOnIoThread
<1>1. server = "running"
  <2>1. CASE \E s \in Sessions : SessionHandler(s)
    BY <2>1 DEF SessionHandler
  <2>2. CASE StopServer \/ StopTimesOut \/ StopEnds
    BY <2>2 DEF StopServer, StopTimesOut, StopEnds
  <2>3. CASE AcceptHandler \/ PostedHandler
    BY <2>3 DEF AcceptHandler, AcceptRefuses, AcceptsSession, PostedHandler, NotifySessions,
                StopOnIoThread
  <2>4. QED
    BY <2>1, <2>2, <2>3 DEF Next, vars, ClientConnects, IoStep
<1>2. ASSUME StopsOnIoThread
      PROVE  FALSE
  <2>1. posted # <<>> /\ Head(posted) = "stop"
    BY <1>2 DEF StopsOnIoThread, StopOnIoThread
  <2>2. 1 \in 1 .. Len(posted) /\ posted[1] = "stop"
    BY <2>1, TailElements
  <2>3. QED
    BY <1>1, <2>2 DEF ServerInv
<1>3. QED
  BY <1>1, <1>2

\* While the server runs, a session that reads is open.
LEMMA ReadStep ==
  ASSUME TypeOK, ServerInv, ReadInv, \A t \in Sessions : SessionInv(t), [Next]_vars
  PROVE  ReadInv'
<1> SUFFICES ASSUME server' = "running", NEW t \in Sessions, op'[t] = "read"
             PROVE  status'[t] = "open"
  BY DEF ReadInv, Open
<1>1. server = "running" /\ ~StopsOnIoThread
  BY StillRunning
<1>2. op[t] = "read" => status[t] = "open"
  BY <1>1 DEF ReadInv, Open
<1>3. CASE Idles
  BY <1>2, <1>3 DEF Idles, sessionVars
<1>4. CASE Notifies
  <2>1. UNCHANGED status
    BY <1>4, NotifyEffect
  <2>2. op'[t] = op[t]
    BY <1>4, NotifyEffect DEF Writes, WaitsOn, LeftAlone
  <2>3. QED
    BY <1>2, <2>1, <2>2
<1>5. ASSUME NEW s \in Sessions, SessionStep(s), s # t
      PROVE  status'[t] = "open"
  BY <1>2, <1>5, OthersUntouched DEF Untouched
<1>6. CASE SessionStep(t)
  <2>0. {t} \in SUBSET Sessions /\ t \in {t}
    OBVIOUS
  <2>1. CASE AcceptsSession(t)
    BY <2>1 DEF AcceptsSession, TypeOK
  <2>2. CASE Ends(t)
    BY <2>2 DEF Ends, EndsSession, TypeOK
  <2>3. CASE Responds(t)
    BY <2>3 DEF Responds, SendResponse, TypeOK
  <2>4. CASE \E k \in Kinds : Streams(t, k)
    BY <2>4 DEF Streams, StartStream, TypeOK
  <2>5. CASE HeaderDone(t)
    <3>1. UNCHANGED status /\ status[t] = "open"
      BY <2>5 DEF HeaderDone, Open
    <3>2. QED
      BY <3>1
  <2>6. CASE PartDone(t)
    <3>1. UNCHANGED status /\ status[t] = "open"
      BY <2>6 DEF PartDone, Open
    <3>2. QED
      BY <3>1
  <2>7. CASE Expires(t)
    BY <1>2, <2>7 DEF Expires, TimerExpires
  <2>8. CASE TimesOut(t)
    <3>1. fired[t] /\ op' = op
      BY <2>8 DEF TimesOut, IdleTimeout
    <3>2. QED
      BY <3>1 DEF SessionInv
  <2>9. QED
    BY <1>6, <2>1, <2>2, <2>3, <2>4, <2>5, <2>6, <2>7, <2>8
       DEF SessionStep, PartDoneRefreshes, PartDoneWaits
<1>7. QED
  BY <1>1, <1>3, <1>4, <1>5, <1>6, StepCases

OpenSet == {s \in Sessions : Open(s)}
StreamSet == {s \in Sessions : Open(s) /\ Streaming(s)}

\* Both are finite.
LEMMA CountedAreFinite ==
  IsFiniteSet(OpenSet) /\ IsFiniteSet(StreamSet)
BY SessionsAssumption, FS_Subset DEF OpenSet, StreamSet

\* A step that leaves status and kind alone leaves them alone.
LEMMA SameSets ==
  ASSUME UNCHANGED <<status, kind>>
  PROVE  OpenSet' = OpenSet /\ StreamSet' = StreamSet
BY DEF OpenSet, StreamSet, Open, Streaming

\* The end of one session: each counter goes down by what leaves its set.
LEMMA CancelCounts ==
  ASSUME TypeOK, NEW s \in Sessions, CancelSessions({s}), UNCHANGED kind,
         connections = Cardinality(OpenSet), streams = Cardinality(StreamSet)
  PROVE  connections' = Cardinality(OpenSet') /\ streams' = Cardinality(StreamSet')
<1> DEFINE D == {t \in {s} : Open(t)}
           E == {t \in D : Streaming(t)}
<1>1. connections' = LessBy(connections, Cardinality(D)) /\ streams' = LessBy(streams, Cardinality(E))
  BY DEF CancelSessions, CloseSession
<1>2. status' = [t \in Sessions |-> IF t \in {s} /\ Open(t) THEN "finished" ELSE status[t]]
  BY DEF CancelSessions
<1>3. OpenSet' = OpenSet \ {s} /\ StreamSet' = StreamSet \ {s}
  BY <1>2 DEF OpenSet, StreamSet, Open, Streaming
<1>4. /\ D = IF s \in OpenSet THEN {s} ELSE {}
      /\ E = IF s \in StreamSet THEN {s} ELSE {}
  BY DEF OpenSet, StreamSet
<1>5. Cardinality({s}) = 1 /\ Cardinality({}) = 0
  BY FS_Singleton, FS_EmptySet
<1>6. /\ Cardinality(OpenSet) \in Nat /\ Cardinality(StreamSet) \in Nat
      /\ Cardinality(OpenSet \ {s}) =
           IF s \in OpenSet THEN Cardinality(OpenSet) - 1 ELSE Cardinality(OpenSet)
      /\ Cardinality(StreamSet \ {s}) =
           IF s \in StreamSet THEN Cardinality(StreamSet) - 1 ELSE Cardinality(StreamSet)
      /\ Cardinality(OpenSet \ {s}) \in Nat /\ Cardinality(StreamSet \ {s}) \in Nat
  BY CountedAreFinite, FS_RemoveElement, FS_CardinalityType
<1> HIDE DEF D, E
<1>7. connections' = Cardinality(OpenSet')
  BY <1>1, <1>3, <1>4, <1>5, <1>6 DEF LessBy
<1>8. streams' = Cardinality(StreamSet')
  BY <1>1, <1>3, <1>4, <1>5, <1>6 DEF LessBy
<1>9. QED
  BY <1>7, <1>8

\* While the server runs, every step keeps the counters equal to what they count.
LEMMA CountsStep ==
  ASSUME TypeOK, ServerInv, ReadInv, CountsMatch, \A t \in Sessions : SessionInv(t), [Next]_vars
  PROVE  CountsMatch'
<1> SUFFICES ASSUME server' = "running"
             PROVE  connections' = Cardinality(OpenSet') /\ streams' = Cardinality(StreamSet')
  BY DEF CountsMatch, OpenSet, StreamSet
<1>1. server = "running" /\ ~StopsOnIoThread
  BY StillRunning
<1>2. connections = Cardinality(OpenSet) /\ streams = Cardinality(StreamSet)
  BY <1>1 DEF CountsMatch, OpenSet, StreamSet
<1>3. CASE UNCHANGED <<countVars, status, kind>>
  BY <1>2, <1>3, SameSets DEF countVars
<1>4. CASE Notifies
  BY <1>3, <1>4 DEF Notifies, NotifySessions
<1>5. ASSUME NEW s \in Sessions, SessionStep(s)
      PROVE  connections' = Cardinality(OpenSet') /\ streams' = Cardinality(StreamSet')
  <2>1. CASE AcceptsSession(s)
    <3>1. /\ status' = [status EXCEPT ![s] = "open"] /\ kind' = [kind EXCEPT ![s] = None]
          /\ ~Open(s) /\ connections' = connections + 1 /\ streams' = streams
      BY <2>1 DEF AcceptsSession, Gone
    <3>2. OpenSet' = OpenSet \cup {s} /\ s \notin OpenSet
      BY <3>1 DEF OpenSet, Open, TypeOK
    <3>3. StreamSet' = StreamSet
      BY <3>1 DEF StreamSet, Open, Streaming, TypeOK
    <3>4. Cardinality(OpenSet \cup {s}) = Cardinality(OpenSet) + 1
      BY <3>2, CountedAreFinite, FS_AddElement
    <3>5. QED
      BY <1>2, <3>1, <3>2, <3>3, <3>4
  <2>2. CASE Ends(s)
    BY <1>2, <2>2, CancelCounts DEF Ends, EndsSession
  <2>3. CASE Responds(s)
    BY <1>3, <2>3 DEF Responds, SendResponse
  <2>4. ASSUME NEW k \in Kinds, Streams(s, k)
        PROVE  connections' = Cardinality(OpenSet') /\ streams' = Cardinality(StreamSet')
    <3>1. /\ op[s] = "read" /\ kind' = [kind EXCEPT ![s] = k]
          /\ UNCHANGED <<status, connections>> /\ streams' = streams + 1
      BY <2>4 DEF Streams, StartStream
    <3>2. kind[s] = None /\ status[s] = "open"
      BY <1>1, <3>1 DEF SessionInv, ReadInv, Open
    <3>3. StreamSet' = StreamSet \cup {s} /\ s \notin StreamSet
      BY <3>1, <3>2, KindsAssumption DEF StreamSet, Open, Streaming, TypeOK
    <3>4. OpenSet' = OpenSet
      BY <3>1 DEF OpenSet, Open
    <3>5. Cardinality(StreamSet \cup {s}) = Cardinality(StreamSet) + 1
      BY <3>3, CountedAreFinite, FS_AddElement
    <3>6. QED
      BY <1>2, <3>1, <3>3, <3>4, <3>5
  <2>5. CASE HeaderDone(s)
    BY <1>3, <2>5 DEF HeaderDone
  <2>6. CASE PartDone(s)
    BY <1>3, <2>6 DEF PartDone
  <2>7. CASE Expires(s)
    BY <1>3, <2>7 DEF Expires, TimerExpires
  <2>8. CASE TimesOut(s)
    BY <1>2, <2>8, CancelCounts DEF TimesOut, IdleTimeout
  <2>9. QED
    BY <1>5, <2>1, <2>2, <2>3, <2>4, <2>5, <2>6, <2>7, <2>8
       DEF SessionStep, PartDoneRefreshes, PartDoneWaits
<1>6. CASE UNCHANGED <<countVars, sessionVars>>
  BY <1>3, <1>6 DEF sessionVars
<1>7. QED
  <2>1. ~StopEnds
    BY DEF StopEnds
  <2>2. CASE UNCHANGED vars
    BY <1>6, <2>2 DEF vars
  <2>3. CASE \E s \in Sessions : SessionHandler(s)
    BY <1>5, <2>3, HandlerCases
  <2>4. CASE AcceptHandler
    BY <1>5, <1>6, <2>4 DEF AcceptHandler, AcceptRefuses, SessionStep
  <2>5. CASE PostedHandler
    BY <1>1, <1>4, <2>5 DEF PostedHandler, Notifies, StopsOnIoThread
  <2>6. QED
    BY <1>6, <2>1, <2>2, <2>3, <2>4, <2>5
       DEF Next, IoStep, ClientConnects, StopServer, StopTimesOut

-----------------------------------------------------------------------------
(***************************************************************************)
(* The wake-up.  A waiting stream is behind only while a notification is on *)
(* its way.                                                                *)
(***************************************************************************)
\* acquireFreshPreview and NotificationOnItsWay as functions of the state they read.
FreshIn(p, old, k) == IF old[k] THEN None ELSE p[k]
OnItsWay(e, q, k) == e = At("notify", k) \/ \E i \in 1 .. Len(q) : q[i] = k

\* The wake-up invariant for one session, which has parts behind it.
WakeupOf(t) ==
  /\ /\ parts[t] = 2 /\ status[t] = "open" /\ kind[t] # None /\ op[t] = "none"
     /\ FreshIn(preview, stale, kind[t]) # None
     /\ Newer(FreshIn(preview, stale, kind[t]), lastSent[t])
     => OnItsWay(encoder, posted, kind[t])
  /\ /\ status[t] = "open" /\ op[t] = "part" /\ parts[t] >= 1
     /\ FreshIn(preview, stale, kind[t]) # None
     /\ Newer(FreshIn(preview, stale, kind[t]), pending[t])
     => OnItsWay(encoder, posted, kind[t]) \/ refresh[t]

\* The wake-up invariant is this, session by session.
LEMMA WakeupInvs ==
  WakeupInv <=> (started => \A t \in Sessions : WakeupOf(t))
BY DEF WakeupInv, NoLostWakeupLater, MissesFrame, Waiting, Overtaken, Announced, Open, Streaming,
       NotificationOnItsWay, AcquireFreshPreview, WakeupOf, FreshIn, OnItsWay

\* The camera, the encoder and the clock: a preview changes into a newer one
\* only together with the notification of it, and none on its way is lost.
NewsOf(k) ==
  /\ OnItsWay(encoder, posted, k) => OnItsWay(encoder', posted', k)
  /\ \/ FreshIn(preview', stale', k) \in {None, FreshIn(preview, stale, k)}
     \/ OnItsWay(encoder', posted', k)

\* Every step of the pipeline is such a step.
LEMMA PipelineNews ==
  ASSUME TypeOK, started, PipelineNext, NEW k \in Kinds
  PROVE  NewsOf(k)
<1>1. CASE UNCHANGED posted
  <2> USE <1>1 DEF NewsOf, OnItsWay, FreshIn
  <2>1. CASE \E f \in Identities : PublishFrame(f)
    BY <2>1 DEF PublishFrame
  <2>2. CASE EncoderTakes
    BY <2>2 DEF EncoderTakes, At
  <2>3. CASE EncoderInvalidates
    BY <2>3 DEF EncoderInvalidates, At
  <2>4. ASSUME NEW j \in {"COLOR", "DEPTH"}, EncoderPublishes(j)
        PROVE  NewsOf(k)
    <3>0. encoder # At("notify", k)
      BY <2>4 DEF EncoderPublishes, At
    <3>1. CASE j \in Kinds /\ preview' = [preview EXCEPT ![j] = encoded]
               /\ stale' = [stale EXCEPT ![j] = FALSE] /\ encoder' = At("notify", j)
      BY <3>0, <3>1 DEF TypeOK, PipelineTypeOK
    <3>2. CASE encoder' = AfterKind(j) /\ UNCHANGED <<preview, stale>>
      BY <3>0, <3>2
    <3>3. QED
      BY <2>4, <3>1, <3>2 DEF EncoderPublishes
  <2>5. ASSUME NEW j \in Kinds, EncoderNotifies(j)
        PROVE  NewsOf(k)
    <3>1. posted' = Append(posted, j) /\ Len(posted') = Len(posted) + 1 /\ Len(posted) \in Nat
      BY <2>5, AppendElements DEF EncoderNotifies
    <3>2. FALSE
      BY <1>1, <3>1
    <3>3. QED
      BY <3>2
  <2>6. ASSUME NEW j \in Kinds, PreviewAges(j)
        PROVE  NewsOf(k)
    <3>1. UNCHANGED <<encoder, preview>> /\ stale' = [stale EXCEPT ![j] = TRUE]
      BY <2>6 DEF PreviewAges
    <3>2. stale'[k] \/ (stale'[k] <=> stale[k])
      BY <3>1 DEF TypeOK, PipelineTypeOK
    <3>3. QED
      BY <3>1, <3>2
  <2>7. QED
    BY <2>1, <2>2, <2>3, <2>4, <2>5, <2>6 DEF PipelineNext
<1>2. ASSUME NEW j \in Kinds, EncoderNotifies(j)
      PROVE  NewsOf(k)
  <2>1. posted' = Append(posted, j) /\ encoder = At("notify", j) /\ UNCHANGED <<preview, stale>>
    BY <1>2 DEF EncoderNotifies
  <2>2. /\ Len(posted) \in Nat /\ Len(posted') = Len(posted) + 1
        /\ posted'[Len(posted) + 1] = j
        /\ \A i \in 1 .. Len(posted) : posted'[i] = posted[i]
    BY <2>1, AppendElements
  <2>3. CASE k = j
    <3>1. Len(posted) + 1 \in 1 .. Len(posted')
      BY <2>2
    <3>2. QED
      BY <2>2, <2>3, <3>1 DEF NewsOf, OnItsWay
  <2>4. CASE k # j
    <3>1. encoder # At("notify", k)
      BY <2>1, <2>4 DEF At
    <3>2. OnItsWay(encoder, posted, k) => OnItsWay(encoder', posted', k)
      BY <2>2, <3>1 DEF OnItsWay
    <3>3. QED
      BY <2>1, <3>2 DEF NewsOf, FreshIn
  <2>5. QED
    BY <2>3, <2>4
<1>3. QED
  BY <1>1, <1>2 DEF PipelineNext, PublishFrame, EncoderTakes, EncoderInvalidates, EncoderPublishes,
                    PreviewAges

\* A session that such a step does not touch is woken as before.
LEMMA NewsKeeps ==
  ASSUME TypeOK, NEW t \in Sessions, SessionInv(t), WakeupOf(t), Untouched(t),
         kind[t] \in Kinds => NewsOf(kind[t])
  PROVE  WakeupOf(t)'
<1>1. CASE kind[t] \in Kinds
  <2>1. PICK k : k = kind[t]
    OBVIOUS
  <2>2. PICK f : f = FreshIn(preview', stale', k)
    OBVIOUS
  <2>3. CASE OnItsWay(encoder', posted', k)
    BY <2>1, <2>3 DEF Untouched, WakeupOf
  <2>4. CASE f = None
    BY <2>1, <2>2, <2>4 DEF Untouched, WakeupOf
  <2>5. CASE f = FreshIn(preview, stale, k) /\ ~OnItsWay(encoder, posted, k)
    BY <2>1, <2>2, <2>5 DEF Untouched, WakeupOf
  <2>6. QED
    BY <1>1, <2>1, <2>2, <2>3, <2>4, <2>5 DEF NewsOf
<1>2. CASE kind[t] \notin Kinds
  <2>1. kind[t] = None
    BY <1>2 DEF TypeOK
  <2>2. QED
    BY <2>1 DEF Untouched, SessionInv, WakeupOf
<1>3. QED
  BY <1>1, <1>2

\* No frame is newer than itself.
LEMMA NotNewer ==
  ASSUME NEW f \in Identities
  PROVE  ~IsNewer(f, f)
<1>1. f.generation \in Nat /\ f.number \in Nat
  <2>1. f.generation \in Generations /\ f.number \in Numbers
    BY DEF Identities
  <2>2. QED
    BY <2>1, IdentityAssumption
<1>2. QED
  BY <1>1 DEF IsNewer

\* A stream past its first frame that writes the newest one is not behind.
LEMMA WriteWakes ==
  ASSUME TypeOK, NEW t \in Sessions, kind[t] \in Kinds, initial[t] = None,
         NEW sent, lastSent'[t] = sent, UNCHANGED <<pipelineVars, kind>>,
         \/ HasFrameToSend(t, sent) /\ Writes(t)
         \/ ~HasFrameToSend(t, sent) /\ \E r : WaitsOn(t, "none", r)
  PROVE  WakeupOf(t)'
<1>1. PICK f : f = FreshIn(preview, stale, kind[t])
  OBVIOUS
<1>2. FrameToSend(t) = f /\ FreshIn(preview', stale', kind'[t]) = f
  BY <1>1 DEF FrameToSend, AcquireFreshPreview, FreshIn, pipelineVars
<1>3. f \in Identities \cup {None}
  BY <1>1 DEF FreshIn, TypeOK, PipelineTypeOK
<1>4. CASE HasFrameToSend(t, sent) /\ Writes(t)
  <2>1. op'[t] = "part" /\ pending'[t] = f /\ f # None
    BY <1>2, <1>4 DEF HasFrameToSend, Writes
  <2>2. ~Newer(f, f)
    BY <1>3, <2>1, NotNewer DEF Newer
  <2>3. QED
    BY <1>2, <2>1, <2>2 DEF WakeupOf
<1>5. CASE ~HasFrameToSend(t, sent) /\ \E r : WaitsOn(t, "none", r)
  <2>1. op'[t] = "none" /\ ~(f # None /\ Newer(f, sent))
    BY <1>2, <1>5 DEF HasFrameToSend, WaitsOn
  <2>2. QED
    BY <1>2, <2>1 DEF WakeupOf
<1>6. QED
  BY <1>4, <1>5

\* A step of the I/O thread that leaves the pipeline and the queue alone: the
\* session that takes it is not left behind.
LEMMA OwnWakeup ==
  ASSUME TypeOK, started, NEW s \in Sessions, SessionInv(s), WakeupOf(s), SessionStep(s)
  PROVE  WakeupOf(s)'
<1>0. {s} \in SUBSET Sessions /\ s \in {s}
  OBVIOUS
<1>1. CASE AcceptsSession(s)
  BY <1>1 DEF AcceptsSession, TypeOK, WakeupOf
<1>2. CASE Ends(s)
  <2>1. status'[s] # "open"
    BY <1>0, <1>2, CancelEffect DEF Ends, EndsSession
  <2>2. QED
    BY <2>1 DEF WakeupOf
<1>3. CASE Responds(s)
  BY <1>3 DEF Responds, SendResponse, TypeOK, WakeupOf
<1>4. CASE \E k \in Kinds : Streams(s, k)
  BY <1>4 DEF Streams, StartStream, TypeOK, WakeupOf
<1>5. CASE HeaderDone(s)
  <2>1. parts'[s] = 0
    BY <1>5 DEF HeaderDone, SessionInv
  <2>2. QED
    BY <2>1 DEF WakeupOf
<1>6. CASE PartDoneRefreshes(s)
  <2>1. /\ HasFrameToSend(s, lastSent'[s]) => Writes(s)
        /\ ~HasFrameToSend(s, lastSent'[s]) =>
             WaitsOn(s, [op EXCEPT ![s] = "none"][s], [refresh EXCEPT ![s] = FALSE][s])
    BY <1>0, <1>6, WriteEffect DEF PartDoneRefreshes
  <2>2. [op EXCEPT ![s] = "none"][s] = "none"
    BY DEF TypeOK
  <2>3. initial[s] = None /\ kind[s] \in Kinds
    BY <1>6 DEF PartDoneRefreshes, PartDone, SessionInv, TypeOK
  <2>4. UNCHANGED <<pipelineVars, kind>>
    BY <1>6 DEF PartDoneRefreshes, PartDone, IoFrame
  <2>5. QED
    BY <2>1, <2>2, <2>3, <2>4, WriteWakes
<1>7. CASE PartDoneWaits(s)
  <2>1. /\ op[s] = "part" /\ status[s] = "open" /\ ~refresh[s]
        /\ UNCHANGED <<status, kind, pipelineVars, posted>>
    BY <1>7 DEF PartDoneWaits, PartDone, IoFrame, Open
  <2>2. op'[s] = "none" /\ lastSent'[s] = pending[s] /\ (parts'[s] = 2 => parts[s] >= 1)
    BY <1>7, SMTT(30) DEF PartDoneWaits, PartDone, TypeOK
  <2>3. UNCHANGED <<preview, stale, encoder, posted>>
    BY <2>1 DEF pipelineVars
  <2>4. QED
    BY <2>1, <2>2, <2>3 DEF WakeupOf
<1>8. CASE Expires(s)
  BY <1>8 DEF Expires, TimerExpires, IoFrame, WakeupOf, pipelineVars, frameVars
<1>9. CASE TimesOut(s)
  <2>1. status'[s] # "open"
    BY <1>0, <1>9, CancelEffect DEF TimesOut, IdleTimeout
  <2>2. QED
    BY <2>1 DEF WakeupOf
<1>10. QED
  BY <1>1, <1>2, <1>3, <1>4, <1>5, <1>6, <1>7, <1>8, <1>9 DEF SessionStep

\* notifySessions takes one notification from the queue, and no session of its
\* kind needs it any more.
LEMMA NotifyWakeup ==
  ASSUME TypeOK, started, Notifies, NEW t \in Sessions, SessionInv(t), WakeupOf(t)
  PROVE  WakeupOf(t)'
<1>1. PICK k : k = Head(posted)
  OBVIOUS
<1>2. /\ k \in Kinds
      /\ UNCHANGED <<status, kind, lastSent, parts, fired, started, server, pipelineVars>>
  BY <1>1, NotifyEffect
<1>3. posted # <<>> /\ posted' = Tail(posted)
  BY DEF Notifies, NotifySessions
<1>4. UNCHANGED <<preview, stale, encoder>>
  BY <1>2 DEF pipelineVars
<1>5. CASE /\ status[t] = "open" /\ kind[t] = k /\ op[t] = "none"
           /\ \/ HasFrameToSend(t, lastSent[t]) /\ Writes(t)
              \/ ~HasFrameToSend(t, lastSent[t]) /\ \E r : WaitsOn(t, "none", r)
  <2>1. initial[t] = None
    BY <1>2, <1>5, KindsAssumption DEF SessionInv
  <2>2. QED
    BY <1>2, <1>5, <2>1, WriteWakes
<1>6. CASE /\ status[t] = "open" /\ kind[t] = k /\ op[t] \in {"header", "part"}
           /\ LeftAlone(t, op[t], TRUE)
  BY <1>6 DEF LeftAlone, WakeupOf
<1>7. CASE (status[t] # "open" \/ kind[t] # k) /\ LeftAlone(t, op[t], refresh[t])
  <2>1. CASE status[t] # "open"
    BY <1>2, <2>1 DEF WakeupOf
  <2>2. CASE kind[t] # k
    <3>1. OnItsWay(encoder, posted, kind[t]) => OnItsWay(encoder', posted', kind[t])
      <4>1. SUFFICES ASSUME NEW i \in 1 .. Len(posted), posted[i] = kind[t]
                     PROVE  \E j \in 1 .. Len(posted') : posted'[j] = kind[t]
        BY <1>4 DEF OnItsWay
      <4>2. i # 1
        BY <1>1, <1>3, <2>2, <4>1, TailElements
      <4>3. i - 1 \in 1 .. Len(posted') /\ posted'[i - 1] = posted[(i - 1) + 1]
        BY <1>3, <4>2, TailElements
      <4>4. QED
        BY <4>1, <4>3
    <3>2. QED
      BY <1>2, <1>4, <1>7, <3>1 DEF LeftAlone, WakeupOf
  <2>3. QED
    BY <1>7, <2>1, <2>2
<1>8. QED
  BY <1>1, <1>5, <1>6, <1>7, NotifyEffect

\* Every step keeps the wake-up invariant.
LEMMA WakeupStep ==
  ASSUME TypeOK, ServerInv, WakeupInv, \A t \in Sessions : SessionInv(t), [Next]_vars
  PROVE  WakeupInv'
<1> SUFFICES ASSUME started', NEW t \in Sessions
             PROVE  WakeupOf(t)'
  <2>1. WakeupInv' <=> (started' => \A t \in Sessions : WakeupOf(t)')
    BY DEF WakeupInv, NoLostWakeupLater, MissesFrame, Waiting, Overtaken, Announced, Open,
           Streaming, NotificationOnItsWay, AcquireFreshPreview, WakeupOf, FreshIn, OnItsWay
  <2>2. QED
    BY <2>1
<1>0. server' = "running"
  BY ServerStep DEF ServerInv
<1>1. server = "running" /\ started /\ ~StopsOnIoThread
  BY <1>0, StillRunning DEF ServerInv
<1>2. WakeupOf(t) /\ SessionInv(t)
  BY <1>1, WakeupInvs
<1>3. CASE UNCHANGED <<preview, stale, encoder, posted>> /\ Untouched(t)
  <2>1. kind[t] \in Kinds => NewsOf(kind[t])
    BY <1>3 DEF NewsOf
  <2>2. QED
    BY <1>2, <1>3, <2>1, NewsKeeps
<1>4. CASE PipelineNext /\ UNCHANGED sessionVars
  <2>1. kind[t] \in Kinds => NewsOf(kind[t])
    BY <1>1, <1>4, PipelineNews
  <2>2. Untouched(t)
    BY <1>4 DEF sessionVars, frameVars, timerVars, Untouched
  <2>3. QED
    BY <1>2, <2>1, <2>2, NewsKeeps
<1>5. CASE Notifies
  BY <1>1, <1>2, <1>5, NotifyWakeup
<1>6. ASSUME NEW s \in Sessions, SessionStep(s), UNCHANGED <<pipelineVars, posted>>
      PROVE  WakeupOf(t)'
  <2>1. CASE s = t
    BY <1>1, <1>2, <1>6, <2>1, OwnWakeup
  <2>2. CASE s # t
    <3>1. Untouched(t)
      BY <1>6, <2>2, OthersUntouched
    <3>2. QED
      BY <1>3, <1>6, <3>1 DEF pipelineVars
  <2>3. QED
    BY <2>1, <2>2
<1>7. CASE UNCHANGED <<pipelineVars, posted, sessionVars>>
  BY <1>3, <1>7 DEF pipelineVars, sessionVars, frameVars, timerVars, Untouched
<1>8. QED
  <2>1. CASE UNCHANGED vars
    BY <1>7, <2>1 DEF vars
  <2>2. CASE \E s \in Sessions : SessionHandler(s)
    BY <1>6, <2>2, HandlerCases DEF IoFrame
  <2>3. CASE AcceptHandler
    <3>1. CASE AcceptRefuses
      BY <1>7, <3>1 DEF AcceptRefuses
    <3>2. CASE \E s \in Sessions : AcceptsSession(s)
      BY <1>6, <3>2 DEF AcceptsSession, SessionStep
    <3>3. QED
      BY <2>3, <3>1, <3>2 DEF AcceptHandler
  <2>4. CASE PostedHandler
    BY <1>1, <1>5, <2>4 DEF PostedHandler, Notifies, StopsOnIoThread
  <2>5. CASE ClientConnects \/ StopTimesOut \/ StopEnds
    BY <1>7, <2>5 DEF ClientConnects, StopTimesOut, StopEnds
  <2>6. ~StopServer
    BY DEF StopServer
  <2>7. QED
    BY <1>4, <2>1, <2>2, <2>3, <2>4, <2>5, <2>6 DEF Next, IoStep

-----------------------------------------------------------------------------
(***************************************************************************)
(* The theorems.                                                           *)
(***************************************************************************)
\* Every step of the server keeps the inductive invariant.
LEMMA InvStep == Inv /\ [Next]_vars => Inv'
<1> SUFFICES ASSUME Inv, [Next]_vars PROVE Inv'
  OBVIOUS
<1>1. \A t \in Sessions : SessionInv(t)
  BY SessionInvs DEF Inv
<1>2. \A t \in Sessions : SessionInv(t)'
  BY <1>1, SessionInvStep DEF Inv
<1>3. TimerInv' /\ OperationInv' /\ SessionHasHandler' /\ PartsGetNewer'
  BY <1>2 DEF SessionInv, TimerInv, OperationInv, SessionHasHandler, PartsGetNewer, Open,
              Streaming, Waiting
<1>4. TypeOK' /\ ServerInv'
  BY TypeStep, ServerStep DEF Inv
<1>5. ReadInv' /\ CountsMatch' /\ WakeupInv'
  BY <1>1, ReadStep, CountsStep, WakeupStep DEF Inv
<1>6. QED
  BY <1>3, <1>4, <1>5 DEF Inv

\* The inductive invariant holds in every reachable state of the server and the
\* preview pipeline.
THEOREM Invariance == Spec => []Inv
BY InitInv, InvStep, PTL DEF Spec

\* Type correctness: m_active_connections and m_active_stream_clients never pass
\* max_connections and max_stream_clients.
THEOREM TypeCorrect == Spec => []TypeOK
<1>1. Inv => TypeOK
  BY DEF Inv
<1>2. QED
  BY <1>1, Invariance, PTL

\* While the server runs, its two counters are the sessions that are open and
\* the streams among them.
THEOREM Counts == Spec => []CountsMatch
<1>1. Inv => CountsMatch
  BY DEF Inv
<1>2. QED
  BY <1>1, Invariance, PTL

\* No open session is without a handler that will run.
THEOREM HasHandler == Spec => []SessionHasHandler
<1>1. Inv => SessionHasHandler
  BY DEF Inv
<1>2. QED
  BY <1>1, Invariance, PTL

\* Every part a stream sends is newer than the part before it.
THEOREM PartsNewer == Spec => []PartsGetNewer
<1>1. Inv => PartsGetNewer
  BY DEF Inv
<1>2. QED
  BY <1>1, Invariance, PTL

\* A stream that has sent two parts waits only when nothing is newer, or a
\* notification is on its way.
THEOREM WakeupLater == Spec => []NoLostWakeupLater
<1>1. Inv => NoLostWakeupLater
  BY DEF Inv, WakeupInv
<1>2. QED
  BY <1>1, Invariance, PTL
=============================================================================
