----------------------------- MODULE PilotProofs -----------------------------
(***************************************************************************)
(* Proofs about PilotIntegrationClient for every set of provider states    *)
(* and all bounds.                                                         *)
(***************************************************************************)
EXTENDS PilotIntegrationClient, TLAPS

-----------------------------------------------------------------------------
(***************************************************************************)
(* The inductive invariant: what the request in flight asks for, what its  *)
(* result tells about the Pilot, and which late requests can still arrive. *)
(***************************************************************************)
\* The steps of the worker that has a session and no write in flight.
InSession == {"publish", "publishing", "retry", "wait"}

\* The request of each step that waits for one is the one that step has sent.
RequestInv ==
  /\ pc = "registering" => request.type = "register"
  /\ pc = "publishing" => request.type = "catalog" /\ request.session = session
  /\ pc = "writing" => /\ request.type \in {"state", "heartbeat"}
                       /\ request.session = session
                       /\ sequence = request.sequence + 1
  /\ pc = "disconnecting" => request.type = "disconnect"
  /\ stopper = "stopped" => pc = "done"

\* The request has been answered, and the Pilot has accepted it.
Confirmed == result # None /\ result.status = "ok"

\* Sequences start at 1 in every session and go on only after the Pilot has
\* accepted the last one.
SequenceInv ==
  /\ pc \in {"publish", "publishing", "retry"} => sequence = 1
  /\ pc = "wait" => sequence <= MaxSequence
  /\ pc = "writing" /\ Confirmed => request.sequence < MaxSequence

\* Session numbers are given out once.
SessionInv ==
  /\ session <= sessions
  /\ result # None => result.session <= sessions
  /\ request # None => request.session <= sessions
  /\ \A r \in late : r.session <= sessions

\* No write of session n can still arrive late.
NoLateWrite(n) == \A r \in late : r.type \in {"state", "heartbeat"} => r.session # n

\* A write that was given up ends the session, so that it finds another one
\* when it arrives.
LateInv ==
  /\ pc \in InSession => NoLateWrite(session)
  /\ pc = "writing" /\ (result = None \/ Confirmed) => NoLateWrite(session)
  /\ pc = "registering" /\ Confirmed => NoLateWrite(result.session)

\* The state that was sent, or will be sent, is the provider's.
Current(state) == state = current \/ update # None

\* The Pilot's copy of session n: its provider state and the last sequence.
StateInv ==
  /\ update # None => update = current
  /\ pc = "registering" => Current(request.state)
  /\ pc = "registering" /\ Confirmed /\ pilot # None /\ pilot.session = result.session
       => pilot.state = request.state /\ pilot.sequence = 0
  /\ pc \in InSession /\ AtPilot => Current(pilot.state) /\ pilot.sequence < sequence
  /\ pc = "writing" /\ request.type = "state" => Current(request.state)
  /\ pc = "writing" /\ result = None /\ AtPilot
       => /\ pilot.sequence < request.sequence
          /\ request.type = "heartbeat" => Current(pilot.state)
  /\ pc = "writing" /\ Confirmed /\ AtPilot
       => Current(pilot.state) /\ pilot.sequence <= request.sequence

\* The catalog of a session that is ONLINE is at the Pilot.
OnlineInv ==
  /\ OnlineIsPublished
  /\ snapshot = "ONLINE" => pc \in {"wait", "writing", "end"}
  /\ pc \in {"wait", "writing"} => snapshot = "ONLINE"
  /\ pc = "publishing" /\ Confirmed /\ AtPilot => pilot.published

Inv ==
  /\ TypeOK /\ RequestInv /\ SequenceInv /\ SessionInv
  /\ LateInv /\ StateInv /\ OnlineInv

\* A client that was never started satisfies the invariant.
LEMMA InitInv == Init => Inv
<1> SUFFICES ASSUME Init PROVE Inv
  OBVIOUS
<1> USE BoundsAssumption, NoneAssumption DEF Init
<1>1. TypeOK
  <2>1. stop \in BOOLEAN /\ cancelled \in BOOLEAN
    OBVIOUS
  <2>2. QED
    BY <2>1 DEF TypeOK
<1>2. RequestInv /\ SequenceInv /\ SessionInv /\ LateInv /\ StateInv /\ OnlineInv
  BY DEF RequestInv, SequenceInv, SessionInv, LateInv, StateInv, OnlineInv, InSession,
         AtPilot, OnlineIsPublished, Confirmed
<1>3. QED
  BY <1>1, <1>2 DEF Inv

-----------------------------------------------------------------------------
(***************************************************************************)
(* What the transport and the Pilot do to a request.                       *)
(***************************************************************************)
\* executeRequest begins with a request and no result.
LEMMA ExecuteType ==
  ASSUME NEW r \in Requests, Execute(r)
  PROVE  /\ request' = r /\ request' \in Requests /\ request' # None
         /\ result' = None /\ cancelled' \in BOOLEAN
BY NoneAssumption DEF Execute

\* It returns with a result, and nothing of the request is left.
LEMMA TakenType ==
  ASSUME TypeOK, NEW p, Taken(p)
  PROVE  /\ request' = None /\ result' = None /\ cancelled' \in BOOLEAN
         /\ result \in Results
         /\ result.session \in 0 .. MaxSessions /\ result.server \in 0 .. MaxRestarts
         /\ request \in Requests
<1>1. request' = None /\ result' = None /\ cancelled' \in BOOLEAN
  BY DEF Taken
<1>2. result \in Results /\ request \in Requests
  BY DEF Taken, TypeOK
<1>3. QED
  BY <1>1, <1>2 DEF Results

\* The result of a request that the transport ends itself.
LEMMA EndedType == Ended("error") \in Results /\ Ended("error") # None
<1>1. Ended("error") \in Results
  BY BoundsAssumption DEF Ended, Results, Statuses
<1>2. QED
  BY <1>1, NoneAssumption

\* What the Pilot has after it has accepted a request.
LEMMA AcceptsType ==
  ASSUME TypeOK, NEW r \in Requests, NEW status, Accepts(r, status)
  PROVE  /\ status = "ok"
         /\ sessions' \in 0 .. MaxSessions /\ sessions <= sessions'
         /\ pilot' \in Registrations \cup {None}
         /\ pilot' # None => pilot'.session <= sessions'
<1> USE BoundsAssumption DEF TypeOK
<1>1. CASE r.type = "register"
  <2>1. r.state \in ProviderStates
    BY DEF Requests
  <2>2. /\ sessions < MaxSessions /\ sessions' = sessions + 1 /\ status = "ok"
        /\ pilot' = [session |-> sessions + 1, state |-> r.state, sequence |-> 0,
                     published |-> FALSE]
    BY <1>1 DEF Accepts
  <2>3. pilot' \in Registrations
    BY <2>1, <2>2 DEF Registrations
  <2>4. QED
    BY <2>2, <2>3
<1>2. CASE r.type = "catalog"
  <2>1. /\ Knows(r) /\ sessions' = sessions /\ status = "ok"
        /\ pilot' = [pilot EXCEPT !.published = TRUE]
    BY <1>2 DEF Accepts
  <2>2. pilot' \in Registrations /\ pilot'.session = pilot.session
    BY <2>1 DEF Registrations, Knows
  <2>3. QED
    BY <2>1, <2>2 DEF Knows
<1>3. CASE r.type \in {"state", "heartbeat"}
  <2>1. r.state \in ProviderStates /\ r.sequence \in 0 .. MaxSequence
    BY DEF Requests
  <2>2. /\ Knows(r) /\ sessions' = sessions /\ status = "ok"
        /\ pilot' = [pilot EXCEPT !.sequence = r.sequence,
                                  !.state = IF r.type = "state" THEN r.state ELSE @]
    BY <1>3 DEF Accepts
  <2>3. pilot' \in Registrations /\ pilot'.session = pilot.session
    BY <2>1, <2>2 DEF Registrations, Knows
  <2>4. QED
    BY <2>2, <2>3 DEF Knows
<1>4. CASE r.type = "disconnect"
  BY <1>4 DEF Accepts
<1>5. QED
  BY <1>1, <1>2, <1>3, <1>4 DEF Requests

\* What a request that is accepted does to the Pilot's registration.
Effect(r) ==
  \/ /\ r.type = "register" /\ sessions' = sessions + 1
     /\ pilot' # None /\ pilot'.session = sessions + 1
     /\ pilot'.state = r.state /\ pilot'.sequence = 0
  \/ /\ r.type = "catalog" /\ sessions' = sessions
     /\ pilot # None /\ pilot.session = r.session
     /\ pilot' # None /\ pilot'.session = pilot.session
     /\ pilot'.state = pilot.state /\ pilot'.sequence = pilot.sequence
     /\ pilot'.published
  \/ /\ r.type \in {"state", "heartbeat"} /\ sessions' = sessions
     /\ pilot # None /\ pilot.session = r.session
     /\ r.sequence > pilot.sequence /\ r.sequence < MaxSequence
     /\ pilot' # None /\ pilot'.session = pilot.session
     /\ pilot'.state = IF r.type = "state" THEN r.state ELSE pilot.state
     /\ pilot'.sequence = r.sequence
     /\ pilot'.published = pilot.published
  \/ /\ r.type = "disconnect" /\ sessions' = sessions
     /\ pilot' = None

\* An accepted request has its effect.
LEMMA AcceptsEffect ==
  ASSUME TypeOK, NEW r \in Requests, Accepts(r, "ok")
  PROVE  Effect(r)
<1>1. CASE r.type = "register"
  <2>1. pilot' = [session |-> sessions + 1, state |-> r.state, sequence |-> 0,
                  published |-> FALSE]
        /\ sessions' = sessions + 1
    BY <1>1 DEF Accepts
  <2>2. pilot' # None
    <3>1. pilot' \in Registrations
      BY <1>1, <2>1, BoundsAssumption DEF Accepts, Registrations, Requests, TypeOK
    <3>2. QED
      BY <3>1, NoneAssumption
  <2>3. QED
    BY <1>1, <2>1, <2>2 DEF Effect
<1>2. CASE r.type = "catalog"
  <2>1. pilot \in Registrations /\ pilot.session = r.session /\ sessions' = sessions
        /\ pilot' = [pilot EXCEPT !.published = TRUE] /\ pilot # None
    BY <1>2 DEF Accepts, Knows, TypeOK
  <2>2. pilot' \in Registrations
    BY <2>1 DEF Registrations
  <2>3. QED
    BY <1>2, <2>1, <2>2, NoneAssumption DEF Effect, Registrations
<1>3. CASE r.type \in {"state", "heartbeat"}
  <2>1. pilot \in Registrations /\ pilot.session = r.session /\ sessions' = sessions
        /\ pilot' = [pilot EXCEPT !.sequence = r.sequence,
                                  !.state = IF r.type = "state" THEN r.state ELSE @]
        /\ pilot # None
        /\ r.sequence > pilot.sequence /\ r.sequence < MaxSequence
    BY <1>3 DEF Accepts, Knows, TypeOK
  <2>2. pilot' \in Registrations
    BY <2>1 DEF Registrations, Requests
  <2>3. QED
    BY <1>3, <2>1, <2>2, NoneAssumption DEF Effect, Registrations
<1>4. CASE r.type = "disconnect"
  BY <1>4 DEF Accepts, Effect
<1>5. QED
  BY <1>1, <1>2, <1>3, <1>4 DEF Requests

\* The Pilot answers a request of the right type; if the answer says ok, it
\* has accepted the request.
LEMMA AnswerType ==
  ASSUME TypeOK, PilotAnswers
  PROVE  /\ request \in Requests /\ result = None
         /\ result' \in Results /\ result' # None /\ result'.session = sessions'
         /\ sessions' \in 0 .. MaxSessions /\ sessions <= sessions'
         /\ pilot' \in Registrations \cup {None}
         /\ pilot' # None => pilot'.session <= sessions'
         /\ Accepts(request, "ok") \/ UNCHANGED <<pilot, sessions>>
         /\ result'.status = "ok" => Accepts(request, "ok")
<1>1. request \in Requests /\ result = None
  BY DEF PilotAnswers, TypeOK
<1>2. PICK status \in {"ok", "replace", "contract", "unavailable"} :
        /\ Accepts(request, status) \/ Refuses(request, status)
        /\ \E arrives \in {status, "malformed", "error"} : result' = Answer(arrives)
  BY DEF PilotAnswers
<1>3. PICK arrives \in {status, "malformed", "error"} : result' = Answer(arrives)
  BY <1>2
<1>4. CASE Accepts(request, status)
  <2>1. /\ status = "ok"
        /\ sessions' \in 0 .. MaxSessions /\ sessions <= sessions'
        /\ pilot' \in Registrations \cup {None}
        /\ pilot' # None => pilot'.session <= sessions'
    BY <1>1, <1>4, AcceptsType
  <2>2. result' \in Results /\ result'.session = sessions'
    BY <1>3, <2>1 DEF Answer, Results, Statuses, TypeOK
  <2>3. QED
    BY <1>1, <1>4, <2>1, <2>2, NoneAssumption
<1>5. CASE Refuses(request, status)
  <2>1. UNCHANGED <<pilot, sessions>> /\ status # "ok"
    BY <1>5 DEF Refuses
  <2>2. /\ result' \in Results /\ result'.session = sessions'
        /\ result'.status # "ok"
    BY <1>2, <1>3, <2>1 DEF Answer, Results, Statuses, TypeOK
  <2>3. QED
    BY <1>1, <2>1, <2>2, NoneAssumption DEF TypeOK
<1>6. QED
  BY <1>2, <1>4, <1>5

-----------------------------------------------------------------------------
(***************************************************************************)
(* Every step keeps the invariant.                                         *)
(***************************************************************************)
\* Every step keeps the types.
LEMMA TypeStep ==
  ASSUME Inv, [Next]_vars
  PROVE  TypeOK'
<1> USE BoundsAssumption, NoneAssumption
    DEF Inv, TypeOK, RequestInv, SequenceInv, SessionInv, vars, workerVars,
        stateVars, stopVars, pilotVars
<1>1. CASE Worker
  <2>1. CASE (\E p \in {"register", "publish", "wait"} : Leaves(p)) /\ UNCHANGED stateVars
    BY <1>1, <2>1 DEF Worker, Leaves, transportVars
  <2>2. CASE (\E p \in {"registering", "publishing", "writing"} : LeavesWithResult(p)) /\ UNCHANGED stateVars
    BY <1>1, <2>2 DEF Worker, LeavesWithResult, Taken
  <2>3. CASE Register /\ UNCHANGED stateVars
    <3>1. [type |-> "register", session |-> 0, sequence |-> 0, state |-> current] \in Requests
      BY DEF Requests
    <3>2. QED
      BY <1>1, <2>3, <3>1, ExecuteType DEF Worker, Register
  <2>4. CASE Registered /\ UNCHANGED stateVars
    <3>1. Taken("registering")
      BY <1>1, <2>4 DEF Registered
    <3>2. QED
      BY <1>1, <2>4, <3>1, TakenType DEF Worker, Registered, Faults, Recovers
  <2>5. CASE Publish /\ UNCHANGED stateVars
    <3>1. [type |-> "catalog", session |-> session, sequence |-> 0, state |-> current] \in Requests
      BY DEF Requests
    <3>2. QED
      BY <1>1, <2>5, <3>1, ExecuteType DEF Worker, Publish
  <2>6. CASE Published /\ UNCHANGED stateVars
    <3>1. Taken("publishing")
      BY <1>1, <2>6 DEF Published
    <3>2. QED
      BY <1>1, <2>6, <3>1, TakenType DEF Worker, Published, Faults, Recovers
  <2>7. CASE Written /\ UNCHANGED stateVars
    BY <1>1, <2>7 DEF Worker, Written, Taken, AcceptedWrite, Recovers
  <2>8. CASE Disconnect /\ UNCHANGED stateVars
    <3>1. [type |-> "disconnect", session |-> session, sequence |-> 0, state |-> current]
            \in Requests
      BY DEF Requests
    <3>2. QED
      BY <1>1, <2>8, <3>1, ExecuteType DEF Worker, Disconnect
  <2>9. CASE Finishes /\ UNCHANGED stateVars
    BY <1>1, <2>9 DEF Worker, Finishes, Taken, transportVars
  <2>10. CASE BackoffEnds
    BY <1>1, <2>10 DEF Worker, BackoffEnds, transportVars
  <2>11. CASE WriteState
    <3>1. update \in ProviderStates /\ sequence <= MaxSequence
      BY <1>1, <2>11 DEF WriteState, Write
    <3>2. [type |-> "state", session |-> session, sequence |-> sequence, state |-> update]
            \in Requests
      BY <3>1 DEF Requests
    <3>3. QED
      BY <1>1, <2>11, <3>1, <3>2, ExecuteType DEF Worker, WriteState, Write, NextSequence
  <2>12. CASE Heartbeat
    <3>1. current \in ProviderStates /\ sequence <= MaxSequence
      BY <1>1, <2>12 DEF Heartbeat, Write
    <3>2. [type |-> "heartbeat", session |-> session, sequence |-> sequence, state |-> current]
            \in Requests
      BY <3>1 DEF Requests
    <3>3. QED
      BY <1>1, <2>12, <3>1, <3>2, ExecuteType DEF Worker, Heartbeat, Write, NextSequence
  <2>13. QED
    BY <1>1, <2>1, <2>2, <2>3, <2>4, <2>5, <2>6, <2>7, <2>8, <2>9, <2>10, <2>11, <2>12
       DEF Worker, WorkerStep
<1>2. CASE TransportFails
  <2>1. late' \subseteq Requests
    BY <1>2 DEF TransportFails, GivenUp
  <2>2. QED
    BY <1>2, <2>1, EndedType DEF TransportFails
<1>3. CASE PilotAnswers
  <2>1. UNCHANGED <<workerVars, stateVars, stopVars, request, cancelled, instance, late>>
    BY <1>3 DEF PilotAnswers
  <2>2. QED
    BY <1>3, <2>1, AnswerType
<1>4. CASE PilotReceivesLate
  <2>1. PICK r \in late : Accepts(r, "ok") /\ late' = late \ {r}
    BY <1>4 DEF PilotReceivesLate
  <2>2. r \in Requests
    OBVIOUS
  <2>3. QED
    BY <1>4, <2>1, <2>2, AcceptsType DEF PilotReceivesLate, transportVars
<1>5. CASE PilotForgets
  BY <1>5 DEF PilotForgets, transportVars
<1>6. CASE \E state \in ProviderStates : StartClient(state)
  <2>1. PICK state \in ProviderStates : StartClient(state)
    BY <1>6
  <2>2. stop' \in BOOLEAN
    BY <2>1 DEF StartClient
  <2>3. QED
    BY <2>1, <2>2 DEF StartClient, transportVars
<1>7. CASE \E state \in ProviderStates : UpdateProviderState(state)
  BY <1>7 DEF UpdateProviderState, Remember, transportVars
<1>8. CASE StopClient
  BY <1>8 DEF StopClient, transportVars
<1>9. CASE CancelRequest
  <2>1. result' \in Results \cup {None} /\ (result' # None => request # None)
    BY <1>9, EndedType DEF CancelRequest
  <2>2. cancelled' \in BOOLEAN
    BY <1>9 DEF CancelRequest
  <2>3. late' \subseteq Requests
    BY <1>9 DEF CancelRequest, GivenUp
  <2>4. QED
    BY <1>9, <2>1, <2>2, <2>3 DEF CancelRequest
<1>10. CASE Joined
  BY <1>10 DEF Joined, transportVars
<1>11. CASE UNCHANGED vars
  BY <1>11 DEF transportVars
<1>12. QED
  BY <1>1, <1>2, <1>3, <1>4, <1>5, <1>6, <1>7, <1>8, <1>9, <1>10, <1>11 DEF Next

\* Every step keeps the request that of the worker's step.
LEMMA RequestStep ==
  ASSUME Inv, [Next]_vars
  PROVE  RequestInv'
<1> USE NoneAssumption
    DEF Inv, TypeOK, RequestInv, vars, workerVars, stateVars, stopVars, pilotVars
<1>1. CASE Worker
  <2>1. CASE (\E p \in {"register", "publish", "wait"} : Leaves(p)) /\ UNCHANGED stateVars
    BY <1>1, <2>1 DEF Worker, Leaves, transportVars
  <2>2. CASE (\E p \in {"registering", "publishing", "writing"} : LeavesWithResult(p)) /\ UNCHANGED stateVars
    BY <1>1, <2>2 DEF Worker, LeavesWithResult, Taken
  <2>3. CASE Register /\ UNCHANGED stateVars
    BY <1>1, <2>3 DEF Worker, Register, Execute
  <2>4. CASE Registered /\ UNCHANGED stateVars
    BY <1>1, <2>4 DEF Worker, Registered, Taken, Faults, Recovers
  <2>5. CASE Publish /\ UNCHANGED stateVars
    BY <1>1, <2>5 DEF Worker, Publish, Execute
  <2>6. CASE Published /\ UNCHANGED stateVars
    BY <1>1, <2>6 DEF Worker, Published, Taken, AcceptedCatalog, Faults, Recovers
  <2>7. CASE Written /\ UNCHANGED stateVars
    BY <1>1, <2>7 DEF Worker, Written, Taken, AcceptedWrite, Recovers
  <2>8. CASE Disconnect /\ UNCHANGED stateVars
    BY <1>1, <2>8 DEF Worker, Disconnect, Execute
  <2>9. CASE Finishes /\ UNCHANGED stateVars
    BY <1>1, <2>9 DEF Worker, Finishes, Taken, transportVars
  <2>10. CASE BackoffEnds
    BY <1>1, <2>10 DEF Worker, BackoffEnds, transportVars
  <2>11. CASE WriteState
    BY <1>1, <2>11 DEF Worker, WriteState, Write, Execute, NextSequence
  <2>12. CASE Heartbeat
    BY <1>1, <2>12 DEF Worker, Heartbeat, Write, Execute, NextSequence
  <2>13. QED
    BY <1>1, <2>1, <2>2, <2>3, <2>4, <2>5, <2>6, <2>7, <2>8, <2>9, <2>10, <2>11, <2>12
       DEF Worker, WorkerStep
<1>2. CASE TransportFails
  BY <1>2 DEF TransportFails, Ended, GivenUp
<1>3. CASE PilotAnswers
  BY <1>3 DEF PilotAnswers, Accepts, Refuses, Knows, Answer
<1>4. CASE PilotReceivesLate
  BY <1>4 DEF PilotReceivesLate, Accepts, Knows, transportVars
<1>5. CASE PilotForgets
  BY <1>5 DEF PilotForgets, transportVars
<1>6. CASE \E state \in ProviderStates : StartClient(state)
  BY <1>6 DEF StartClient, transportVars
<1>7. CASE \E state \in ProviderStates : UpdateProviderState(state)
  BY <1>7 DEF UpdateProviderState, Remember, transportVars
<1>8. CASE StopClient
  BY <1>8 DEF StopClient, transportVars
<1>9. CASE CancelRequest
  BY <1>9 DEF CancelRequest, Ended, GivenUp
<1>10. CASE Joined
  BY <1>10 DEF Joined, transportVars
<1>11. CASE UNCHANGED vars
  BY <1>11 DEF transportVars
<1>12. QED
  BY <1>1, <1>2, <1>3, <1>4, <1>5, <1>6, <1>7, <1>8, <1>9, <1>10, <1>11 DEF Next

\* Every step keeps the sequence within what the Pilot accepts.
LEMMA SequenceStep ==
  ASSUME Inv, [Next]_vars
  PROVE  SequenceInv'
<1> USE BoundsAssumption, NoneAssumption
    DEF Inv, TypeOK, RequestInv, SequenceInv, Confirmed, vars, workerVars,
        stateVars, stopVars, pilotVars
<1>1. CASE Worker
  <2>1. CASE (\E p \in {"register", "publish", "wait"} : Leaves(p)) /\ UNCHANGED stateVars
    BY <1>1, <2>1 DEF Worker, Leaves, transportVars
  <2>2. CASE (\E p \in {"registering", "publishing", "writing"} : LeavesWithResult(p)) /\ UNCHANGED stateVars
    BY <1>1, <2>2 DEF Worker, LeavesWithResult, Taken
  <2>3. CASE Register /\ UNCHANGED stateVars
    BY <1>1, <2>3 DEF Worker, Register, Execute
  <2>4. CASE Registered /\ UNCHANGED stateVars
    BY <1>1, <2>4 DEF Worker, Registered, Taken, Faults, Recovers
  <2>5. CASE Publish /\ UNCHANGED stateVars
    BY <1>1, <2>5 DEF Worker, Publish, Execute
  <2>6. CASE Published /\ UNCHANGED stateVars
    BY <1>1, <2>6 DEF Worker, Published, Taken, AcceptedCatalog, Faults, Recovers
  <2>7. CASE Written /\ UNCHANGED stateVars
    <3>1. CASE AcceptedWrite
      <4>1. request \in Requests /\ sequence = request.sequence + 1
            /\ request.sequence < MaxSequence
        BY <1>1, <2>7, <3>1 DEF Written, Taken, AcceptedWrite
      <4>2. sequence <= MaxSequence
        BY <4>1 DEF Requests
      <4>3. QED
        BY <1>1, <2>7, <3>1, <4>2 DEF Worker, Written, Taken, Recovers
    <3>2. CASE ~AcceptedWrite
      BY <1>1, <2>7, <3>2 DEF Worker, Written, Taken, Recovers
    <3>3. QED
      BY <3>1, <3>2
  <2>8. CASE Disconnect /\ UNCHANGED stateVars
    BY <1>1, <2>8 DEF Worker, Disconnect, Execute
  <2>9. CASE Finishes /\ UNCHANGED stateVars
    BY <1>1, <2>9 DEF Worker, Finishes, Taken, transportVars
  <2>10. CASE BackoffEnds
    BY <1>1, <2>10 DEF Worker, BackoffEnds, transportVars
  <2>11. CASE WriteState
    BY <1>1, <2>11 DEF Worker, WriteState, Write, Execute, NextSequence
  <2>12. CASE Heartbeat
    BY <1>1, <2>12 DEF Worker, Heartbeat, Write, Execute, NextSequence
  <2>13. QED
    BY <1>1, <2>1, <2>2, <2>3, <2>4, <2>5, <2>6, <2>7, <2>8, <2>9, <2>10, <2>11, <2>12
       DEF Worker, WorkerStep
<1>2. CASE TransportFails
  BY <1>2 DEF TransportFails, Ended, GivenUp
<1>3. CASE PilotAnswers
  BY <1>3 DEF PilotAnswers, Accepts, Refuses, Knows, Answer
<1>4. CASE PilotReceivesLate
  BY <1>4 DEF PilotReceivesLate, Accepts, Knows, transportVars
<1>5. CASE PilotForgets
  BY <1>5 DEF PilotForgets, transportVars
<1>6. CASE \E state \in ProviderStates : StartClient(state)
  BY <1>6 DEF StartClient, transportVars
<1>7. CASE \E state \in ProviderStates : UpdateProviderState(state)
  BY <1>7 DEF UpdateProviderState, Remember, transportVars
<1>8. CASE StopClient
  BY <1>8 DEF StopClient, transportVars
<1>9. CASE CancelRequest
  BY <1>9 DEF CancelRequest, Ended, GivenUp
<1>10. CASE Joined
  BY <1>10 DEF Joined, transportVars
<1>11. CASE UNCHANGED vars
  BY <1>11 DEF transportVars
<1>12. QED
  BY <1>1, <1>2, <1>3, <1>4, <1>5, <1>6, <1>7, <1>8, <1>9, <1>10, <1>11 DEF Next

\* Every step keeps session numbers among those given out.
LEMMA SessionStep ==
  ASSUME Inv, [Next]_vars
  PROVE  SessionInv'
<1> USE BoundsAssumption, NoneAssumption
    DEF Inv, TypeOK, SessionInv, vars, workerVars, stateVars, stopVars, pilotVars
<1>1. CASE Worker
  <2>1. CASE (\E p \in {"register", "publish", "wait"} : Leaves(p)) /\ UNCHANGED stateVars
    BY <1>1, <2>1 DEF Worker, Leaves, transportVars
  <2>2. CASE (\E p \in {"registering", "publishing", "writing"} : LeavesWithResult(p)) /\ UNCHANGED stateVars
    BY <1>1, <2>2 DEF Worker, LeavesWithResult, Taken
  <2>3. CASE Register /\ UNCHANGED stateVars
    BY <1>1, <2>3 DEF Worker, Register, Execute
  <2>4. CASE Registered /\ UNCHANGED stateVars
    BY <1>1, <2>4 DEF Worker, Registered, Taken, Faults, Recovers
  <2>5. CASE Publish /\ UNCHANGED stateVars
    BY <1>1, <2>5 DEF Worker, Publish, Execute
  <2>6. CASE Published /\ UNCHANGED stateVars
    BY <1>1, <2>6 DEF Worker, Published, Taken, AcceptedCatalog, Faults, Recovers
  <2>7. CASE Written /\ UNCHANGED stateVars
    BY <1>1, <2>7 DEF Worker, Written, Taken, AcceptedWrite, Recovers
  <2>8. CASE Disconnect /\ UNCHANGED stateVars
    BY <1>1, <2>8 DEF Worker, Disconnect, Execute
  <2>9. CASE Finishes /\ UNCHANGED stateVars
    BY <1>1, <2>9 DEF Worker, Finishes, Taken, transportVars
  <2>10. CASE BackoffEnds
    BY <1>1, <2>10 DEF Worker, BackoffEnds, transportVars
  <2>11. CASE WriteState
    BY <1>1, <2>11 DEF Worker, WriteState, Write, Execute, NextSequence
  <2>12. CASE Heartbeat
    BY <1>1, <2>12 DEF Worker, Heartbeat, Write, Execute, NextSequence
  <2>13. QED
    BY <1>1, <2>1, <2>2, <2>3, <2>4, <2>5, <2>6, <2>7, <2>8, <2>9, <2>10, <2>11, <2>12
       DEF Worker, WorkerStep
<1>2. CASE TransportFails
  <2>1. \A r \in late' : r \in late \/ (r = request /\ request # None)
    BY <1>2 DEF TransportFails, GivenUp
  <2>2. QED
    BY <1>2, <2>1 DEF TransportFails, Ended
<1>3. CASE PilotAnswers
  <2>1. UNCHANGED <<session, request, late>> /\ result'.session = sessions'
    BY <1>3, AnswerType DEF PilotAnswers
  <2>2. sessions' \in Nat /\ sessions <= sessions'
    BY <1>3, AnswerType
  <2>3. request # None => request.session \in Nat
    BY DEF Requests
  <2>4. \A r \in late : r.session \in Nat
    BY DEF Requests
  <2>5. QED
    BY <2>1, <2>2, <2>3, <2>4
<1>4. CASE PilotReceivesLate
  <2>1. PICK r \in late : Accepts(r, "ok") /\ late' = late \ {r}
    BY <1>4 DEF PilotReceivesLate
  <2>2. sessions' \in Nat /\ sessions <= sessions'
    BY <2>1, AcceptsType
  <2>3. request # None => request.session \in Nat
    BY DEF Requests
  <2>4. \A q \in late : q.session \in Nat
    BY DEF Requests
  <2>5. result # None => result.session \in Nat
    BY DEF Results
  <2>6. QED
    BY <1>4, <2>1, <2>2, <2>3, <2>4, <2>5 DEF PilotReceivesLate, transportVars
<1>5. CASE PilotForgets
  BY <1>5 DEF PilotForgets, transportVars
<1>6. CASE \E state \in ProviderStates : StartClient(state)
  BY <1>6 DEF StartClient, transportVars
<1>7. CASE \E state \in ProviderStates : UpdateProviderState(state)
  BY <1>7 DEF UpdateProviderState, Remember, transportVars
<1>8. CASE StopClient
  BY <1>8 DEF StopClient, transportVars
<1>9. CASE CancelRequest
  <2>1. \A r \in late' : r \in late \/ (r = request /\ request # None)
    BY <1>9 DEF CancelRequest, GivenUp
  <2>2. QED
    BY <1>9, <2>1 DEF CancelRequest, Ended
<1>10. CASE Joined
  BY <1>10 DEF Joined, transportVars
<1>11. CASE UNCHANGED vars
  BY <1>11 DEF transportVars
<1>12. QED
  BY <1>1, <1>2, <1>3, <1>4, <1>5, <1>6, <1>7, <1>8, <1>9, <1>10, <1>11 DEF Next

\* Every step keeps late writes out of the session.
LEMMA LateStep ==
  ASSUME Inv, [Next]_vars
  PROVE  LateInv'
<1> USE BoundsAssumption, NoneAssumption
    DEF Inv, TypeOK, RequestInv, SessionInv, LateInv, NoLateWrite, Confirmed,
        InSession, vars, workerVars, stateVars, stopVars, pilotVars
<1>1. CASE Worker
  <2>1. CASE (\E p \in {"register", "publish", "wait"} : Leaves(p)) /\ UNCHANGED stateVars
    BY <1>1, <2>1 DEF Worker, Leaves, transportVars
  <2>2. CASE (\E p \in {"registering", "publishing", "writing"} : LeavesWithResult(p)) /\ UNCHANGED stateVars
    BY <1>1, <2>2 DEF Worker, LeavesWithResult, Taken
  <2>3. CASE Register /\ UNCHANGED stateVars
    BY <1>1, <2>3 DEF Worker, Register, Execute
  <2>4. CASE Registered /\ UNCHANGED stateVars
    BY <1>1, <2>4 DEF Worker, Registered, Taken, Faults, Recovers
  <2>5. CASE Publish /\ UNCHANGED stateVars
    BY <1>1, <2>5 DEF Worker, Publish, Execute
  <2>6. CASE Published /\ UNCHANGED stateVars
    BY <1>1, <2>6 DEF Worker, Published, Taken, AcceptedCatalog, Faults, Recovers
  <2>7. CASE Written /\ UNCHANGED stateVars
    BY <1>1, <2>7 DEF Worker, Written, Taken, AcceptedWrite, Recovers
  <2>8. CASE Disconnect /\ UNCHANGED stateVars
    BY <1>1, <2>8 DEF Worker, Disconnect, Execute
  <2>9. CASE Finishes /\ UNCHANGED stateVars
    BY <1>1, <2>9 DEF Worker, Finishes, Taken, transportVars
  <2>10. CASE BackoffEnds
    BY <1>1, <2>10 DEF Worker, BackoffEnds, transportVars
  <2>11. CASE WriteState
    BY <1>1, <2>11 DEF Worker, WriteState, Write, Execute, NextSequence
  <2>12. CASE Heartbeat
    BY <1>1, <2>12 DEF Worker, Heartbeat, Write, Execute, NextSequence
  <2>13. QED
    BY <1>1, <2>1, <2>2, <2>3, <2>4, <2>5, <2>6, <2>7, <2>8, <2>9, <2>10, <2>11, <2>12
       DEF Worker, WorkerStep
<1>2. CASE TransportFails
  <2>1. \A r \in late' : r \in late \/ (r = request /\ request # None /\ result = None)
    BY <1>2 DEF TransportFails, GivenUp
  <2>2. result' = result \/ (result' = Ended("error") /\ ~Confirmed')
    BY <1>2 DEF TransportFails, Ended
  <2>3. UNCHANGED <<pc, session, request>>
    BY <1>2 DEF TransportFails
  <2>4. pc \in InSession => NoLateWrite(session)'
    BY <2>1, <2>3
  <2>5. pc = "writing" /\ (result' = None \/ Confirmed') => NoLateWrite(session)'
    BY <1>2, <2>1, <2>2, <2>3, EndedType DEF TransportFails
  <2>6. pc = "registering" /\ Confirmed' => NoLateWrite(result.session)'
    BY <1>2, <2>1, <2>2, <2>3, EndedType DEF TransportFails
  <2>7. QED
    BY <2>3, <2>4, <2>5, <2>6
<1>3. CASE PilotAnswers
  BY <1>3 DEF PilotAnswers, Accepts, Refuses, Knows, Answer
<1>4. CASE PilotReceivesLate
  BY <1>4 DEF PilotReceivesLate, Accepts, Knows, transportVars
<1>5. CASE PilotForgets
  BY <1>5 DEF PilotForgets, transportVars
<1>6. CASE \E state \in ProviderStates : StartClient(state)
  BY <1>6 DEF StartClient, transportVars
<1>7. CASE \E state \in ProviderStates : UpdateProviderState(state)
  BY <1>7 DEF UpdateProviderState, Remember, transportVars
<1>8. CASE StopClient
  BY <1>8 DEF StopClient, transportVars
<1>9. CASE CancelRequest
  <2>1. \A r \in late' : r \in late \/ (r = request /\ request # None /\ result = None)
    BY <1>9 DEF CancelRequest, GivenUp
  <2>2. result' = result \/ (result' = Ended("error") /\ ~Confirmed')
    BY <1>9 DEF CancelRequest, Ended
  <2>3. UNCHANGED <<pc, session, request>>
    BY <1>9 DEF CancelRequest
  <2>4. pc \in InSession => NoLateWrite(session)'
    BY <2>1, <2>3
  <2>5. pc = "writing" /\ (result' = None \/ Confirmed') => NoLateWrite(session)'
    BY <1>9, <2>1, <2>2, <2>3, EndedType DEF CancelRequest
  <2>6. pc = "registering" /\ Confirmed' => NoLateWrite(result.session)'
    BY <1>9, <2>1, <2>2, <2>3, EndedType DEF CancelRequest
  <2>7. QED
    BY <2>3, <2>4, <2>5, <2>6
<1>10. CASE Joined
  BY <1>10 DEF Joined, transportVars
<1>11. CASE UNCHANGED vars
  BY <1>11 DEF transportVars
<1>12. QED
  BY <1>1, <1>2, <1>3, <1>4, <1>5, <1>6, <1>7, <1>8, <1>9, <1>10, <1>11 DEF Next

\* Every step keeps the Pilot's copy of the state and sequence.
LEMMA StateStep ==
  ASSUME Inv, [Next]_vars
  PROVE  StateInv'
<1> USE BoundsAssumption, NoneAssumption
    DEF Inv, TypeOK, RequestInv, SequenceInv, SessionInv, LateInv, NoLateWrite,
        StateInv, Confirmed, InSession, Current, AtPilot, vars, workerVars,
        stateVars, stopVars, pilotVars
<1>1. CASE Worker
  <2>1. CASE (\E p \in {"register", "publish", "wait"} : Leaves(p)) /\ UNCHANGED stateVars
    BY <1>1, <2>1 DEF Worker, Leaves, transportVars
  <2>2. CASE (\E p \in {"registering", "publishing", "writing"} : LeavesWithResult(p)) /\ UNCHANGED stateVars
    BY <1>1, <2>2 DEF Worker, LeavesWithResult, Taken
  <2>3. CASE Register /\ UNCHANGED stateVars
    BY <1>1, <2>3 DEF Worker, Register, Execute
  <2>4. CASE Registered /\ UNCHANGED stateVars
    BY <1>1, <2>4 DEF Worker, Registered, Taken, Faults, Recovers
  <2>5. CASE Publish /\ UNCHANGED stateVars
    BY <1>1, <2>5 DEF Worker, Publish, Execute
  <2>6. CASE Published /\ UNCHANGED stateVars
    BY <1>1, <2>6 DEF Worker, Published, Taken, AcceptedCatalog, Faults, Recovers
  <2>7. CASE Written /\ UNCHANGED stateVars
    <3>1. CASE AcceptedWrite
      <4>1. Confirmed /\ pc' = "wait" /\ UNCHANGED <<session, sequence, current, update, pilot>>
        BY <1>1, <2>7, <3>1 DEF Worker, Written, Taken, AcceptedWrite
      <4>2. request.sequence \in Nat /\ sequence = request.sequence + 1
        BY <1>1, <2>7 DEF Written, Taken, Requests
      <4>3. AtPilot => pilot.sequence \in Nat
        BY DEF Registrations
      <4>4. AtPilot => Current(pilot.state) /\ pilot.sequence < sequence
        BY <1>1, <2>7, <4>1, <4>2, <4>3 DEF Written, Taken
      <4>5. QED
        BY <4>1, <4>4
    <3>2. CASE ~AcceptedWrite
      BY <1>1, <2>7, <3>2 DEF Worker, Written, Taken, Recovers
    <3>3. QED
      BY <3>1, <3>2
  <2>8. CASE Disconnect /\ UNCHANGED stateVars
    BY <1>1, <2>8 DEF Worker, Disconnect, Execute
  <2>9. CASE Finishes /\ UNCHANGED stateVars
    BY <1>1, <2>9 DEF Worker, Finishes, Taken, transportVars
  <2>10. CASE BackoffEnds
    BY <1>1, <2>10 DEF Worker, BackoffEnds, transportVars
  <2>11. CASE WriteState
    BY <1>1, <2>11 DEF Worker, WriteState, Write, Execute, NextSequence
  <2>12. CASE Heartbeat
    BY <1>1, <2>12 DEF Worker, Heartbeat, Write, Execute, NextSequence
  <2>13. QED
    BY <1>1, <2>1, <2>2, <2>3, <2>4, <2>5, <2>6, <2>7, <2>8, <2>9, <2>10, <2>11, <2>12
       DEF Worker, WorkerStep
<1>2. CASE TransportFails
  BY <1>2 DEF TransportFails, Ended, GivenUp
<1>3. CASE PilotAnswers
  <2>1. UNCHANGED <<workerVars, stateVars, stopVars, request, cancelled, instance, late>>
    BY <1>3 DEF PilotAnswers
  <2>2. CASE Accepts(request, "ok")
    <3>1. request \in Requests /\ result = None /\ result' # None
          /\ result'.session = sessions'
      BY <1>3, AnswerType
    <3>2. Effect(request)
      BY <2>2, <3>1, AcceptsEffect
    <3>3. QED
      BY <2>1, <3>1, <3>2 DEF Effect, Requests, Registrations
  <2>3. CASE UNCHANGED <<pilot, sessions>> /\ ~Accepts(request, "ok")
    <3>1. result = None /\ result' # None /\ ~Confirmed'
      BY <1>3, <2>3, AnswerType
    <3>2. QED
      BY <2>1, <2>3, <3>1
  <2>4. QED
    BY <1>3, <2>2, <2>3, AnswerType
<1>4. CASE PilotReceivesLate
  <2>1. PICK r \in late : Accepts(r, "ok") /\ late' = late \ {r}
    BY <1>4 DEF PilotReceivesLate
  <2>2. r \in Requests
    BY <2>1
  <2>3. Effect(r)
    BY <2>1, <2>2, AcceptsEffect
  <2>4. UNCHANGED <<workerVars, stateVars, stopVars, request, result, cancelled, instance>>
    BY <1>4 DEF PilotReceivesLate, transportVars
  <2>5. QED
    BY <2>1, <2>3, <2>4 DEF Effect, Requests, Results, Registrations
<1>5. CASE PilotForgets
  BY <1>5 DEF PilotForgets, transportVars
<1>6. CASE \E state \in ProviderStates : StartClient(state)
  BY <1>6 DEF StartClient, transportVars
<1>7. CASE \E state \in ProviderStates : UpdateProviderState(state)
  BY <1>7 DEF UpdateProviderState, Remember, transportVars
<1>8. CASE StopClient
  BY <1>8 DEF StopClient, transportVars
<1>9. CASE CancelRequest
  BY <1>9 DEF CancelRequest, Ended, GivenUp
<1>10. CASE Joined
  BY <1>10 DEF Joined, transportVars
<1>11. CASE UNCHANGED vars
  BY <1>11 DEF transportVars
<1>12. QED
  BY <1>1, <1>2, <1>3, <1>4, <1>5, <1>6, <1>7, <1>8, <1>9, <1>10, <1>11 DEF Next

\* Every step keeps ONLINE for published sessions.
LEMMA OnlineStep ==
  ASSUME Inv, [Next]_vars
  PROVE  OnlineInv'
<1> USE BoundsAssumption, NoneAssumption
    DEF Inv, TypeOK, RequestInv, SessionInv, OnlineInv, OnlineIsPublished,
        Confirmed, AtPilot, vars, workerVars, stateVars, stopVars, pilotVars
<1>1. CASE Worker
  <2>1. CASE (\E p \in {"register", "publish", "wait"} : Leaves(p)) /\ UNCHANGED stateVars
    BY <1>1, <2>1 DEF Worker, Leaves, transportVars
  <2>2. CASE (\E p \in {"registering", "publishing", "writing"} : LeavesWithResult(p)) /\ UNCHANGED stateVars
    BY <1>1, <2>2 DEF Worker, LeavesWithResult, Taken
  <2>3. CASE Register /\ UNCHANGED stateVars
    BY <1>1, <2>3 DEF Worker, Register, Execute
  <2>4. CASE Registered /\ UNCHANGED stateVars
    BY <1>1, <2>4 DEF Worker, Registered, Taken, Faults, Recovers
  <2>5. CASE Publish /\ UNCHANGED stateVars
    BY <1>1, <2>5 DEF Worker, Publish, Execute
  <2>6. CASE Published /\ UNCHANGED stateVars
    BY <1>1, <2>6 DEF Worker, Published, Taken, AcceptedCatalog, Faults, Recovers
  <2>7. CASE Written /\ UNCHANGED stateVars
    BY <1>1, <2>7 DEF Worker, Written, Taken, AcceptedWrite, Recovers
  <2>8. CASE Disconnect /\ UNCHANGED stateVars
    BY <1>1, <2>8 DEF Worker, Disconnect, Execute
  <2>9. CASE Finishes /\ UNCHANGED stateVars
    BY <1>1, <2>9 DEF Worker, Finishes, Taken, transportVars
  <2>10. CASE BackoffEnds
    BY <1>1, <2>10 DEF Worker, BackoffEnds, transportVars
  <2>11. CASE WriteState
    BY <1>1, <2>11 DEF Worker, WriteState, Write, Execute, NextSequence
  <2>12. CASE Heartbeat
    BY <1>1, <2>12 DEF Worker, Heartbeat, Write, Execute, NextSequence
  <2>13. QED
    BY <1>1, <2>1, <2>2, <2>3, <2>4, <2>5, <2>6, <2>7, <2>8, <2>9, <2>10, <2>11, <2>12
       DEF Worker, WorkerStep
<1>2. CASE TransportFails
  BY <1>2 DEF TransportFails, Ended, GivenUp
<1>3. CASE PilotAnswers
  <2>1. UNCHANGED <<workerVars, stateVars, stopVars, request, cancelled, instance, late>>
    BY <1>3 DEF PilotAnswers
  <2>2. CASE Accepts(request, "ok")
    <3>1. request \in Requests /\ result = None /\ result' # None
          /\ result'.session = sessions'
      BY <1>3, AnswerType
    <3>2. Effect(request)
      BY <2>2, <3>1, AcceptsEffect
    <3>3. QED
      BY <2>1, <3>1, <3>2 DEF Effect, Requests, Registrations
  <2>3. CASE UNCHANGED <<pilot, sessions>> /\ ~Accepts(request, "ok")
    <3>1. result = None /\ result' # None /\ ~Confirmed'
      BY <1>3, <2>3, AnswerType
    <3>2. QED
      BY <2>1, <2>3, <3>1
  <2>4. QED
    BY <1>3, <2>2, <2>3, AnswerType
<1>4. CASE PilotReceivesLate
  <2>1. PICK r \in late : Accepts(r, "ok") /\ late' = late \ {r}
    BY <1>4 DEF PilotReceivesLate
  <2>2. r \in Requests
    BY <2>1
  <2>3. Effect(r)
    BY <2>1, <2>2, AcceptsEffect
  <2>4. UNCHANGED <<workerVars, stateVars, stopVars, request, result, cancelled, instance>>
    BY <1>4 DEF PilotReceivesLate, transportVars
  <2>5. QED
    BY <2>1, <2>3, <2>4 DEF Effect, Requests, Results, Registrations
<1>5. CASE PilotForgets
  BY <1>5 DEF PilotForgets, transportVars
<1>6. CASE \E state \in ProviderStates : StartClient(state)
  BY <1>6 DEF StartClient, transportVars
<1>7. CASE \E state \in ProviderStates : UpdateProviderState(state)
  BY <1>7 DEF UpdateProviderState, Remember, transportVars
<1>8. CASE StopClient
  BY <1>8 DEF StopClient, transportVars
<1>9. CASE CancelRequest
  BY <1>9 DEF CancelRequest, Ended, GivenUp
<1>10. CASE Joined
  BY <1>10 DEF Joined, transportVars
<1>11. CASE UNCHANGED vars
  BY <1>11 DEF transportVars
<1>12. QED
  BY <1>1, <1>2, <1>3, <1>4, <1>5, <1>6, <1>7, <1>8, <1>9, <1>10, <1>11 DEF Next

-----------------------------------------------------------------------------
(***************************************************************************)
(* Theorems.                                                               *)
(***************************************************************************)
\* The invariant holds throughout, whatever is lost, given up, received late,
\* refused or forgotten, and whenever stopClient is called.
THEOREM Invariance == Spec => []Inv
<1>1. Inv /\ [Next]_vars => Inv'
  BY TypeStep, RequestStep, SequenceStep, SessionStep, LateStep, StateStep, OnlineStep
     DEF Inv
<1>2. QED
  BY InitInv, <1>1, PTL DEF Spec

\* PilotIntegrationClient is type correct: the worker has a request exactly at
\* the steps that wait for one, and sequences stay in their range.
THEOREM TypeCorrect == Spec => []TypeOK
<1>1. Inv => TypeOK
  BY DEF Inv
<1>2. QED
  BY Invariance, <1>1, PTL

\* When runSession waits and has no update to send, the Pilot has the current
\* provider state, if it still has the session.
THEOREM Converges == Spec => []StateConverges
<1>1. Inv => StateConverges
  BY DEF Inv, StateInv, StateConverges, Current, InSession
<1>2. QED
  BY Invariance, <1>1, PTL

\* No write of runSession carries a sequence that the Pilot has seen in this
\* session.
THEOREM Fresh == Spec => []SequenceFresh
<1>1. Inv => SequenceFresh
  <2> SUFFICES ASSUME Inv, pc = "writing", result = None, AtPilot
               PROVE  request.sequence > pilot.sequence
    BY DEF SequenceFresh
  <2>1. request \in Requests /\ pilot \in Registrations
    BY DEF Inv, TypeOK, AtPilot
  <2>2. pilot.sequence < request.sequence
    BY DEF Inv, StateInv
  <2>3. QED
    BY <2>1, <2>2, BoundsAssumption DEF Requests, Registrations
<1>2. QED
  BY Invariance, <1>1, PTL

\* The client calls itself ONLINE only in a session whose catalog the Pilot has.
THEOREM Online == Spec => []OnlineIsPublished
<1>1. Inv => OnlineIsPublished
  BY DEF Inv, OnlineInv
<1>2. QED
  BY Invariance, <1>1, PTL
=============================================================================
