------------------------- MODULE VpnTaskTypeProofs -------------------------
(***************************************************************************)
(* VpnTask keeps its types, for every number of attempts, queue capacity,  *)
(* and set of sessions and waiters. One lemma per actor, one step per      *)
(* action, and under it one step per group of variables it may change.     *)
(***************************************************************************)
EXTENDS VpnTask, TLAPS

\* Attempt numbers: None is not one, and next_attempt is one below the bound
LEMMA AttemptFacts ==
  /\ None \notin Attempt /\ Attempt \subseteq Nat
  /\ \A n \in 0 .. MaxAttempts : n < MaxAttempts => n \in Attempt /\ n + 1 \in 0 .. MaxAttempts
  BY ConstantsAssumption DEF Attempt

LEMMA KindFacts == Kinds \subseteq Kind
  BY ConstantsAssumption, Zenon DEF Kind

LEMMA EvType ==
  ASSUME NEW t \in EventType, NEW a \in Attempt
  PROVE  Ev(t, a) \in Event
  BY Zenon DEF Ev, Event

\* Sending an event, with or without waiting for room, keeps the queue a queue
LEMMA SendKeepsType ==
  ASSUME QueueTypes, NEW e \in Event,
         TrySend(e) \/ (~QueueFull /\ queue' = Append(queue, e))
  PROVE  queue' \in Seq(Event) /\ Len(queue') <= QueueCap
<1>1. CASE queue' = queue
  BY <1>1, Zenon DEF QueueTypes
<1>2. CASE ~QueueFull /\ queue' = Append(queue, e)
  <2>1. Len(queue') = Len(queue) + 1 /\ queue' \in Seq(Event)
    BY <1>2 DEF QueueTypes
  <2> QED BY <1>2, <2>1, ConstantsAssumption DEF QueueTypes, QueueFull
<1> QED BY <1>1, <1>2, Zenon DEF TrySend
-----------------------------------------------------------------------------
(* Type correctness *)

LEMMA InitType == Init => TypeOK
<1> SUFFICES ASSUME Init PROVE TypeOK
  OBVIOUS
<1> USE AttemptFacts, ConstantsAssumption DEF Init
<1>1. AdmissionTypes
  <2>1. 0 \in 0 .. MaxAttempts
    BY ConstantsAssumption
  <2>2. next \in 0 .. MaxAttempts /\ closed \in BOOLEAN
    BY <2>1, Zenon
  <2> QED BY <2>2, Zenon DEF AdmissionTypes, Phase
<1>2. QueueTypes BY DEF QueueTypes, VpnState
<1>3. ClientTypes BY Zenon DEF ClientTypes, Reservation, Kind
<1>4. ActorTypes BY Zenon DEF ActorTypes, Actor
<1>5. WorkerTypes BY Zenon DEF WorkerTypes, Worker, Ledger
<1>6. WaiterTypes BY Zenon DEF WaiterTypes
<1> QED BY <1>1, <1>2, <1>3, <1>4, <1>5, <1>6, Zenon DEF TypeOK

\* Clients, signals and administrators
LEMMA ClientStepType ==
  ASSUME TypeOK, ClientStep
  PROVE  TypeOK'
<1> USE AttemptFacts, KindFacts, ConstantsAssumption DEF TypeOK
<1>1. ASSUME NEW s \in Sessions, NEW k \in Kinds, NEW r \in Attempt \cup {None},
             Reserve(s, k, r)
      PROVE  TypeOK'
  <2>1. AdmissionTypes'
    BY <1>1, Zenon DEF AdmissionTypes, Reserve, Phase, admissionVars, clientVars, actorVars,
       workerVars, waitVars
  <2>2. ClientTypes'
    BY <1>1, Zenon DEF ClientTypes, Reserve, Reservation, admissionVars, clientVars,
       actorVars, workerVars, waitVars
  <2>3. WorkerTypes'
    BY <1>1, Zenon DEF WorkerTypes, Reserve, Worker, Sending, Ledger, admissionVars,
       clientVars, actorVars, workerVars, waitVars
  <2>4. QueueTypes' /\ ActorTypes' /\ WaiterTypes'
    BY <1>1, Zenon DEF Reserve, QueueTypes, ActorTypes, WaiterTypes, admissionVars,
       clientVars, actorVars, workerVars, waitVars
  <2> QED BY <2>1, <2>2, <2>3, <2>4, Zenon
<1>2. CASE Disconnect
  <2>1. AdmissionTypes'
    BY <1>2, Zenon DEF AdmissionTypes, Disconnect, RequestDisconnect, ClearRestart, Phase,
       admissionVars, clientVars, actorVars, workerVars, waitVars
  <2>2. QueueTypes'
    <3>1. CASE current = None \/ AlreadyStopped(current)
      BY <1>2, <3>1, Zenon DEF QueueTypes, Disconnect, RequestDisconnect, VpnState
    <3>2. CASE current # None /\ ~AlreadyStopped(current)
      <4>1. Ev("Stop", current) \in Event
        BY <3>2, EvType, Zenon DEF AdmissionTypes, EventType
      <4> QED
        BY <1>2, <3>2, <4>1, SendKeepsType, Zenon DEF QueueTypes, Disconnect, RequestDisconnect
    <3> QED BY <3>1, <3>2, Zenon
  <2>3. ClientTypes' /\ ActorTypes' /\ WorkerTypes' /\ WaiterTypes'
    BY <1>2, Zenon DEF Disconnect, RequestDisconnect, ClientTypes, ActorTypes, WorkerTypes,
       WaiterTypes, admissionVars, clientVars, actorVars, workerVars, waitVars
  <2> QED BY <2>1, <2>2, <2>3, Zenon
<1>3. CASE RequestShutdown
  <2>1. ActorTypes'
    BY <1>3, Zenon DEF ActorTypes, RequestShutdown, Actor, Publishing, Ending,
       admissionVars, clientVars, actorVars, workerVars, waitVars
  <2>2. AdmissionTypes' /\ QueueTypes' /\ ClientTypes' /\ WorkerTypes' /\ WaiterTypes'
    BY <1>3, Zenon DEF RequestShutdown, AdmissionTypes, QueueTypes, ClientTypes,
       WorkerTypes, WaiterTypes, admissionVars, clientVars, actorVars, workerVars,
       waitVars
  <2> QED BY <2>1, <2>2, Zenon
<1>4. ASSUME NEW w \in Waiters, WaitDisconnect(w) PROVE TypeOK'
  <2>1. AdmissionTypes'
    BY <1>4, Zenon DEF AdmissionTypes, WaitDisconnect, Phase, admissionVars, clientVars,
       actorVars, workerVars, waitVars
  <2>2. QueueTypes'
    <3>1. Ev("Stop", current) \in Event
      BY <1>4, EvType, Zenon DEF AdmissionTypes, EventType, WaitDisconnect
    <3> QED BY <1>4, <3>1, SendKeepsType, Zenon DEF QueueTypes, WaitDisconnect
  <2>3. WaiterTypes'
    BY <1>4, Zenon DEF WaiterTypes, WaitDisconnect, AdmissionTypes, admissionVars,
       clientVars, actorVars, workerVars, waitVars
  <2>4. ClientTypes' /\ ActorTypes' /\ WorkerTypes'
    BY <1>4, Zenon DEF WaitDisconnect, ClientTypes, ActorTypes, WorkerTypes, admissionVars,
       clientVars, actorVars, workerVars, waitVars
  <2> QED BY <2>1, <2>2, <2>3, <2>4, Zenon
<1>5. ASSUME NEW w \in Waiters, NEW a \in Attempt, WaitDrain(w, a) PROVE TypeOK'
  <2>1. AdmissionTypes'
    BY <1>5, Zenon DEF AdmissionTypes, WaitDrain, Phase, admissionVars, clientVars,
       actorVars, workerVars, waitVars
  <2>2. WaiterTypes'
    BY <1>5, Zenon DEF WaiterTypes, WaitDrain, admissionVars, clientVars, actorVars,
       workerVars, waitVars
  <2>3. QueueTypes' /\ ClientTypes' /\ ActorTypes' /\ WorkerTypes'
    BY <1>5, Zenon DEF WaitDrain, QueueTypes, ClientTypes, ActorTypes, WorkerTypes,
       admissionVars, clientVars, actorVars, workerVars, waitVars
  <2> QED BY <2>1, <2>2, <2>3, Zenon
<1>6. ASSUME NEW a \in Attempt, DrainCancel(a) PROVE TypeOK'
  <2>1. AdmissionTypes'
    BY <1>6, Zenon DEF AdmissionTypes, DrainCancel, Phase, admissionVars, clientVars,
       actorVars, workerVars, waitVars
  <2>2. QueueTypes' /\ ClientTypes' /\ ActorTypes' /\ WorkerTypes' /\ WaiterTypes'
    BY <1>6, Zenon DEF DrainCancel, QueueTypes, ClientTypes, ActorTypes, WorkerTypes,
       WaiterTypes, admissionVars, clientVars, actorVars, workerVars, waitVars
  <2> QED BY <2>1, <2>2, Zenon
<1>7. ASSUME NEW a \in Attempt, RevokeApproval(a) PROVE TypeOK'
  <2>1. ClientTypes'
    BY <1>7, Zenon DEF ClientTypes, RevokeApproval, Reservation, admissionVars, clientVars,
       actorVars, workerVars, waitVars
  <2>2. AdmissionTypes' /\ QueueTypes' /\ ActorTypes' /\ WorkerTypes' /\ WaiterTypes'
    BY <1>7, Zenon DEF RevokeApproval, AdmissionTypes, QueueTypes, ActorTypes, WorkerTypes,
       WaiterTypes, admissionVars, clientVars, actorVars, workerVars, waitVars
  <2> QED BY <2>1, <2>2, Zenon
<1>8. ASSUME NEW s \in Sessions, RevokeSession(s) PROVE TypeOK'
  <2>1. AdmissionTypes'
    BY <1>8, Zenon DEF AdmissionTypes, RevokeSession, Phase, admissionVars, clientVars,
       actorVars, workerVars, waitVars
  <2>2. ClientTypes'
    BY <1>8, Zenon DEF ClientTypes, RevokeSession, Reservation, admissionVars, clientVars,
       actorVars, workerVars, waitVars
  <2>3. QueueTypes' /\ ActorTypes' /\ WorkerTypes' /\ WaiterTypes'
    BY <1>8, Zenon DEF RevokeSession, QueueTypes, ActorTypes, WorkerTypes, WaiterTypes,
       admissionVars, clientVars, actorVars, workerVars, waitVars
  <2> QED BY <2>1, <2>2, <2>3, Zenon
<1> QED BY <1>1, <1>2, <1>3, <1>4, <1>5, <1>6, <1>7, <1>8, Zenon DEF ClientStep

\* The request handler that holds a ConnectReservation
LEMMA HandlerType ==
  ASSUME TypeOK, NEW a \in Attempt, Handler(a)
  PROVE  TypeOK'
<1> USE AttemptFacts, KindFacts, ConstantsAssumption DEF TypeOK
<1>1. CASE Commit(a)
  <2>1. AdmissionTypes'
    BY <1>1, Zenon DEF AdmissionTypes, Commit, Phase, admissionVars, clientVars, actorVars,
       workerVars, waitVars
  <2>2. QueueTypes'
    BY <1>1 DEF QueueTypes, Commit, Event, EventType, Ev, QueueFull, TrySend,
       VpnState, admissionVars, clientVars, actorVars, workerVars, waitVars
  <2>3. ClientTypes'
    BY <1>1, Zenon DEF ClientTypes, Commit, Reservation, admissionVars, clientVars,
       actorVars, workerVars, waitVars
  <2>4. WorkerTypes'
    BY <1>1, Zenon DEF WorkerTypes, Commit, Worker, Sending, Ledger, admissionVars,
       clientVars, actorVars, workerVars, waitVars
  <2>5. ActorTypes' /\ WaiterTypes'
    BY <1>1, Zenon DEF Commit, ActorTypes, WaiterTypes, admissionVars, clientVars,
       actorVars, workerVars, waitVars
  <2> QED BY <2>1, <2>2, <2>3, <2>4, <2>5, Zenon
<1>2. CASE Abandon(a)
  <2>1. ClientTypes'
    BY <1>2, Zenon DEF ClientTypes, Abandon, Reservation, admissionVars, clientVars,
       actorVars, workerVars, waitVars
  <2>2. AdmissionTypes' /\ QueueTypes' /\ ActorTypes' /\ WorkerTypes' /\ WaiterTypes'
    BY <1>2, Zenon DEF Abandon, AdmissionTypes, QueueTypes, ActorTypes, WorkerTypes,
       WaiterTypes, admissionVars, clientVars, actorVars, workerVars, waitVars
  <2> QED BY <2>1, <2>2, Zenon
<1>3. CASE DropClear(a)
  <2>1. AdmissionTypes'
    BY <1>3, Zenon DEF AdmissionTypes, DropClear, Phase, admissionVars, clientVars,
       actorVars, workerVars, waitVars
  <2>2. ClientTypes'
    BY <1>3, Zenon DEF ClientTypes, DropClear, Reservation, admissionVars, clientVars,
       actorVars, workerVars, waitVars
  <2>3. QueueTypes' /\ ActorTypes' /\ WorkerTypes' /\ WaiterTypes'
    BY <1>3, Zenon DEF DropClear, QueueTypes, ActorTypes, WorkerTypes, WaiterTypes,
       admissionVars, clientVars, actorVars, workerVars, waitVars
  <2> QED BY <2>1, <2>2, <2>3, Zenon
<1>4. CASE DropSignal(a)
  <2>1. AdmissionTypes'
    BY <1>4, Zenon DEF AdmissionTypes, DropSignal, Complete, Phase, admissionVars,
       clientVars, actorVars, workerVars, waitVars
  <2>2. ClientTypes'
    BY <1>4, Zenon DEF ClientTypes, DropSignal, Complete, Reservation, admissionVars,
       clientVars, actorVars, workerVars, waitVars
  <2>3. WaiterTypes'
    BY <1>4, Zenon DEF WaiterTypes, DropSignal, Complete, admissionVars, clientVars,
       actorVars, workerVars, waitVars
  <2>4. QueueTypes' /\ ActorTypes' /\ WorkerTypes'
    BY <1>4, Zenon DEF DropSignal, Complete, QueueTypes, ActorTypes, WorkerTypes,
       admissionVars, clientVars, actorVars, workerVars, waitVars
  <2> QED BY <2>1, <2>2, <2>3, <2>4, Zenon
<1>5. CASE DropWake(a)
  <2>1. QueueTypes'
    <3>1. Ev("PreparationReleased", a) \in Event
      BY EvType, Zenon DEF EventType
    <3> QED BY <1>5, <3>1, SendKeepsType, Zenon DEF QueueTypes, DropWake, WakeActor
  <2>2. ClientTypes'
    BY <1>5, Zenon DEF ClientTypes, DropWake, Reservation, admissionVars, clientVars,
       actorVars, workerVars, waitVars
  <2>3. AdmissionTypes' /\ ActorTypes' /\ WorkerTypes' /\ WaiterTypes'
    BY <1>5, Zenon DEF DropWake, AdmissionTypes, ActorTypes, WorkerTypes, WaiterTypes,
       admissionVars, clientVars, actorVars, workerVars, waitVars
  <2> QED BY <2>1, <2>2, <2>3, Zenon
<1> QED BY <1>1, <1>2, <1>3, <1>4, <1>5, Zenon DEF Handler

\* Callers of disconnect_and_wait and AttemptDrain::wait
LEMMA WaiterType ==
  ASSUME TypeOK, NEW w \in Waiters, WaiterStep(w)
  PROVE  TypeOK'
<1> USE AttemptFacts, KindFacts, ConstantsAssumption DEF TypeOK
<1>1. CASE WaiterArm(w)
  <2>1. WaiterTypes'
    BY <1>1, Zenon DEF WaiterTypes, WaiterArm, admissionVars, clientVars, actorVars,
       workerVars, waitVars
  <2>2. AdmissionTypes' /\ QueueTypes' /\ ClientTypes' /\ ActorTypes' /\ WorkerTypes'
    BY <1>1, Zenon DEF WaiterArm, AdmissionTypes, QueueTypes, ClientTypes, ActorTypes,
       WorkerTypes, admissionVars, clientVars, actorVars, workerVars, waitVars
  <2> QED BY <2>1, <2>2, Zenon
<1>2. CASE WaiterCheck(w)
  <2>1. WaiterTypes'
    BY <1>2, Zenon DEF WaiterTypes, WaiterCheck, admissionVars, clientVars, actorVars,
       workerVars, waitVars
  <2>2. AdmissionTypes' /\ QueueTypes' /\ ClientTypes' /\ ActorTypes' /\ WorkerTypes'
    BY <1>2, Zenon DEF WaiterCheck, AdmissionTypes, QueueTypes, ClientTypes, ActorTypes,
       WorkerTypes, admissionVars, clientVars, actorVars, workerVars, waitVars
  <2> QED BY <2>1, <2>2, Zenon
<1>3. CASE WaiterWake(w)
  <2>1. WaiterTypes'
    BY <1>3, Zenon DEF WaiterTypes, WaiterWake, admissionVars, clientVars, actorVars,
       workerVars, waitVars
  <2>2. AdmissionTypes' /\ QueueTypes' /\ ClientTypes' /\ ActorTypes' /\ WorkerTypes'
    BY <1>3, Zenon DEF WaiterWake, AdmissionTypes, QueueTypes, ClientTypes, ActorTypes,
       WorkerTypes, admissionVars, clientVars, actorVars, workerVars, waitVars
  <2> QED BY <2>1, <2>2, Zenon
<1> QED BY <1>1, <1>2, <1>3, Zenon DEF WaiterStep

\* An event taken from the queue is an event, and the rest is a queue
LEMMA ReceiveType ==
  ASSUME QueueTypes, Receive
  PROVE  /\ Head(queue) \in Event
         /\ queue' \in Seq(Event) /\ Len(queue') <= QueueCap
  BY ConstantsAssumption DEF QueueTypes, Receive

\* handle_event, one step per kind of event
LEMMA HandleEventType ==
  ASSUME TypeOK, HandleEvent
  PROVE  TypeOK'
<1> USE AttemptFacts, ConstantsAssumption DEF TypeOK
<1> DEFINE e == Head(queue)
<1>1. e \in Event /\ e.attempt \in Attempt
  BY ReceiveType, Zenon DEF HandleEvent, Event
<1>2. queue' \in Seq(Event) /\ Len(queue') <= QueueCap
  BY ReceiveType, Zenon DEF HandleEvent
<1>3. ClientTypes' /\ WaiterTypes'
  BY Zenon DEF HandleEvent, FrameActor, ClientTypes, WaiterTypes, clientVars, waitVars
<1> HIDE DEF e
<1>4. CASE HandleStart(e.attempt)
  <2>1. AdmissionTypes'
    BY <1>1, <1>2, <1>4, Zenon DEF HandleEvent, FrameActor, HandleStart, AdmissionTypes,
       Phase
  <2>2. QueueTypes'
    BY <1>1, <1>2, <1>4, Zenon DEF HandleEvent, FrameActor, HandleStart, QueueTypes,
       VpnState
  <2>3. ActorTypes'
    BY <1>1, <1>2, <1>4, Zenon DEF HandleEvent, FrameActor, HandleStart, ActorTypes, Actor,
       Publishing, Ending
  <2>4. WorkerTypes'
    BY <1>1, <1>2, <1>4, Zenon DEF HandleEvent, FrameActor, HandleStart, WorkerTypes, Worker
  <2> QED BY <1>3, <2>1, <2>2, <2>3, <2>4, Zenon
<1>5. CASE HandleStop(e.attempt)
  <2>1. AdmissionTypes'
    BY <1>1, <1>2, <1>5, Zenon DEF HandleEvent, FrameActor, HandleStop, AdmissionTypes
  <2>2. QueueTypes'
    BY <1>1, <1>2, <1>5, Zenon DEF HandleEvent, FrameActor, HandleStop, QueueTypes, VpnState
  <2>3. ActorTypes'
    BY <1>1, <1>2, <1>5, Zenon DEF HandleEvent, FrameActor, HandleStop, ActorTypes, Actor,
       Publishing, Ending
  <2>4. WorkerTypes'
    BY <1>1, <1>2, <1>5, Zenon DEF HandleEvent, FrameActor, HandleStop, WorkerTypes
  <2> QED BY <1>3, <2>1, <2>2, <2>3, <2>4, Zenon
<1>6. ASSUME NEW to \in Publishing, HandlePublish(e.attempt, to) PROVE TypeOK'
  <2>1. AdmissionTypes'
    BY <1>1, <1>2, <1>6, Zenon DEF HandleEvent, FrameActor, HandlePublish, AdmissionTypes
  <2>2. QueueTypes'
    BY <1>1, <1>2, <1>6, Zenon DEF HandleEvent, FrameActor, HandlePublish, QueueTypes,
       VpnState
  <2>3. ActorTypes'
    BY <1>1, <1>2, <1>6, Zenon DEF HandleEvent, FrameActor, HandlePublish, ActorTypes,
       Actor, Publishing, Ending
  <2>4. WorkerTypes'
    BY <1>1, <1>2, <1>6, Zenon DEF HandleEvent, FrameActor, HandlePublish, WorkerTypes
  <2> QED BY <1>3, <2>1, <2>2, <2>3, <2>4, Zenon
<1>7. CASE HandleRecord(e)
  <2>1. AdmissionTypes'
    BY <1>1, <1>2, <1>7, Zenon DEF HandleEvent, FrameActor, HandleRecord, AdmissionTypes
  <2>2. QueueTypes'
    BY <1>1, <1>2, <1>7, Zenon DEF HandleEvent, FrameActor, HandleRecord, QueueTypes,
       VpnState
  <2>3. ActorTypes'
    BY <1>1, <1>2, <1>7, Zenon DEF HandleEvent, FrameActor, HandleRecord, ActorTypes, Actor,
       Publishing, Ending
  <2>4. WorkerTypes'
    BY <1>1, <1>2, <1>7, Zenon DEF HandleEvent, FrameActor, HandleRecord, WorkerTypes
  <2> QED BY <1>3, <2>1, <2>2, <2>3, <2>4, Zenon
<1>8. CASE HandleEnded(e.attempt)
  <2>1. AdmissionTypes'
    BY <1>1, <1>2, <1>8, Zenon DEF HandleEvent, FrameActor, HandleEnded, AdmissionTypes
  <2>2. QueueTypes'
    BY <1>1, <1>2, <1>8, Zenon DEF HandleEvent, FrameActor, HandleEnded, QueueTypes,
       VpnState
  <2>3. ActorTypes'
    BY <1>1, <1>2, <1>8, Zenon DEF HandleEvent, FrameActor, HandleEnded, ActorTypes, Actor,
       Publishing, Ending
  <2>4. WorkerTypes'
    BY <1>1, <1>2, <1>8, Zenon DEF HandleEvent, FrameActor, HandleEnded, WorkerTypes
  <2> QED BY <1>3, <2>1, <2>2, <2>3, <2>4, Zenon
<1> QED BY <1>4, <1>5, <1>6, <1>7, <1>8, Zenon DEF HandleEvent, Publishing, e

\* The VpnTask actor
LEMMA ActorType ==
  ASSUME TypeOK, ActorStep
  PROVE  TypeOK'
<1> USE AttemptFacts, KindFacts, ConstantsAssumption DEF TypeOK
<1>1. CASE ShutdownCheck
  <2>1. ActorTypes'
    BY <1>1, Zenon DEF ActorTypes, ShutdownCheck, FrameActor, Actor, Publishing, Ending,
       admissionVars, clientVars, actorVars, workerVars, waitVars
  <2>2. AdmissionTypes' /\ QueueTypes' /\ ClientTypes' /\ WorkerTypes' /\ WaiterTypes'
    BY <1>1, Zenon DEF ShutdownCheck, FrameActor, AdmissionTypes, QueueTypes, ClientTypes,
       WorkerTypes, WaiterTypes, admissionVars, clientVars, actorVars, workerVars,
       waitVars
  <2> QED BY <2>1, <2>2, Zenon
<1>2. CASE BeginShutdown
  <2>1. AdmissionTypes'
    BY <1>2, Zenon DEF AdmissionTypes, BeginShutdown, FrameActor, Phase, admissionVars,
       clientVars, actorVars, workerVars, waitVars
  <2>2. QueueTypes'
    BY <1>2, Zenon DEF QueueTypes, BeginShutdown, FrameActor, AdmissionTypes, Event,
       EventType, Ev, QueueFull, TrySend, VpnState, admissionVars, clientVars,
       actorVars, workerVars, waitVars
  <2>3. ClientTypes' /\ ActorTypes' /\ WorkerTypes' /\ WaiterTypes'
    BY <1>2, Zenon DEF BeginShutdown, FrameActor, ClientTypes, ActorTypes, WorkerTypes,
       WaiterTypes, admissionVars, clientVars, actorVars, workerVars, waitVars
  <2> QED BY <2>1, <2>2, <2>3, Zenon
<1>3. CASE Publish
  <2>1. QueueTypes'
    BY <1>3, Zenon DEF QueueTypes, Publish, FrameActor, ActorTypes, Publishing, Event,
       EventType, Ev, QueueFull, TrySend, VpnState, admissionVars, clientVars,
       actorVars, workerVars, waitVars
  <2>2. ActorTypes'
    BY <1>3, Zenon DEF ActorTypes, Publish, FrameActor, Actor, Publishing, Ending,
       admissionVars, clientVars, actorVars, workerVars, waitVars
  <2>3. AdmissionTypes' /\ ClientTypes' /\ WorkerTypes' /\ WaiterTypes'
    BY <1>3, Zenon DEF Publish, FrameActor, AdmissionTypes, ClientTypes, WorkerTypes,
       WaiterTypes, admissionVars, clientVars, actorVars, workerVars, waitVars
  <2> QED BY <2>1, <2>2, <2>3, Zenon
<1>4. CASE EndJoin
  <2>1. ActorTypes'
    BY <1>4, Zenon DEF ActorTypes, EndJoin, FrameActor, Actor, Publishing, Ending,
       admissionVars, clientVars, actorVars, workerVars, waitVars
  <2>2. AdmissionTypes' /\ QueueTypes' /\ ClientTypes' /\ WorkerTypes' /\ WaiterTypes'
    BY <1>4, Zenon DEF EndJoin, FrameActor, AdmissionTypes, QueueTypes, ClientTypes,
       WorkerTypes, WaiterTypes, admissionVars, clientVars, actorVars, workerVars,
       waitVars
  <2> QED BY <2>1, <2>2, Zenon
<1>5. CASE EndReconnect
  <2>1. AdmissionTypes'
    BY <1>5, Zenon DEF AdmissionTypes, EndReconnect, FrameActor, Complete, ActorTypes,
       Phase, admissionVars, clientVars, actorVars, workerVars, waitVars
  <2>2. QueueTypes'
    BY <1>5, Zenon DEF QueueTypes, EndReconnect, FrameActor, Complete, Event, EventType, Ev,
       QueueFull, TrySend, VpnState, admissionVars, clientVars, actorVars,
       workerVars, waitVars
  <2>3. ActorTypes'
    BY <1>5, Zenon DEF ActorTypes, EndReconnect, FrameActor, Complete, Actor, Publishing,
       Ending, admissionVars, clientVars, actorVars, workerVars, waitVars
  <2>4. WaiterTypes'
    BY <1>5, Zenon DEF WaiterTypes, EndReconnect, FrameActor, Complete, admissionVars,
       clientVars, actorVars, workerVars, waitVars
  <2>5. ClientTypes' /\ WorkerTypes'
    BY <1>5, Zenon DEF EndReconnect, FrameActor, Complete, ClientTypes, WorkerTypes,
       admissionVars, clientVars, actorVars, workerVars, waitVars
  <2> QED BY <2>1, <2>2, <2>3, <2>4, <2>5, Zenon
<1>6. CASE EndPublish
  <2>1. QueueTypes'
    BY <1>6, Zenon DEF QueueTypes, EndPublish, FrameActor, Event, EventType, Ev, QueueFull,
       TrySend, VpnState, admissionVars, clientVars, actorVars, workerVars, waitVars
  <2>2. ActorTypes'
    BY <1>6, Zenon DEF ActorTypes, EndPublish, FrameActor, Actor, Publishing, Ending,
       admissionVars, clientVars, actorVars, workerVars, waitVars
  <2>3. AdmissionTypes' /\ ClientTypes' /\ WorkerTypes' /\ WaiterTypes'
    BY <1>6, Zenon DEF EndPublish, FrameActor, AdmissionTypes, ClientTypes, WorkerTypes,
       WaiterTypes, admissionVars, clientVars, actorVars, workerVars, waitVars
  <2> QED BY <2>1, <2>2, <2>3, Zenon
<1>7. CASE EndClear
  <2>1. AdmissionTypes'
    BY <1>7, Zenon DEF AdmissionTypes, EndClear, FrameActor, Phase, admissionVars,
       clientVars, actorVars, workerVars, waitVars
  <2>2. ActorTypes'
    BY <1>7, Zenon DEF ActorTypes, EndClear, FrameActor, Actor, Publishing, Ending,
       admissionVars, clientVars, actorVars, workerVars, waitVars
  <2>3. QueueTypes' /\ ClientTypes' /\ WorkerTypes' /\ WaiterTypes'
    BY <1>7, Zenon DEF EndClear, FrameActor, QueueTypes, ClientTypes, WorkerTypes,
       WaiterTypes, admissionVars, clientVars, actorVars, workerVars, waitVars
  <2> QED BY <2>1, <2>2, <2>3, Zenon
<1>8. CASE EndSignal
  <2>1. AdmissionTypes'
    BY <1>8, Zenon DEF AdmissionTypes, EndSignal, FrameActor, Complete, Phase,
       admissionVars, clientVars, actorVars, workerVars, waitVars
  <2>2. ActorTypes'
    BY <1>8, Zenon DEF ActorTypes, EndSignal, FrameActor, Complete, Actor, Publishing,
       Ending, admissionVars, clientVars, actorVars, workerVars, waitVars
  <2>3. WaiterTypes'
    BY <1>8, Zenon DEF WaiterTypes, EndSignal, FrameActor, Complete, admissionVars,
       clientVars, actorVars, workerVars, waitVars
  <2>4. QueueTypes' /\ ClientTypes' /\ WorkerTypes'
    BY <1>8, Zenon DEF EndSignal, FrameActor, Complete, QueueTypes, ClientTypes,
       WorkerTypes, admissionVars, clientVars, actorVars, workerVars, waitVars
  <2> QED BY <2>1, <2>2, <2>3, <2>4, Zenon
<1> QED BY HandleEventType, <1>1, <1>2, <1>3, <1>4, <1>5, <1>6, <1>7, <1>8, Zenon DEF ActorStep

\* The runtime worker
LEMMA WorkerProgressType ==
  ASSUME TypeOK, NEW a \in Attempt, WorkerProgress(a)
  PROVE  TypeOK'
<1> USE AttemptFacts, KindFacts, ConstantsAssumption DEF TypeOK
<1>1. CASE WorkerStart(a)
  <2>1. WorkerTypes'
    BY <1>1, Zenon DEF WorkerTypes, WorkerStart, FrameWorker, Step, Worker, Sending, Ledger,
       admissionVars, clientVars, actorVars, workerVars, waitVars
  <2>2. AdmissionTypes' /\ QueueTypes' /\ ClientTypes' /\ ActorTypes' /\ WaiterTypes'
    BY <1>1, Zenon DEF WorkerStart, FrameWorker, AdmissionTypes, QueueTypes, ClientTypes,
       ActorTypes, WaiterTypes, admissionVars, clientVars, actorVars, workerVars,
       waitVars
  <2> QED BY <2>1, <2>2, Zenon
<1>2. CASE WorkerSetup(a)
  <2>1. WorkerTypes'
    BY <1>2, ZenonT(60) DEF WorkerTypes, WorkerSetup, FrameWorker, Step, Fail, Worker, Sending,
       Ledger, admissionVars, clientVars, actorVars, workerVars, waitVars
  <2>2. AdmissionTypes' /\ QueueTypes' /\ ClientTypes' /\ ActorTypes' /\ WaiterTypes'
    BY <1>2, Zenon DEF WorkerSetup, FrameWorker, AdmissionTypes, QueueTypes, ClientTypes,
       ActorTypes, WaiterTypes, admissionVars, clientVars, actorVars, workerVars,
       waitVars
  <2> QED BY <2>1, <2>2, Zenon
<1>3. CASE WorkerSend(a)
  <2>1. QueueTypes'
    <3>1. SendType(a) \in EventType
      BY <1>3, Zenon DEF WorkerSend, SendType, Sending, EventType
    <3>2. Ev(SendType(a), a) \in Event
      BY <3>1, EvType, Zenon
    <3> QED BY <1>3, <3>2, SendKeepsType, Zenon DEF QueueTypes, WorkerSend
  <2>2. WorkerTypes'
    BY <1>3, ZenonT(60) DEF WorkerTypes, WorkerSend, FrameWorker, AfterSend, Worker, Sending,
       Ledger, admissionVars, clientVars, actorVars, workerVars, waitVars
  <2>3. AdmissionTypes' /\ ClientTypes' /\ ActorTypes' /\ WaiterTypes'
    BY <1>3, Zenon DEF WorkerSend, FrameWorker, AdmissionTypes, ClientTypes, ActorTypes,
       WaiterTypes, admissionVars, clientVars, actorVars, workerVars, waitVars
  <2> QED BY <2>1, <2>2, <2>3, Zenon
<1>4. CASE NtFinal(a)
  <2>1. WorkerTypes'
    BY <1>4, Zenon DEF WorkerTypes, NtFinal, FrameWorker, Step, Worker, Sending, Ledger,
       admissionVars, clientVars, actorVars, workerVars, waitVars
  <2>2. AdmissionTypes' /\ QueueTypes' /\ ClientTypes' /\ ActorTypes' /\ WaiterTypes'
    BY <1>4, Zenon DEF NtFinal, FrameWorker, AdmissionTypes, QueueTypes, ClientTypes,
       ActorTypes, WaiterTypes, admissionVars, clientVars, actorVars, workerVars,
       waitVars
  <2> QED BY <2>1, <2>2, Zenon
<1>5. CASE TunnelOpen(a)
  <2>1. WorkerTypes'
    BY <1>5, Zenon DEF WorkerTypes, TunnelOpen, FrameWorker, Step, Worker, Sending, Ledger,
       admissionVars, clientVars, actorVars, workerVars, waitVars
  <2>2. AdmissionTypes' /\ QueueTypes' /\ ClientTypes' /\ ActorTypes' /\ WaiterTypes'
    BY <1>5, Zenon DEF TunnelOpen, FrameWorker, AdmissionTypes, QueueTypes, ClientTypes,
       ActorTypes, WaiterTypes, admissionVars, clientVars, actorVars, workerVars,
       waitVars
  <2> QED BY <2>1, <2>2, Zenon
<1>6. CASE TunnelCancelled(a)
  <2>1. WorkerTypes'
    BY <1>6, Zenon DEF WorkerTypes, TunnelCancelled, FrameWorker, Step, Worker, Sending,
       Ledger, admissionVars, clientVars, actorVars, workerVars, waitVars
  <2>2. AdmissionTypes' /\ QueueTypes' /\ ClientTypes' /\ ActorTypes' /\ WaiterTypes'
    BY <1>6, Zenon DEF TunnelCancelled, FrameWorker, AdmissionTypes, QueueTypes,
       ClientTypes, ActorTypes, WaiterTypes, admissionVars, clientVars, actorVars,
       workerVars, waitVars
  <2> QED BY <2>1, <2>2, Zenon
<1>7. CASE TunnelEnded(a)
  <2>1. WorkerTypes'
    BY <1>7, Zenon DEF WorkerTypes, TunnelEnded, FrameWorker, Step, Fail, Worker, Sending,
       Ledger, admissionVars, clientVars, actorVars, workerVars, waitVars
  <2>2. AdmissionTypes' /\ QueueTypes' /\ ClientTypes' /\ ActorTypes' /\ WaiterTypes'
    BY <1>7, Zenon DEF TunnelEnded, FrameWorker, AdmissionTypes, QueueTypes, ClientTypes,
       ActorTypes, WaiterTypes, admissionVars, clientVars, actorVars, workerVars,
       waitVars
  <2> QED BY <2>1, <2>2, Zenon
<1>8. CASE TunnelJoin(a)
  <2>1. WorkerTypes'
    BY <1>8, Zenon DEF WorkerTypes, TunnelJoin, FrameWorker, Step, Worker, Sending, Ledger,
       admissionVars, clientVars, actorVars, workerVars, waitVars
  <2>2. AdmissionTypes' /\ QueueTypes' /\ ClientTypes' /\ ActorTypes' /\ WaiterTypes'
    BY <1>8, Zenon DEF TunnelJoin, FrameWorker, AdmissionTypes, QueueTypes, ClientTypes,
       ActorTypes, WaiterTypes, admissionVars, clientVars, actorVars, workerVars,
       waitVars
  <2> QED BY <2>1, <2>2, Zenon
<1>9. CASE WorkerLogout(a)
  <2>1. WorkerTypes'
    BY <1>9, Zenon DEF WorkerTypes, WorkerLogout, FrameWorker, Step, Logout, Worker,
       Sending, Ledger, admissionVars, clientVars, actorVars, workerVars, waitVars
  <2>2. AdmissionTypes' /\ QueueTypes' /\ ClientTypes' /\ ActorTypes' /\ WaiterTypes'
    BY <1>9, Zenon DEF WorkerLogout, FrameWorker, AdmissionTypes, QueueTypes, ClientTypes,
       ActorTypes, WaiterTypes, admissionVars, clientVars, actorVars, workerVars,
       waitVars
  <2> QED BY <2>1, <2>2, Zenon
<1>10. CASE WorkerReport(a)
  <2>1. WorkerTypes'
    BY <1>10, Zenon DEF WorkerTypes, WorkerReport, FrameWorker, Step, FinalSend, Worker,
       Sending, Ledger, admissionVars, clientVars, actorVars, workerVars, waitVars
  <2>2. AdmissionTypes' /\ QueueTypes' /\ ClientTypes' /\ ActorTypes' /\ WaiterTypes'
    BY <1>10, Zenon DEF WorkerReport, FrameWorker, AdmissionTypes, QueueTypes, ClientTypes,
       ActorTypes, WaiterTypes, admissionVars, clientVars, actorVars, workerVars,
       waitVars
  <2> QED BY <2>1, <2>2, Zenon
<1> QED BY <1>1, <1>2, <1>3, <1>4, <1>5, <1>6, <1>7, <1>8, <1>9, <1>10, Zenon DEF WorkerProgress

\* What the worker's peers decide
LEMMA WorkerEnvironmentType ==
  ASSUME TypeOK, NEW a \in Attempt, WorkerEnvironment(a)
  PROVE  TypeOK'
<1> USE AttemptFacts, KindFacts, ConstantsAssumption DEF TypeOK
<1>1. CASE NtHealthChange(a)
  <2>1. WorkerTypes'
    BY <1>1, Zenon DEF WorkerTypes, NtHealthChange, FrameWorker, Worker, Sending, Ledger,
       admissionVars, clientVars, actorVars, workerVars, waitVars
  <2>2. AdmissionTypes' /\ QueueTypes' /\ ClientTypes' /\ ActorTypes' /\ WaiterTypes'
    BY <1>1, Zenon DEF NtHealthChange, FrameWorker, AdmissionTypes, QueueTypes, ClientTypes,
       ActorTypes, WaiterTypes, admissionVars, clientVars, actorVars, workerVars,
       waitVars
  <2> QED BY <2>1, <2>2, Zenon
<1>2. CASE NtPublish(a)
  <2>1. WorkerTypes'
    BY <1>2, Zenon DEF WorkerTypes, NtPublish, FrameWorker, Step, Worker, Sending, Ledger,
       admissionVars, clientVars, actorVars, workerVars, waitVars
  <2>2. AdmissionTypes' /\ QueueTypes' /\ ClientTypes' /\ ActorTypes' /\ WaiterTypes'
    BY <1>2, Zenon DEF NtPublish, FrameWorker, AdmissionTypes, QueueTypes, ClientTypes,
       ActorTypes, WaiterTypes, admissionVars, clientVars, actorVars, workerVars,
       waitVars
  <2> QED BY <2>1, <2>2, Zenon
<1>3. CASE NtApprovalPoll(a)
  <2>1. AdmissionTypes'
    BY <1>3, Zenon DEF AdmissionTypes, NtApprovalPoll, FrameWorker, StopForRevokedApproval,
       ClearRestart, Phase, admissionVars, clientVars, actorVars, workerVars,
       waitVars
  <2>2. QueueTypes'
    <3>1. CASE current = None \/ AlreadyStopped(current)
      BY <1>3, <3>1, Zenon DEF QueueTypes, NtApprovalPoll, StopForRevokedApproval, VpnState
    <3>2. CASE current # None /\ ~AlreadyStopped(current)
      <4>1. Ev("Stop", current) \in Event
        BY <3>2, EvType, Zenon DEF AdmissionTypes, EventType
      <4> QED
        BY <1>3, <3>2, <4>1, SendKeepsType, Zenon
           DEF QueueTypes, NtApprovalPoll, StopForRevokedApproval
    <3> QED BY <3>1, <3>2, Zenon
  <2>3. WorkerTypes'
    BY <1>3, Zenon DEF WorkerTypes, NtApprovalPoll, FrameWorker, Fail, Worker, Sending,
       Ledger, admissionVars, clientVars, actorVars, workerVars, waitVars
  <2>4. ClientTypes' /\ ActorTypes' /\ WaiterTypes'
    BY <1>3, Zenon DEF NtApprovalPoll, FrameWorker, ClientTypes, ActorTypes, WaiterTypes,
       admissionVars, clientVars, actorVars, workerVars, waitVars
  <2> QED BY <2>1, <2>2, <2>3, <2>4, Zenon
<1>4. CASE NtMaintenanceEnds(a)
  <2>1. WorkerTypes'
    <3>1. outcome' \in [Attempt -> {"ok", "failed", "networkChanged", "revoked"}]
      BY <1>4, Zenon DEF WorkerTypes, NtMaintenanceEnds, Fail
    <3>2. health' \in [Attempt -> BOOLEAN]
      BY <1>4, Zenon DEF WorkerTypes, NtMaintenanceEnds
    <3>3. worker' \in [Attempt -> Worker]
      BY <1>4, Zenon DEF WorkerTypes, NtMaintenanceEnds, Step, Worker
    <3> QED BY <1>4, <3>1, <3>2, <3>3, Zenon DEF WorkerTypes, NtMaintenanceEnds
  <2>2. AdmissionTypes' /\ QueueTypes' /\ ClientTypes' /\ ActorTypes' /\ WaiterTypes'
    BY <1>4, Zenon DEF NtMaintenanceEnds, FrameWorker, AdmissionTypes, QueueTypes,
       ClientTypes, ActorTypes, WaiterTypes, admissionVars, clientVars, actorVars,
       workerVars, waitVars
  <2> QED BY <2>1, <2>2, Zenon
<1>5. CASE NativeEstablished(a)
  <2>1. QueueTypes'
    <3>1. Ev("Established", a) \in Event
      BY EvType, Zenon DEF EventType
    <3> QED BY <1>5, <3>1, SendKeepsType, Zenon DEF QueueTypes, NativeEstablished
  <2>2. WorkerTypes'
    BY <1>5, Zenon DEF WorkerTypes, NativeEstablished, FrameWorker, Worker, Sending, Ledger,
       admissionVars, clientVars, actorVars, workerVars, waitVars
  <2>3. AdmissionTypes' /\ ClientTypes' /\ ActorTypes' /\ WaiterTypes'
    BY <1>5, Zenon DEF NativeEstablished, FrameWorker, AdmissionTypes, ClientTypes,
       ActorTypes, WaiterTypes, admissionVars, clientVars, actorVars, workerVars,
       waitVars
  <2> QED BY <2>1, <2>2, <2>3, Zenon
<1>6. CASE NativeEnds(a)
  <2>1. WorkerTypes'
    BY <1>6, Zenon DEF WorkerTypes, NativeEnds, FrameWorker, Worker, Sending, Ledger,
       admissionVars, clientVars, actorVars, workerVars, waitVars
  <2>2. AdmissionTypes' /\ QueueTypes' /\ ClientTypes' /\ ActorTypes' /\ WaiterTypes'
    BY <1>6, Zenon DEF NativeEnds, FrameWorker, AdmissionTypes, QueueTypes, ClientTypes,
       ActorTypes, WaiterTypes, admissionVars, clientVars, actorVars, workerVars,
       waitVars
  <2> QED BY <2>1, <2>2, Zenon
<1>7. CASE TunnelApprovalPoll(a)
  <2>1. AdmissionTypes'
    BY <1>7, Zenon DEF AdmissionTypes, TunnelApprovalPoll, FrameWorker,
       StopForRevokedApproval, ClearRestart, Phase, admissionVars, clientVars,
       actorVars, workerVars, waitVars
  <2>2. QueueTypes'
    <3>1. CASE current = None \/ AlreadyStopped(current)
      BY <1>7, <3>1, Zenon DEF QueueTypes, TunnelApprovalPoll, StopForRevokedApproval, VpnState
    <3>2. CASE current # None /\ ~AlreadyStopped(current)
      <4>1. Ev("Stop", current) \in Event
        BY <3>2, EvType, Zenon DEF AdmissionTypes, EventType
      <4> QED
        BY <1>7, <3>2, <4>1, SendKeepsType, Zenon
           DEF QueueTypes, TunnelApprovalPoll, StopForRevokedApproval
    <3> QED BY <3>1, <3>2, Zenon
  <2>3. WorkerTypes'
    BY <1>7, Zenon DEF WorkerTypes, TunnelApprovalPoll, FrameWorker, Worker, Sending,
       Ledger, admissionVars, clientVars, actorVars, workerVars, waitVars
  <2>4. ClientTypes' /\ ActorTypes' /\ WaiterTypes'
    BY <1>7, Zenon DEF TunnelApprovalPoll, FrameWorker, ClientTypes, ActorTypes,
       WaiterTypes, admissionVars, clientVars, actorVars, workerVars, waitVars
  <2> QED BY <2>1, <2>2, <2>3, <2>4, Zenon
<1>8. CASE ScriptReport(a)
  <2>1. WorkerTypes'
    BY <1>8 DEF WorkerTypes, ScriptReport, FrameWorker, Step, Worker, Sending,
       Ledger, admissionVars, clientVars, actorVars, workerVars, waitVars
  <2>2. AdmissionTypes' /\ QueueTypes' /\ ClientTypes' /\ ActorTypes' /\ WaiterTypes'
    BY <1>8, Zenon DEF ScriptReport, FrameWorker, AdmissionTypes, QueueTypes, ClientTypes,
       ActorTypes, WaiterTypes, admissionVars, clientVars, actorVars, workerVars,
       waitVars
  <2> QED BY <2>1, <2>2, Zenon
<1>9. CASE ScriptFails(a)
  <2>1. WorkerTypes'
    BY <1>9, ZenonT(60) DEF WorkerTypes, ScriptFails, FrameWorker, Step, Fail, Worker, Sending,
       Ledger, admissionVars, clientVars, actorVars, workerVars, waitVars
  <2>2. AdmissionTypes' /\ QueueTypes' /\ ClientTypes' /\ ActorTypes' /\ WaiterTypes'
    BY <1>9, Zenon DEF ScriptFails, FrameWorker, AdmissionTypes, QueueTypes, ClientTypes,
       ActorTypes, WaiterTypes, admissionVars, clientVars, actorVars, workerVars,
       waitVars
  <2> QED BY <2>1, <2>2, Zenon
<1>10. CASE ScriptOverflow(a)
  <2>1. AdmissionTypes'
    BY <1>10, Zenon DEF AdmissionTypes, ScriptOverflow, FrameWorker, Phase, admissionVars,
       clientVars, actorVars, workerVars, waitVars
  <2>2. QueueTypes' /\ ClientTypes' /\ ActorTypes' /\ WorkerTypes' /\ WaiterTypes'
    BY <1>10, Zenon DEF ScriptOverflow, FrameWorker, QueueTypes, ClientTypes, ActorTypes,
       WorkerTypes, WaiterTypes, admissionVars, clientVars, actorVars, workerVars,
       waitVars
  <2> QED BY <2>1, <2>2, Zenon
<1> QED BY <1>1, <1>2, <1>3, <1>4, <1>5, <1>6, <1>7, <1>8, <1>9, <1>10, Zenon DEF WorkerEnvironment

\* Every variable keeps its type; the channel never exceeds its capacity
\* (VpnTask::new), for every choice of the constants.
THEOREM TypeCorrect == Spec => []TypeOK
<1>1. TypeOK /\ [Next]_vars => TypeOK'
  <2> SUFFICES ASSUME TypeOK, [Next]_vars PROVE TypeOK'
    OBVIOUS
  <2>1. CASE UNCHANGED vars
    <3> USE <2>1 DEF TypeOK, vars, admissionVars, clientVars, actorVars, workerVars, waitVars
    <3>1. AdmissionTypes' /\ QueueTypes' BY Zenon DEF AdmissionTypes, QueueTypes
    <3>2. ClientTypes' /\ ActorTypes' BY Zenon DEF ClientTypes, ActorTypes
    <3>3. WorkerTypes' /\ WaiterTypes' BY Zenon DEF WorkerTypes, WaiterTypes
    <3> QED BY <3>1, <3>2, <3>3, Zenon
  <2> QED
    BY <2>1, ClientStepType, HandlerType, WaiterType, ActorType, WorkerProgressType,
       WorkerEnvironmentType, Zenon DEF Next
<1> QED BY <1>1, InitType, PTL DEF Spec
=============================================================================
