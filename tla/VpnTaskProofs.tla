--------------------------- MODULE VpnTaskProofs ---------------------------
(***************************************************************************)
(* The safety of the connection lifecycle, proved for every number of      *)
(* attempts, queue capacity, and set of sessions and waiters. LifecycleInv *)
(* is inductive; the properties TLC checks and the implementation of       *)
(* VpnOwnership follow from it. VpnTaskStepProofs and VpnTaskWorkerProofs  *)
(* treat the other actors' steps, this module the rest of the actor's.     *)
(***************************************************************************)
EXTENDS VpnTaskWorkerProofs
-----------------------------------------------------------------------------
(* The actor *)

\* close_admission, then stop_attempt
LEMMA BeginShutdownInv ==
  ASSUME TypeOK, LifecycleInv, BeginShutdown
  PROVE  LifecycleInv'
<1>1. /\ actor = "loop" /\ closed'
      /\ IF current = None
           THEN UNCHANGED <<stop, phase, cancelled>>
           ELSE /\ stop' = [stop EXCEPT ![current] = TRUE]
                /\ phase' = [phase EXCEPT ![current] = "Stopping"]
                /\ cancelled' = [cancelled EXCEPT ![current] = TRUE]
      /\ vpnState' = IF active # None /\ active = current
                       THEN "Disconnecting" ELSE vpnState
      /\ UNCHANGED <<next, current, restart, completed, queue, reservation, actor,
                     subject, active, worker, native, ledger>>
  BY Zenon DEF BeginShutdown, FrameActor, clientVars, actorVars, workerVars
<1>2. AdmissionTypes
  BY Zenon DEF TypeOK
<1>3. /\ \A a \in Attempt : stop'[a] <=> stop[a] \/ a = current
      /\ \A a \in Attempt : stop'[a] => phase'[a] = "Stopping" /\ cancelled'[a]
  BY <1>1, <1>2, AttemptFacts, Zenon DEF AdmissionTypes, LifecycleInv, StateInv, StopIsSticky
<1>4. ReservationInv'
  BY <1>1, <1>2, <1>3, AttemptFacts, ZenonT(60) DEF LifecycleInv, ReservationInv, AdmissionInv,
     AdmissionTypes
<1>5. AdmissionInv'
  BY <1>1, SameQueueFacts, FrameAdmission, Zenon DEF LifecycleInv
<1>6. QueueInv'
  BY <1>1, <1>3, SameQueueFacts, Zenon DEF LifecycleInv, QueueInv, StartQueued
<1>7. WorkerInv'
  BY <1>1, FrameWorkers, Zenon DEF LifecycleInv
<1>8. ActorInv'
  BY <1>1, Zenon DEF LifecycleInv, ActorInv, Publishing, Ending
<1>9. active # None => current = active /\ reservation[active] = "transferred"
  BY AttemptFacts, Zenon DEF LifecycleInv, AdmissionInv, ReservationInv, TypeOK, ActorTypes
<1>10. StateInv'
  BY <1>1, <1>3, <1>9, Zenon DEF LifecycleInv, StateInv, FinalState, IdleStateIsFinal,
     RestartMatchesState, StopIsSticky
<1> QED BY <1>4, <1>5, <1>6, <1>7, <1>8, <1>10, Zenon DEF LifecycleInv

\* Publishing a state, and the exit test: no admission changes hands
LEMMA ActorStateInv ==
  ASSUME TypeOK, LifecycleInv, Publish \/ EndPublish \/ ShutdownCheck \/ EndJoin
  PROVE  LifecycleInv'
<1>1. UNCHANGED <<closed, next, current, restart, phase, stop, cancelled, completed,
                  queue, reservation, active, worker, native, ledger>>
  BY Zenon DEF Publish, EndPublish, ShutdownCheck, EndJoin, FrameActor, clientVars,
     admissionVars, workerVars
<1>2. ReservationInv' /\ AdmissionInv' /\ QueueInv' /\ WorkerInv'
  BY <1>1, SameQueueFacts, FrameReservation, FrameAdmission, FrameQueue, FrameWorkers, Zenon
  DEF LifecycleInv
<1>3. actor \in Publishing \cup Ending /\ actor # "signalling" =>
        /\ current = subject /\ subject \in Attempt
        /\ reservation[current] = "transferred"
  BY AttemptFacts, Zenon DEF LifecycleInv, ActorInv, AdmissionInv, ReservationInv, TypeOK,
     ActorTypes, Publishing, Ending
<1>4. ActorInv'
  <2>1. CASE Publish
    BY <1>1, <2>1, Zenon DEF Publish, LifecycleInv, ActorInv, Publishing, Ending
  <2>2. CASE EndPublish
    BY <1>1, <2>2, Zenon DEF EndPublish, LifecycleInv, ActorInv, Publishing, Ending
  <2>3. CASE ShutdownCheck
    BY <1>1, <2>3, Zenon DEF ShutdownCheck, ExitAllowed, LifecycleInv, ActorInv, Publishing,
       Ending
  <2>4. CASE EndJoin
    BY <1>1, <2>4, Zenon DEF EndJoin, LifecycleInv, ActorInv, Publishing, Ending
  <2> QED BY <2>1, <2>2, <2>3, <2>4, Zenon
<1>5. StateInv'
  <2> USE DEF LifecycleInv, StateInv, IdleStateIsFinal, RestartMatchesState, StopIsSticky
  <2>1. CASE Publish
    <3>1. actor \in Publishing /\ actor' = "loop"
      BY <2>1, Zenon DEF Publish
    <3>2. current # None /\ restart = None /\ reservation[current] = "transferred"
      BY <1>3, <3>1, AttemptFacts, Zenon DEF Publishing
    <3> QED BY <1>1, <3>1, <3>2, Zenon
  <2>2. CASE EndPublish
    BY <1>1, <1>3, <2>2, AttemptFacts, Zenon DEF EndPublish, Ending, FinalState
  <2>3. CASE ShutdownCheck
    BY <1>1, <2>3, Zenon DEF ShutdownCheck
  <2>4. CASE EndJoin
    BY <1>1, <2>4, Zenon DEF EndJoin
  <2> QED BY <2>1, <2>2, <2>3, <2>4, Zenon
<1> QED BY <1>2, <1>4, <1>5, Zenon DEF LifecycleInv

\* The two ways the admission of a joined attempt is released
LEMMA EndReleaseInv ==
  ASSUME TypeOK, LifecycleInv, EndReconnect \/ EndClear
  PROVE  LifecycleInv'
<1>1. /\ subject \in Attempt /\ current = subject /\ worker[subject] = "done"
      /\ active = None /\ reservation[subject] = "transferred" /\ ~completed[subject]
  BY AttemptFacts, Zenon DEF EndReconnect, EndClear, LifecycleInv, ActorInv, AdmissionInv,
     ReservationInv, TypeOK, ActorTypes, Ending
<1>2. /\ current' = None
      /\ \/ /\ actor = "clearing" /\ actor' = "signalling"
            /\ UNCHANGED <<subject, completed, restart, vpnState>>
         \/ /\ actor' = "loop" /\ completed' = [completed EXCEPT ![subject] = TRUE]
            /\ \/ vpnState' = "ReconnectRequired"
               \/ vpnState' = "Disconnected" /\ UNCHANGED restart
      /\ UNCHANGED <<closed, next, phase, stop, cancelled, queue, reservation, active,
                     worker, native, ledger>>
  BY <1>1, Zenon DEF EndReconnect, EndClear, Complete, FrameActor, clientVars, workerVars
<1>3. completed \in [Attempt -> BOOLEAN]
  BY Zenon DEF TypeOK, AdmissionTypes
<1>4. restart = None
  BY <1>1, AttemptFacts, Zenon DEF LifecycleInv, StateInv, RestartMatchesState
<1>5. ReservationInv'
  BY <1>1, <1>2, <1>3, AttemptFacts, Zenon DEF LifecycleInv, ReservationInv
<1>6. AdmissionInv'
  BY <1>1, <1>2, <1>3, SameQueueFacts, AttemptFacts, Zenon DEF LifecycleInv, AdmissionInv,
     StartQueued, WorkerLive
<1>7. QueueInv' /\ WorkerInv'
  BY <1>2, FrameQueue, FrameWorkers, Zenon DEF LifecycleInv
<1>8. ActorInv'
  BY <1>1, <1>2, AttemptFacts, Zenon DEF LifecycleInv, ActorInv, Publishing, Ending
<1>9. StateInv'
  BY <1>1, <1>2, <1>4, Zenon DEF LifecycleInv, StateInv, FinalState, IdleStateIsFinal,
     RestartMatchesState, StopIsSticky
<1> QED BY <1>5, <1>6, <1>7, <1>8, <1>9, Zenon DEF LifecycleInv

\* The completion is signalled outside the mutex
LEMMA EndSignalInv ==
  ASSUME TypeOK, LifecycleInv, EndSignal
  PROVE  LifecycleInv'
<1>1. /\ subject \in Attempt /\ current # subject /\ worker[subject] = "done"
      /\ reservation[subject] = "transferred"
  BY AttemptFacts, Zenon DEF EndSignal, LifecycleInv, ActorInv, ReservationInv, TypeOK,
     ActorTypes, Ending
<1>2. /\ completed' = [completed EXCEPT ![subject] = TRUE]
      /\ actor = "signalling" /\ actor' = "loop"
      /\ UNCHANGED <<closed, next, current, restart, phase, stop, cancelled, queue,
                     vpnState, reservation, active, worker, native, ledger>>
  BY Zenon DEF EndSignal, Complete, FrameActor, clientVars, admissionVars, workerVars
<1>3. completed \in [Attempt -> BOOLEAN]
  BY Zenon DEF TypeOK, AdmissionTypes
<1>4. ReservationInv'
  BY <1>1, <1>2, <1>3, Zenon DEF LifecycleInv, ReservationInv
<1>5. AdmissionInv'
  BY <1>1, <1>2, <1>3, SameQueueFacts, Zenon DEF LifecycleInv, AdmissionInv, StartQueued,
     WorkerLive
<1>6. QueueInv' /\ WorkerInv'
  BY <1>2, FrameQueue, FrameWorkers, Zenon DEF LifecycleInv
<1>7. ActorInv'
  BY <1>2, Zenon DEF LifecycleInv, ActorInv, Publishing, Ending
<1>8. StateInv'
  BY <1>2, Zenon DEF LifecycleInv, StateInv, IdleStateIsFinal, RestartMatchesState, StopIsSticky
<1> QED BY <1>4, <1>5, <1>6, <1>7, <1>8, Zenon DEF LifecycleInv
-----------------------------------------------------------------------------
(* The invariant *)

LEMMA InitInv == Init => LifecycleInv
<1> SUFFICES ASSUME Init PROVE LifecycleInv
  OBVIOUS
<1> USE AttemptFacts DEF Init
<1>1. \A x : ~Queued(x) /\ QueuedOnce(x)
  BY DEF Queued, QueuedOnce
<1>2. \A a \in Attempt : a >= 0
  BY DEF Attempt
<1>3. ReservationInv BY <1>2, Zenon DEF ReservationInv
<1>4. AdmissionInv BY Zenon DEF AdmissionInv, WorkerLive
<1>5. QueueInv BY <1>1, Zenon DEF QueueInv, StartQueued
<1>6. WorkerInv BY Zenon DEF WorkerInv, BeforeNative, WithNative, NativeLive
<1>7. ActorInv BY Zenon DEF ActorInv, Publishing, Ending
<1>8. StateInv
  BY Zenon DEF StateInv, FinalState, IdleStateIsFinal, RestartMatchesState, StopIsSticky
<1> QED BY <1>3, <1>4, <1>5, <1>6, <1>7, <1>8, Zenon DEF LifecycleInv

LEMMA NextInv ==
  ASSUME TypeOK, LifecycleInv, [Next]_vars
  PROVE  LifecycleInv'
<1>1. CASE ClientStep
  BY <1>1, ReserveInv, RequestInv, QuietStepInv, Zenon DEF ClientStep
<1>2. CASE ActorStep
  BY <1>2, HandleEventInv, BeginShutdownInv, ActorStateInv, EndReleaseInv, EndSignalInv, Zenon
  DEF ActorStep
<1>3. ASSUME NEW a \in Attempt, Handler(a) PROVE LifecycleInv'
  BY <1>3, CommitInv, ReleaseInv, DropClearInv, DropSignalInv, Zenon DEF Handler
<1>4. ASSUME NEW a \in Attempt, WorkerProgress(a) PROVE LifecycleInv'
  BY <1>4, WorkerStepInv, WorkerSendInv, WorkerLogoutInv, Zenon DEF WorkerProgress
<1>5. ASSUME NEW a \in Attempt, WorkerEnvironment(a) PROVE LifecycleInv'
  BY <1>5, WorkerStepInv, NativeInv, RequestInv, QuietStepInv, Zenon DEF WorkerEnvironment
<1>6. CASE UNCHANGED vars \/ \E w \in Waiters : WaiterStep(w)
  BY <1>6, QuietStepInv, Zenon
<1> QED BY <1>1, <1>2, <1>3, <1>4, <1>5, <1>6, Zenon DEF Next

\* Reservation, admission, queue, worker, native thread, actor and published
\* state of vpn_task.rs agree in every reachable state
THEOREM LifecycleInvariant == Spec => []LifecycleInv
<1>1. TypeOK /\ LifecycleInv /\ [Next]_vars => LifecycleInv'
  BY NextInv, Zenon
<1> QED BY InitInv, TypeCorrect, <1>1, PTL DEF Spec
-----------------------------------------------------------------------------
(* What follows from it *)

\* Everything in flight holds the one admission of Admissions.current
THEOREM AdmissionIsExclusive == Spec => []AdmissionHeld
<1>1. TypeOK /\ LifecycleInv => AdmissionHeld
  BY AttemptFacts DEF LifecycleInv, TypeOK, ClientTypes, WorkerTypes, AdmissionHeld,
     InFlight, ReservationInv, AdmissionInv, QueueInv, WorkerInv, StartQueued,
     WorkerLive, WithNative, NativeLive
<1> QED BY TypeCorrect, LifecycleInvariant, <1>1, PTL

\* What is left of an attempt whose completion was signalled
LEMMA CompletedFacts ==
  ASSUME TypeOK, LifecycleInv, NEW a \in Attempt, completed[a]
  PROVE  current # a /\ ~InFlight(a) /\ ledger[a] # "service"
<1> USE AttemptFacts DEF LifecycleInv, TypeOK, ClientTypes, WorkerTypes
<1>1. current # a
  BY Zenon DEF AdmissionInv
<1>2. ~WorkerLive(a)
  BY <1>1, Zenon DEF AdmissionInv, WorkerLive
<1>3. ~NativeLive(a)
  BY <1>2, Zenon DEF WorkerInv, WorkerLive, WithNative
<1>4. ~StartQueued(a)
  BY <1>1, Zenon DEF AdmissionInv, QueueInv
<1>5. reservation[a] \notin {"held", "dropping"}
  BY Zenon DEF ReservationInv
<1>6. ledger[a] # "service"
  <2>1. CASE worker[a] = "none"
    BY <1>1, <2>1, Zenon DEF ReservationInv, AdmissionInv, Reservation
  <2>2. CASE worker[a] = "done"
    BY <2>2, Zenon DEF WorkerInv
  <2> QED BY <1>2, <2>1, <2>2, Zenon DEF WorkerLive
<1> QED BY <1>1, <1>2, <1>3, <1>4, <1>5, <1>6, Zenon DEF InFlight

\* A completed attempt is drained: what disconnect_and_wait relies on
THEOREM CompletionIsDrained == Spec => []CompletionMeansDrained
<1>1. TypeOK /\ LifecycleInv => CompletionMeansDrained
  BY CompletedFacts, Zenon DEF CompletionMeansDrained
<1> QED BY TypeCorrect, LifecycleInvariant, <1>1, PTL

\* No accepted ledger is orphaned, shutdown included
THEOREM LedgerHasOwner == Spec => []ServiceLedgerHasOwner
<1>1. ASSUME TypeOK, LifecycleInv, NEW a \in Attempt, ledger[a] = "service"
      PROVE  WorkerLive(a) \/ (StartQueued(a) /\ actor # "stopped")
  <2>1. reservation[a] = "transferred"
    BY <1>1, Zenon DEF LifecycleInv, ReservationInv, TypeOK, ClientTypes, Reservation
  <2>2. worker[a] # "done"
    BY <1>1, Zenon DEF LifecycleInv, WorkerInv
  <2>3. CASE worker[a] = "none"
    <3>1. StartQueued(a) /\ current = a
      BY <1>1, <2>1, <2>3, Zenon DEF LifecycleInv, AdmissionInv
    <3> QED BY <1>1, <3>1, AttemptFacts, Zenon DEF LifecycleInv, ActorInv
  <2> QED BY <2>2, <2>3, Zenon DEF WorkerLive
<1>2. TypeOK /\ LifecycleInv => ServiceLedgerHasOwner
  BY <1>1, Zenon DEF ServiceLedgerHasOwner
<1> QED BY TypeCorrect, LifecycleInvariant, <1>2, PTL

\* Without an admission no client is left with Connecting, Connected or
\* Disconnecting: every release of Admissions.current publishes a final state
THEOREM PublishedState == Spec => []IdleStateIsFinal
<1>1. LifecycleInv => IdleStateIsFinal
  BY Zenon DEF LifecycleInv, StateInv
<1> QED BY LifecycleInvariant, <1>1, PTL

\* A restart is on offer only while ReconnectRequired is shown: reserve_connect
\* and request_disconnect withdraw it in the critical section that changes the
\* state
THEOREM RestartFollowsState == Spec => []RestartMatchesState
<1>1. LifecycleInv => RestartMatchesState
  BY Zenon DEF LifecycleInv, StateInv
<1> QED BY LifecycleInvariant, <1>1, PTL

\* An accepted stop is not undone: neither commit nor activate_attempt leaves
\* the Stopping phase, and the token stays cancelled
THEOREM AcceptedStopStays == Spec => []StopIsSticky
<1>1. LifecycleInv => StopIsSticky
  BY Zenon DEF LifecycleInv, StateInv
<1> QED BY LifecycleInvariant, <1>1, PTL

\* Repeated disconnects coalesce into one queued Stop
THEOREM StopsCoalesce == Spec => []OneStopQueued
<1>1. LifecycleInv => OneStopQueued
  BY Zenon DEF LifecycleInv, QueueInv, OneStopQueued
<1> QED BY LifecycleInvariant, <1>1, PTL
-----------------------------------------------------------------------------
(* Connected is published only for an attempt without an accepted stop *)

LEMMA ConnectedStep ==
  ASSUME TypeOK, LifecycleInv, Next, vpnState' = "Connected", vpnState # "Connected"
  PROVE  current # None /\ ~stop[current]
<1> USE DEF FrameWorker, FrameActor
<1>1. CASE ClientStep
  BY <1>1, Zenon DEF ClientStep, Reserve, Disconnect, RequestDisconnect, RequestShutdown,
     WaitDisconnect, WaitDrain, DrainCancel, RevokeApproval, RevokeSession
<1>2. CASE ActorStep
  <2>1. CASE Publish
    <3>1. \/ actor = "connected" /\ PublishConnected(subject)
          \/ actor = "healthy" /\ PublishMembers(subject)
      BY <2>1, Zenon DEF Publish, Publishing
    <3>2. current = subject /\ ~stop[subject]
      BY <3>1, Zenon DEF PublishConnected, PublishMembers
    <3>3. subject # None
      BY <3>1, Zenon DEF LifecycleInv, ActorInv, Publishing
    <3> QED BY <3>2, <3>3, Zenon
  <2>2. CASE HandleEvent
    BY <2>2, Zenon DEF HandleEvent, HandleStart, HandleStop, HandlePublish, HandleRecord,
       HandleEnded
  <2> QED
    BY <1>2, <2>1, <2>2, Zenon DEF ActorStep, ShutdownCheck, BeginShutdown, EndJoin,
       EndReconnect, EndPublish, EndClear, EndSignal
<1>3. ASSUME NEW a \in Attempt, Handler(a) PROVE FALSE
  BY <1>3, Zenon DEF Handler, Commit, Abandon, DropClear, DropSignal, DropWake
<1>4. ASSUME NEW a \in Attempt, WorkerProgress(a) PROVE FALSE
  BY <1>4, Zenon DEF WorkerProgress, WorkerStart, WorkerSetup, WorkerSend, NtFinal, TunnelOpen,
     TunnelCancelled, TunnelEnded, TunnelJoin, WorkerLogout, WorkerReport
<1>5. ASSUME NEW a \in Attempt, WorkerEnvironment(a) PROVE FALSE
  BY <1>5, Zenon DEF WorkerEnvironment, NtHealthChange, NtPublish, NtApprovalPoll,
     NtMaintenanceEnds, NativeEstablished, NativeEnds, TunnelApprovalPoll,
     StopForRevokedApproval, ScriptReport, ScriptFails, ScriptOverflow
<1>6. CASE \E w \in Waiters : WaiterStep(w)
  BY <1>6, Zenon DEF WaiterStep, WaiterArm, WaiterCheck, WaiterWake
<1> QED BY <1>1, <1>2, <1>3, <1>4, <1>5, <1>6, Zenon DEF Next

\* Whatever Established or MembersChanged events are queued: publish_connected
\* and publish_members recheck the admission under its mutex
THEOREM ConnectedNeedsNoStop == Spec => NoConnectedAfterStop
<1>1. TypeOK /\ LifecycleInv /\ [Next]_vars =>
        [vpnState' = "Connected" /\ vpnState # "Connected" =>
           current # None /\ ~stop[current]]_vars
  BY ConnectedStep, Zenon
<1> QED BY TypeCorrect, LifecycleInvariant, <1>1, PTL DEF Spec, NoConnectedAfterStop
-----------------------------------------------------------------------------
(* The restart authority names an attempt nobody stopped *)

\* The attempt is completed as well, so that nothing is left that could still
\* cancel it: drains, revocations and native overflows spare it
RestartInv ==
  restart # None => completed[restart] /\ ~stop[restart] /\ ~cancelled[restart]

\* Nothing is in flight while a restart is on offer
LEMMA RestartFacts ==
  ASSUME TypeOK, LifecycleInv, restart # None
  PROVE  /\ current = None /\ active = None /\ restart \in Attempt
         /\ \A a \in Attempt :
              /\ reservation[a] \notin {"held", "dropping"}
              /\ worker[a] \in {"none", "done"}
              /\ native[a] \notin {"connecting", "up"}
              /\ ~StartQueued(a)
<1>1. current = None /\ restart \in Attempt
  BY Zenon DEF LifecycleInv, StateInv, RestartMatchesState, TypeOK, AdmissionTypes
<1>2. active = None
  BY <1>1, Zenon DEF LifecycleInv, AdmissionInv
<1>3. ASSUME NEW a \in Attempt
      PROVE  /\ reservation[a] \notin {"held", "dropping"}
             /\ worker[a] \in {"none", "done"}
             /\ native[a] \notin {"connecting", "up"}
             /\ ~StartQueued(a)
  <2>1. a # None
    BY AttemptFacts, Zenon
  <2>2. reservation[a] \notin {"held", "dropping"}
    BY <1>1, <2>1, Zenon DEF LifecycleInv, ReservationInv
  <2>3. worker[a] \in {"none", "done"}
    BY <1>2, <2>1, Zenon DEF LifecycleInv, AdmissionInv, WorkerLive
  <2>4. native[a] \notin {"connecting", "up"}
    BY <2>3, Zenon DEF LifecycleInv, WorkerInv, NativeLive, WithNative
  <2>5. ~StartQueued(a)
    BY <1>1, <2>1, Zenon DEF LifecycleInv, QueueInv, AdmissionInv
  <2> QED BY <2>2, <2>3, <2>4, <2>5, Zenon
<1> QED BY <1>1, <1>2, <1>3, Zenon

\* Only end_attempt grants a restart
LEMMA RestartGranted ==
  ASSUME Next, restart' # restart, ~EndReconnect
  PROVE  restart' = None
<1> USE DEF FrameWorker, FrameActor, admissionVars, ClearRestart
<1>1. CASE ClientStep
  BY <1>1, Zenon DEF ClientStep, Reserve, Disconnect, RequestDisconnect, RequestShutdown,
     WaitDisconnect, WaitDrain, DrainCancel, RevokeApproval, RevokeSession
<1>2. CASE ActorStep
  BY <1>2, Zenon DEF ActorStep, ShutdownCheck, BeginShutdown, HandleEvent, Publish, EndJoin,
     EndPublish, EndClear, EndSignal
<1>3. ASSUME NEW a \in Attempt, Handler(a) PROVE FALSE
  BY <1>3, Zenon DEF Handler, Commit, Abandon, DropClear, DropSignal, DropWake
<1>4. ASSUME NEW a \in Attempt, WorkerProgress(a) PROVE FALSE
  BY <1>4, Zenon DEF WorkerProgress, WorkerStart, WorkerSetup, WorkerSend, NtFinal, TunnelOpen,
     TunnelCancelled, TunnelEnded, TunnelJoin, WorkerLogout, WorkerReport
<1>5. ASSUME NEW a \in Attempt, WorkerEnvironment(a) PROVE restart' = None
  BY <1>5, Zenon DEF WorkerEnvironment, NtHealthChange, NtPublish, NtApprovalPoll,
     NtMaintenanceEnds, NativeEstablished, NativeEnds, TunnelApprovalPoll,
     StopForRevokedApproval, ScriptReport, ScriptFails, ScriptOverflow
<1>6. ASSUME NEW w \in Waiters, WaiterStep(w) PROVE FALSE
  BY <1>6, Zenon DEF WaiterStep, WaiterArm, WaiterCheck, WaiterWake
<1> QED BY <1>1, <1>2, <1>3, <1>4, <1>5, <1>6, Zenon DEF Next

\* While it is on offer, no step stops, cancels or reopens the attempt
LEMMA RestartKept ==
  ASSUME TypeOK, LifecycleInv, RestartInv, Next, restart # None, restart' = restart
  PROVE  completed'[restart] /\ ~stop'[restart] /\ ~cancelled'[restart]
<1> DEFINE r == restart
<1>1. completed[r] /\ ~stop[r] /\ ~cancelled[r] /\ r \in Attempt
  BY RestartFacts, Zenon DEF RestartInv
<1>2. /\ completed \in [Attempt -> BOOLEAN] /\ cancelled \in [Attempt -> BOOLEAN]
      /\ queue \in Seq(Event)
  BY Zenon DEF TypeOK, AdmissionTypes, QueueTypes
<1>3. ASSUME NEW a \in Attempt, a # r
      PROVE  [cancelled EXCEPT ![a] = TRUE][r] = cancelled[r]
  BY <1>1, <1>2, <1>3, Zenon
<1>4. ASSUME NEW a \in Attempt PROVE [completed EXCEPT ![a] = TRUE][r]
  BY <1>1, <1>2, Zenon
<1>5. current = None /\ active = None
  BY RestartFacts, Zenon
<1> HIDE DEF r
<1>6. CASE ClientStep
  <2>1. CASE \E s \in Sessions : RevokeSession(s)
    BY <1>1, <2>1, Zenon DEF RevokeSession, admissionVars, r
  <2>2. ASSUME NEW a \in Attempt, DrainCancel(a) PROVE UNCHANGED <<completed, stop>> /\ ~cancelled'[r]
    BY <1>1, <1>3, <2>2, Zenon DEF DrainCancel, admissionVars
  <2>3. ASSUME NEW w \in Waiters, NEW a \in Attempt, WaitDrain(w, a)
        PROVE  UNCHANGED <<completed, stop>> /\ ~cancelled'[r]
    BY <1>1, <1>3, <2>3, Zenon DEF WaitDrain, admissionVars
  <2>4. CASE \E s \in Sessions, k \in Kinds, x \in Attempt \cup {None} : Reserve(s, k, x)
    BY <1>1, <2>4, Zenon DEF Reserve, r
  <2>5. CASE Disconnect \/ \E w \in Waiters : WaitDisconnect(w)
    BY <1>1, <1>5, <2>5, Zenon DEF Disconnect, RequestDisconnect, WaitDisconnect, r
  <2>6. CASE RequestShutdown \/ \E a \in Attempt : RevokeApproval(a)
    BY <1>1, <2>6, Zenon DEF RequestShutdown, RevokeApproval, admissionVars, r
  <2> QED BY <1>1, <1>6, <2>1, <2>2, <2>3, <2>4, <2>5, <2>6, Zenon DEF ClientStep, r
<1>7. CASE ActorStep
  <2> USE DEF FrameActor, admissionVars
  <2>1. CASE HandleEvent
    <3>1. UNCHANGED <<completed, stop>>
      BY <2>1, Zenon DEF HandleEvent
    <3>2. CASE Head(queue).type = "Start" /\ HandleStart(Head(queue).attempt)
      <4>1. queue # <<>> BY <2>1, Zenon DEF HandleEvent, Receive
      <4>2. Head(queue) \in Event /\ Queued(Head(queue))
        <5>1. 1 \in DOMAIN queue /\ Head(queue) = queue[1] /\ queue[1] \in Event
          BY <1>2, <4>1
        <5> QED BY <5>1, Zenon DEF Queued
      <4>3. Head(queue) = Ev("Start", Head(queue).attempt) /\ Head(queue).attempt \in Attempt
        BY <3>2, <4>2 DEF Event, Ev
      <4> QED BY <4>2, <4>3, RestartFacts, Zenon DEF StartQueued
    <3>3. CASE UNCHANGED cancelled
      BY <1>1, <3>1, <3>3, Zenon DEF r
    <3>4. CASE HandleStop(Head(queue).attempt)
      <4>1. Head(queue) \in Event
        BY <1>2, <2>1 DEF HandleEvent, Receive
      <4>2. Head(queue).attempt \in Attempt
        BY <4>1 DEF Event
      <4>3. Head(queue).attempt # None
        BY <4>2, AttemptFacts, Zenon
      <4> QED BY <1>5, <3>3, <3>4, <4>3, Zenon DEF HandleStop
    <3> QED BY <2>1, <3>2, <3>3, <3>4, Zenon
        DEF HandleEvent, HandlePublish, HandleRecord, HandleEnded
  <2>2. CASE EndReconnect \/ EndSignal
    <3>1. subject \in Attempt
      BY <2>2, Zenon DEF EndReconnect, EndSignal, LifecycleInv, ActorInv, Ending, TypeOK,
         ActorTypes
    <3> QED BY <1>1, <1>4, <2>2, <3>1, Zenon DEF EndReconnect, EndSignal, Complete, r
  <2> QED BY <1>1, <1>5, <1>7, <2>1, <2>2, Zenon DEF ActorStep, ShutdownCheck, BeginShutdown,
      Publish, EndJoin, EndPublish, EndClear, r
<1>8. ASSUME NEW a \in Attempt, Handler(a) PROVE completed'[r] /\ ~stop'[r] /\ ~cancelled'[r]
  <2>1. reservation[a] \notin {"held", "dropping"}
    BY RestartFacts, Zenon
  <2>2. DropSignal(a) \/ DropWake(a)
    BY <1>8, <2>1, Zenon DEF Handler, Commit, Abandon, DropClear
  <2> QED BY <1>1, <1>4, <2>2, Zenon DEF DropSignal, DropWake, Complete, admissionVars
<1>9. ASSUME NEW a \in Attempt, WorkerProgress(a) \/ WorkerEnvironment(a) PROVE FALSE
  <2>1. worker[a] \in {"none", "done"} /\ native[a] \notin {"connecting", "up"}
    BY RestartFacts, Zenon
  <2>2. ~WorkerProgress(a)
    BY <2>1, Zenon DEF WorkerProgress, WorkerStart, WorkerSetup, WorkerSend, NtFinal,
       TunnelOpen, TunnelCancelled, TunnelEnded, TunnelJoin, WorkerLogout, WorkerReport, Step,
       Sending
  <2>3. ~WorkerEnvironment(a)
    BY <2>1, Zenon DEF WorkerEnvironment, NtHealthChange, NtPublish, NtApprovalPoll,
       NtMaintenanceEnds, NativeEstablished, NativeEnds, TunnelApprovalPoll, ScriptReport,
       ScriptFails, ScriptOverflow, Step
  <2> QED BY <1>9, <2>2, <2>3, Zenon
<1>10. ASSUME NEW w \in Waiters, WaiterStep(w) PROVE UNCHANGED <<completed, stop, cancelled>>
  BY <1>10, Zenon DEF WaiterStep, WaiterArm, WaiterCheck, WaiterWake, admissionVars
<1> QED BY <1>1, <1>6, <1>7, <1>8, <1>9, <1>10, Zenon DEF Next, r

\* Whatever the order of a network change and a disconnect, end_attempt never
\* offers to restart a connection that was stopped, and no later step stops
\* the one on offer without withdrawing it
THEOREM RestartIsUnstopped == Spec => []RestartNotStopped
<1>1. Init => RestartInv
  BY Zenon DEF Init, RestartInv
<1>2. ASSUME TypeOK, LifecycleInv, RestartInv, [Next]_vars PROVE RestartInv'
  <2>1. CASE EndReconnect /\ restart' # restart
    <3>1. restart' = subject /\ ~cancelled[subject] /\ ~stop[subject]
          /\ UNCHANGED <<cancelled, stop>>
      BY <2>1, Zenon DEF EndReconnect, GrantRestart
    <3>2. subject \in Attempt /\ completed \in [Attempt -> BOOLEAN]
      BY <1>2, <2>1, Zenon DEF EndReconnect, LifecycleInv, ActorInv, Ending, TypeOK, ActorTypes,
         AdmissionTypes
    <3>3. completed'[subject]
      BY <2>1, <3>2, Zenon DEF EndReconnect, Complete
    <3> QED BY <3>1, <3>3, Zenon DEF RestartInv
  <2>2. CASE UNCHANGED vars
    BY <1>2, <2>2, Zenon DEF vars, admissionVars, RestartInv
  <2> QED BY <1>2, <2>1, <2>2, RestartGranted, RestartKept, Zenon DEF RestartInv
<1>3. RestartInv => RestartNotStopped
  BY Zenon DEF RestartInv, RestartNotStopped
<1>4. TypeOK /\ LifecycleInv /\ RestartInv /\ [Next]_vars => RestartInv'
  BY <1>2, Zenon
<1> QED BY <1>1, <1>3, <1>4, TypeCorrect, LifecycleInvariant, PTL DEF Spec
-----------------------------------------------------------------------------
(* VpnTask implements VpnOwnership *)

Running == {a \in Attempt : NativeLive(a)}

\* Only the active attempt can have a native thread
LEMMA RunningFacts ==
  ASSUME TypeOK, LifecycleInv
  PROVE  /\ \A a \in Running : current = a /\ worker[a] \in WithNative
         /\ \A a \in Attempt : worker[a] \notin WithNative => a \notin Running
         /\ active = None => Running = {}
         /\ \A a \in Attempt : active = a /\ worker[a] \notin WithNative => Running = {}
<1>1. \A a \in Attempt : NativeLive(a) => worker[a] \in WithNative /\ active = a
  BY Zenon DEF LifecycleInv, WorkerInv, AdmissionInv, WorkerLive, WithNative
<1>2. \A a \in Running : a \in Attempt /\ worker[a] \in WithNative /\ active = a
  BY <1>1, Zenon DEF Running
<1>3. active # None => current = active
  BY Zenon DEF LifecycleInv, AdmissionInv
<1>4. \A a \in Running : current = a
  BY <1>2, <1>3, AttemptFacts, Zenon
<1>5. active = None => Running = {}
  BY <1>2, AttemptFacts, Zenon
<1>6. \A a \in Attempt : active = a /\ worker[a] \notin WithNative => Running = {}
  BY <1>2, Zenon
<1> QED BY <1>2, <1>4, <1>5, <1>6, Zenon

LEMMA OwnershipStutter ==
  ASSUME UNCHANGED <<current, ledger, native, completed>>
  PROVE  UNCHANGED Ownership!vars
BY Zenon DEF Ownership!vars, NativeLive

LEMMA SameRunning ==
  ASSUME UNCHANGED native
  PROVE  Running' = Running
BY Zenon DEF Running, NativeLive

\* Requests, handlers and their reservation
LEMMA OwnershipHandler ==
  ASSUME TypeOK, LifecycleInv,
         \/ \E s \in Sessions, k \in Kinds, r \in Attempt \cup {None} : Reserve(s, k, r)
         \/ \E a \in Attempt : Handler(a)
  PROVE  [Ownership!Next]_(Ownership!vars)
<1> USE DEF Ownership!Next
<1>1. ASSUME NEW s \in Sessions, NEW k \in Kinds, NEW r \in Attempt \cup {None},
             Reserve(s, k, r)
      PROVE  Ownership!Next
  <2>1. next \in Attempt /\ current = None /\ ledger[next] = "none"
    BY <1>1, AttemptFacts DEF Reserve, ReserveAllowed, TypeOK, AdmissionTypes,
       LifecycleInv, ReservationInv
  <2>2. Ownership!Admit(next)
    BY <1>1, <2>1, SameRunning, Zenon DEF Reserve, Ownership!Admit, Running
  <2> QED BY <2>1, <2>2, Zenon
<1>2. ASSUME NEW a \in Attempt, Handler(a)
      PROVE  [Ownership!Next]_(Ownership!vars)
  <2>1. CASE Commit(a)
    <3>1. Ownership!Accept(a)
      BY <2>1, SameRunning, Zenon DEF Commit, CommitAllowed, Ownership!Accept, Running,
         LifecycleInv, ReservationInv
    <3> QED BY <3>1, Zenon
  <2>2. CASE Abandon(a) \/ DropWake(a)
    BY <2>2, OwnershipStutter, Zenon DEF Abandon, DropWake, admissionVars, workerVars
  <2>3. CASE DropClear(a)
    <3>1. /\ current = a /\ ledger[a] = "client" /\ worker[a] = "none"
          /\ UNCHANGED <<ledger, native, completed>>
      BY <2>3, Zenon DEF DropClear, LifecycleInv, ReservationInv, workerVars
    <3>2. active = None
      BY <3>1, Zenon DEF LifecycleInv, AdmissionInv
    <3>3. Running = {} /\ Running' = Running /\ current' = None
      BY <2>3, <3>1, <3>2, RunningFacts, SameRunning, Zenon DEF DropClear
    <3>4. Ownership!Release(a)
      BY <3>1, <3>3, Zenon DEF Ownership!Release, Running
    <3> QED BY <3>4, Zenon
  <2>4. CASE DropSignal(a)
    <3>1. /\ current # a /\ ledger[a] = "client" /\ worker[a] = "none"
          /\ completed' = [completed EXCEPT ![a] = TRUE]
          /\ UNCHANGED <<current, ledger, native>>
      BY <2>4, Zenon DEF DropSignal, Complete, LifecycleInv, ReservationInv, admissionVars,
         workerVars
    <3>2. a \notin Running /\ Running' = Running
      BY <3>1, RunningFacts, SameRunning, Zenon DEF WithNative
    <3>3. Ownership!Announce(a)
      BY <3>1, <3>2, Zenon DEF Ownership!Announce, Running
    <3> QED BY <3>3, Zenon
  <2> QED BY <1>2, <2>1, <2>2, <2>3, <2>4, Zenon DEF Handler
<1> QED BY <1>1, <1>2, Zenon

\* The actor releases and announces
LEMMA OwnershipActor ==
  ASSUME TypeOK, LifecycleInv, ActorStep
  PROVE  [Ownership!Next]_(Ownership!vars)
<1> USE DEF Ownership!Next
<1>1. CASE EndReconnect \/ EndClear
  <2>1. /\ subject \in Attempt /\ current = subject /\ worker[subject] = "done"
        /\ active = None
    BY <1>1, AttemptFacts, Zenon DEF EndReconnect, EndClear, LifecycleInv, ActorInv, TypeOK,
       ActorTypes, Ending
  <2>2. /\ current' = None
        /\ completed' \in {completed, [completed EXCEPT ![subject] = TRUE]}
        /\ UNCHANGED <<ledger, native>>
    BY <1>1, <2>1, Zenon DEF EndReconnect, EndClear, Complete, workerVars
  <2>3. ledger[subject] # "service"
    BY <2>1, Zenon DEF LifecycleInv, WorkerInv
  <2>4. Running = {} /\ Running' = Running
    BY <2>1, <2>2, RunningFacts, SameRunning, Zenon
  <2>5. Ownership!Release(subject)
    BY <2>1, <2>2, <2>3, <2>4, Zenon DEF Ownership!Release, Running
  <2> QED BY <2>1, <2>5, Zenon
<1>2. CASE EndSignal
  <2>1. /\ subject \in Attempt /\ current # subject /\ worker[subject] = "done"
        /\ completed' = [completed EXCEPT ![subject] = TRUE]
        /\ UNCHANGED <<current, ledger, native>>
    BY <1>2, AttemptFacts, Zenon DEF EndSignal, Complete, LifecycleInv, ActorInv, TypeOK,
       ActorTypes, Ending, admissionVars, workerVars
  <2>2. ledger[subject] \in {"native", "loggedOut"}
    BY <2>1, Zenon DEF LifecycleInv, WorkerInv
  <2>3. subject \notin Running /\ Running' = Running
    BY <2>1, RunningFacts, SameRunning, Zenon DEF WithNative
  <2>4. Ownership!Announce(subject)
    BY <2>1, <2>2, <2>3, Zenon DEF Ownership!Announce, Running
  <2> QED BY <2>1, <2>4, Zenon
<1>3. CASE HandleEvent
  BY <1>3, OwnershipStutter, Zenon DEF HandleEvent
<1>4. CASE ShutdownCheck \/ BeginShutdown \/ Publish \/ EndJoin \/ EndPublish
  BY <1>4, OwnershipStutter, Zenon DEF ShutdownCheck, BeginShutdown, Publish, EndJoin, EndPublish,
     admissionVars, workerVars
<1> QED BY <1>1, <1>2, <1>3, <1>4, Zenon DEF ActorStep

\* The worker logs out, hands over to the native thread, and that ends
LEMMA OwnershipWorker ==
  ASSUME TypeOK, LifecycleInv, NEW a \in Attempt,
         WorkerProgress(a) \/ WorkerEnvironment(a)
  PROVE  [Ownership!Next]_(Ownership!vars)
<1> USE DEF Ownership!Next
<1>1. CASE WorkerLogout(a)
  <2>1. /\ worker[a] = "logout" /\ ledger' = [ledger EXCEPT ![a] = Logout(a)]
        /\ UNCHANGED <<current, native, completed>>
    BY <1>1, Zenon DEF WorkerLogout, Step, FrameWorker, admissionVars
  <2>2. current = a
    BY <2>1, AttemptFacts, Zenon DEF LifecycleInv, AdmissionInv, WorkerLive
  <2>3. CASE ledger[a] = "service"
    <3>1. Ownership!LogOut(a)
      BY <2>1, <2>2, <2>3, SameRunning, Zenon DEF Ownership!LogOut, Running, Logout
    <3> QED BY <3>1, Zenon
  <2>4. CASE ledger[a] # "service"
    <3>1. ledger' = ledger
      BY <2>1, <2>4, Zenon DEF Logout, TypeOK, WorkerTypes
    <3> QED BY <2>1, <3>1, OwnershipStutter, Zenon
  <2> QED BY <2>3, <2>4, Zenon
<1>2. CASE WorkerSend(a)
  <2>1. CASE worker[a] = "monitorSend"
    <3>1. /\ ledger' = [ledger EXCEPT ![a] = "native"]
          /\ native' = [native EXCEPT ![a] = "connecting"]
          /\ UNCHANGED <<current, completed>>
      BY <1>2, <2>1, Zenon DEF WorkerSend, FrameWorker, admissionVars
    <3>2. active = a /\ current = a /\ ledger[a] = "service"
      BY <2>1, AttemptFacts, Zenon DEF LifecycleInv, AdmissionInv, WorkerInv, WorkerLive,
         BeforeNative
    <3>3. Running = {}
      BY <2>1, <3>2, RunningFacts, Zenon DEF WithNative
    <3>4. Running' = {a}
      BY <3>1, <3>3, Zenon DEF Running, NativeLive, TypeOK, WorkerTypes
    <3>5. Ownership!HandOver(a)
      BY <3>1, <3>2, <3>3, <3>4, Zenon DEF Ownership!HandOver, Running
    <3> QED BY <3>5, Zenon
  <2>2. CASE worker[a] # "monitorSend"
    BY <1>2, <2>2, OwnershipStutter, Zenon DEF WorkerSend, FrameWorker, admissionVars
  <2> QED BY <2>1, <2>2, Zenon
<1>3. CASE NativeEnds(a)
  <2>1. /\ NativeLive(a) /\ native' = [native EXCEPT ![a] = "ended"]
        /\ UNCHANGED <<current, ledger, completed>>
    BY <1>3, Zenon DEF NativeEnds, NativeLive, FrameWorker, admissionVars
  <2>2. a \in Running /\ current = a
    BY <2>1, RunningFacts, Zenon DEF Running
  <2>3. Running' = Running \ {a}
    BY <2>1, Zenon DEF Running, NativeLive, TypeOK, WorkerTypes
  <2>4. Ownership!TunnelOver(a)
    BY <2>1, <2>2, <2>3, Zenon DEF Ownership!TunnelOver, Running
  <2> QED BY <2>4, Zenon
<1>4. CASE NativeEstablished(a)
  <2>1. /\ native[a] = "connecting" /\ native' = [native EXCEPT ![a] = "up"]
        /\ UNCHANGED <<current, ledger, completed>>
    BY <1>4, Zenon DEF NativeEstablished, FrameWorker, admissionVars
  <2>2. Running' = Running
    BY <2>1, Zenon DEF Running, NativeLive, TypeOK, WorkerTypes
  <2> QED BY <2>1, <2>2, Zenon DEF Running, Ownership!vars
<1>5. CASE \/ WorkerStart(a) \/ WorkerSetup(a) \/ NtFinal(a) \/ TunnelOpen(a)
           \/ TunnelCancelled(a) \/ TunnelEnded(a) \/ TunnelJoin(a) \/ WorkerReport(a)
  BY <1>5, OwnershipStutter, Zenon DEF WorkerStart, WorkerSetup, NtFinal, TunnelOpen,
     TunnelCancelled, TunnelEnded, TunnelJoin, WorkerReport, FrameWorker, admissionVars
<1>6. CASE \/ NtHealthChange(a) \/ NtPublish(a) \/ NtMaintenanceEnds(a)
           \/ ScriptReport(a) \/ ScriptFails(a) \/ ScriptOverflow(a)
           \/ NtApprovalPoll(a) \/ TunnelApprovalPoll(a)
  BY <1>6, OwnershipStutter, Zenon DEF NtHealthChange, NtPublish, NtMaintenanceEnds,
     ScriptReport, ScriptFails, ScriptOverflow, NtApprovalPoll, TunnelApprovalPoll,
     StopForRevokedApproval, FrameWorker, admissionVars, workerVars
<1> QED
  BY <1>1, <1>2, <1>3, <1>4, <1>5, <1>6, Zenon DEF WorkerProgress, WorkerEnvironment

LEMMA OwnershipStep ==
  ASSUME TypeOK, LifecycleInv, [Next]_vars
  PROVE  [Ownership!Next]_(Ownership!vars)
<1>1. CASE ClientStep
  <2>1. CASE \E s \in Sessions, k \in Kinds, r \in Attempt \cup {None} : Reserve(s, k, r)
    BY <2>1, OwnershipHandler, Zenon
  <2>2. CASE \/ Disconnect \/ RequestShutdown
             \/ \E w \in Waiters : WaitDisconnect(w) \/ \E a \in Attempt : WaitDrain(w, a)
             \/ \E a \in Attempt : DrainCancel(a) \/ RevokeApproval(a)
             \/ \E s \in Sessions : RevokeSession(s)
    BY <2>2, OwnershipStutter, Zenon DEF Disconnect, RequestDisconnect, RequestShutdown,
       WaitDisconnect, WaitDrain, DrainCancel, RevokeApproval, RevokeSession,
       admissionVars, workerVars
  <2> QED BY <1>1, <2>1, <2>2, Zenon DEF ClientStep
<1>2. CASE UNCHANGED vars
  BY <1>2, OwnershipStutter, Zenon DEF vars, admissionVars, workerVars
<1>3. CASE \E w \in Waiters : WaiterStep(w)
  BY <1>3, OwnershipStutter, Zenon DEF WaiterStep, WaiterArm, WaiterCheck, WaiterWake,
     admissionVars, workerVars
<1> QED
  BY <1>1, <1>2, <1>3, OwnershipHandler, OwnershipActor, OwnershipWorker, Zenon DEF Next

\* vpn_task.rs implements the abstract ownership of slot, logout and completion
THEOREM LifecycleImplementsOwnership == Spec => ImplementsOwnership
<1>1. Init => Ownership!Init
  BY DEF Init, Ownership!Init, NativeLive
<1>2. TypeOK /\ LifecycleInv /\ [Next]_vars => [Ownership!Next]_(Ownership!vars)
  BY OwnershipStep, Zenon
<1> QED
  BY TypeCorrect, LifecycleInvariant, <1>1, <1>2, PTL
  DEF Spec, ImplementsOwnership, Ownership!Spec
=============================================================================
