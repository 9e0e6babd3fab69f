------------------------- MODULE VpnTaskStepProofs -------------------------
(***************************************************************************)
(* The steps of VpnTask taken by clients and request handlers preserve     *)
(* LifecycleInv. One lemma per kind of step; under it one step per part of *)
(* the invariant.                                                          *)
(***************************************************************************)
EXTENDS VpnTaskTypeProofs
-----------------------------------------------------------------------------
(* What is queued *)

\* How sending changes what is queued
LEMMA SentFacts ==
  ASSUME queue \in Seq(Event), NEW e \in Event, queue' = Append(queue, e)
  PROVE  /\ \A x : Queued(x)' <=> Queued(x) \/ x = e
         /\ \A x : x # e /\ QueuedOnce(x) => QueuedOnce(x)'
         /\ ~Queued(e) => QueuedOnce(e)'
<1>1. /\ DOMAIN queue' = 1 .. Len(queue) + 1 /\ DOMAIN queue = 1 .. Len(queue)
      /\ Len(queue) \in Nat
      /\ \A i \in 1 .. Len(queue) : queue'[i] = queue[i]
      /\ queue'[Len(queue) + 1] = e
  OBVIOUS
<1>2. \A x : Queued(x)' <=> Queued(x) \/ x = e
  BY <1>1 DEF Queued
<1>3. \A x : x # e /\ QueuedOnce(x) => QueuedOnce(x)'
  BY <1>1 DEF QueuedOnce
<1>4. ~Queued(e) => QueuedOnce(e)'
  BY <1>1 DEF QueuedOnce, Queued
<1> QED BY <1>2, <1>3, <1>4, Zenon

\* How receiving changes what is queued
LEMMA TakenFacts ==
  ASSUME queue \in Seq(Event), queue # <<>>, queue' = Tail(queue)
  PROVE  /\ \A x : Queued(x)' => Queued(x)
         /\ \A x : Queued(x) => Queued(x)' \/ x = Head(queue)
         /\ \A x : QueuedOnce(x) => QueuedOnce(x)'
         /\ \A x : x = Head(queue) /\ QueuedOnce(x) => ~Queued(x)'
         /\ Queued(Head(queue))
<1>1. /\ DOMAIN queue = 1 .. Len(queue) /\ Len(queue) \in Nat \ {0}
      /\ DOMAIN queue' = 1 .. Len(queue) - 1
      /\ \A i \in 1 .. Len(queue) - 1 : queue'[i] = queue[i + 1]
      /\ Head(queue) = queue[1]
  OBVIOUS
<1>2. \A x : Queued(x)' => Queued(x)
  BY <1>1 DEF Queued
<1>3. \A x : Queued(x) => Queued(x)' \/ x = Head(queue)
  <2> SUFFICES ASSUME NEW x, NEW i \in 1 .. Len(queue), queue[i] = x, i # 1
               PROVE  Queued(x)'
    BY <1>1, Zenon DEF Queued
  <2> QED BY <1>1, i - 1 \in 1 .. Len(queue) - 1, queue'[i - 1] = queue[i], Zenon DEF Queued
<1>4. \A x : QueuedOnce(x) => QueuedOnce(x)'
  <2> SUFFICES ASSUME NEW x, QueuedOnce(x), NEW i \in 1 .. Len(queue) - 1,
                      NEW j \in 1 .. Len(queue) - 1, queue'[i] = x, queue'[j] = x
               PROVE  i = j
    BY <1>1 DEF QueuedOnce
  <2>1. queue[i + 1] = x /\ queue[j + 1] = x /\ i + 1 \in 1 .. Len(queue) /\ j + 1 \in 1 .. Len(queue)
    BY <1>1
  <2>2. i + 1 = j + 1
    BY <1>1, <2>1, Zenon DEF QueuedOnce
  <2> QED BY <2>2
<1>5. \A x : x = Head(queue) /\ QueuedOnce(x) => ~Queued(x)'
  <2> SUFFICES ASSUME NEW x, x = queue[1], QueuedOnce(x), NEW i \in 1 .. Len(queue) - 1,
                      queue'[i] = x
               PROVE  FALSE
    BY <1>1, Zenon DEF Queued
  <2>1. queue[i + 1] = x /\ i + 1 \in 1 .. Len(queue) /\ 1 \in 1 .. Len(queue)
    BY <1>1
  <2>2. i + 1 = 1
    BY <1>1, <2>1, Zenon DEF QueuedOnce
  <2> QED BY <2>2
<1> QED BY <1>1, <1>2, <1>3, <1>4, <1>5 DEF Queued

LEMMA SameQueueFacts ==
  ASSUME queue' = queue
  PROVE  /\ \A x : Queued(x)' <=> Queued(x)
         /\ \A x : QueuedOnce(x)' <=> QueuedOnce(x)
  BY Zenon DEF Queued, QueuedOnce

LEMMA EvFacts ==
  \A t, u, a, b : Ev(t, a) = Ev(u, b) <=> t = u /\ a = b
  BY Zenon DEF Ev

\* Sending Ev(t, b) leaves every other event as it was queued
LEMMA SendFacts ==
  ASSUME QueueTypes, NEW t \in EventType, NEW b \in Attempt,
         TrySend(Ev(t, b)) \/ queue' = Append(queue, Ev(t, b))
  PROVE  /\ \A u, a : u # t \/ a # b =>
              /\ Queued(Ev(u, a))' <=> Queued(Ev(u, a))
              /\ QueuedOnce(Ev(u, a)) => QueuedOnce(Ev(u, a))'
         /\ ~Queued(Ev(t, b)) => QueuedOnce(Ev(t, b))'
         /\ Queued(Ev(t, b)) => Queued(Ev(t, b))'
<1>1. CASE queue' = queue
  <2>1. ~Queued(Ev(t, b)) => QueuedOnce(Ev(t, b))
    BY Zenon DEF Queued, QueuedOnce
  <2> QED BY <1>1, <2>1, SameQueueFacts, Zenon
<1>2. CASE queue' = Append(queue, Ev(t, b))
  <2>1. Ev(t, b) \in Event
    BY EvType, Zenon
  <2> QED BY <1>2, <2>1, SentFacts, EvFacts DEF QueueTypes
<1> QED BY <1>1, <1>2, Zenon DEF TrySend
-----------------------------------------------------------------------------
(* Parts of the invariant that a step leaves alone, because it leaves the  *)
(* variables they speak of alone                                           *)

LEMMA FrameReservation ==
  ASSUME ReservationInv,
         UNCHANGED <<next, current, reservation, worker, native, ledger, completed, stop>>
  PROVE  ReservationInv'
BY Zenon DEF ReservationInv

LEMMA FrameAdmission ==
  ASSUME AdmissionInv,
         \A x : Queued(x)' <=> Queued(x),
         UNCHANGED <<current, reservation, active, worker, ledger, native, completed>>
  PROVE  AdmissionInv'
BY Zenon DEF AdmissionInv, StartQueued, WorkerLive

LEMMA FrameQueue ==
  ASSUME QueueInv, UNCHANGED <<queue, reservation, worker, stop>>
  PROVE  QueueInv'
BY SameQueueFacts, Zenon DEF QueueInv, StartQueued

LEMMA FrameWorkers ==
  ASSUME WorkerInv, UNCHANGED <<worker, ledger, native>>
  PROVE  WorkerInv'
BY Zenon DEF WorkerInv, NativeLive

LEMMA FrameActorInv ==
  ASSUME ActorInv, UNCHANGED <<actor, subject, active, worker, current, completed, closed>>
  PROVE  ActorInv'
BY Zenon DEF ActorInv

LEMMA FrameState ==
  ASSUME StateInv, UNCHANGED <<current, reservation, vpnState, actor, restart, stop, phase>>,
         \A a \in Attempt : cancelled[a] => cancelled'[a]
  PROVE  StateInv'
BY Zenon DEF StateInv, IdleStateIsFinal, RestartMatchesState, StopIsSticky
-----------------------------------------------------------------------------
(* Requests to stop, and steps that cancel a token or concern no part of   *)
(* the invariant                                                           *)

\* The worker of a tunnel may start to join its native thread
JoinBegins ==
  \A a \in Attempt :
    worker'[a] = worker[a] \/ (worker[a] = "tunnelRun" /\ worker'[a] = "tunnelJoin")

\* The admitted attempt is stopped as request_disconnect does it
StopsCurrent ==
  /\ current # None /\ ~stop[current]
  /\ stop' = [stop EXCEPT ![current] = TRUE]
  /\ phase' = [phase EXCEPT ![current] = "Stopping"]
  /\ cancelled'[current]
  /\ TrySend(Ev("Stop", current))

LEMMA StopFacts ==
  ASSUME TypeOK, LifecycleInv, UNCHANGED current,
         StopsCurrent \/ UNCHANGED <<stop, phase, queue>>,
         \A a \in Attempt : cancelled[a] => cancelled'[a]
  PROVE  /\ \A u, b : u # "Stop" =>
              /\ Queued(Ev(u, b))' <=> Queued(Ev(u, b))
              /\ QueuedOnce(Ev(u, b)) => QueuedOnce(Ev(u, b))'
         /\ \A b \in Attempt :
              /\ Queued(Ev("Stop", b))' => stop'[b]
              /\ QueuedOnce(Ev("Stop", b))'
              /\ stop'[b] <=> stop[b] \/ (StopsCurrent /\ b = current)
              /\ stop'[b] => phase'[b] = "Stopping" /\ cancelled'[b]
<1>1. CASE UNCHANGED <<stop, phase, queue>>
  <2>1. ~StopsCurrent
    BY <1>1, AttemptFacts, Zenon DEF StopsCurrent, TypeOK, AdmissionTypes
  <2>2. /\ \A x : Queued(x)' <=> Queued(x)
        /\ \A x : QueuedOnce(x)' <=> QueuedOnce(x)
    BY <1>1, SameQueueFacts, Zenon
  <2>3. \A b \in Attempt : stop'[b] => phase'[b] = "Stopping" /\ cancelled'[b]
    BY <1>1, Zenon DEF LifecycleInv, StateInv, StopIsSticky
  <2> QED BY <1>1, <2>1, <2>2, <2>3, Zenon DEF LifecycleInv, QueueInv
<1>2. CASE StopsCurrent
  <2>1. current \in Attempt /\ "Stop" \in EventType /\ QueueTypes
    BY <1>2, AttemptFacts, Zenon DEF StopsCurrent, TypeOK, AdmissionTypes, EventType
  <2>2. ~Queued(Ev("Stop", current)) /\ TrySend(Ev("Stop", current))
    BY <1>2, <2>1, Zenon DEF LifecycleInv, QueueInv, StopsCurrent
  <2>3. /\ \A u, b : u # "Stop" \/ b # current =>
             /\ Queued(Ev(u, b))' <=> Queued(Ev(u, b))
             /\ QueuedOnce(Ev(u, b)) => QueuedOnce(Ev(u, b))'
        /\ ~Queued(Ev("Stop", current)) => QueuedOnce(Ev("Stop", current))'
    BY <2>1, <2>2, SendFacts, Zenon
  <2>4. \A b \in Attempt :
          /\ stop'[b] <=> stop[b] \/ b = current
          /\ stop'[b] => phase'[b] = "Stopping" /\ cancelled'[b]
    BY <1>2, <2>1, Zenon DEF StopsCurrent, LifecycleInv, StateInv, StopIsSticky, TypeOK,
       AdmissionTypes
  <2>5. \A b \in Attempt :
          /\ Queued(Ev("Stop", b)) => stop[b]
          /\ QueuedOnce(Ev("Stop", b))
    BY Zenon DEF LifecycleInv, QueueInv
  <2>6. \A b \in Attempt :
          /\ Queued(Ev("Stop", b))' => stop'[b]
          /\ QueuedOnce(Ev("Stop", b))'
    <3> SUFFICES ASSUME NEW b \in Attempt
                 PROVE  /\ Queued(Ev("Stop", b))' => stop'[b]
                        /\ QueuedOnce(Ev("Stop", b))'
      OBVIOUS
    <3>1. CASE b = current BY <2>2, <2>3, <2>4, <3>1, Zenon
    <3>2. CASE b # current BY <2>3, <2>4, <2>5, <3>2, Zenon
    <3> QED BY <3>1, <3>2, Zenon
  <2> QED BY <1>2, <2>3, <2>4, <2>6, Zenon
<1> QED BY <1>1, <1>2, Zenon

LEMMA StopRequestInv ==
  ASSUME TypeOK, LifecycleInv,
         UNCHANGED <<closed, next, current, completed, reservation, ledger, native,
                     actor, subject, active>>,
         StopsCurrent \/ UNCHANGED <<stop, phase, queue>>,
         \A a \in Attempt : cancelled[a] => cancelled'[a],
         JoinBegins,
         restart' \in {restart, None},
         vpnState' = vpnState \/ (vpnState' = "Disconnected" /\ restart' = None)
  PROVE  LifecycleInv'
<1>1. /\ \A u, b : u # "Stop" =>
           /\ Queued(Ev(u, b))' <=> Queued(Ev(u, b))
           /\ QueuedOnce(Ev(u, b)) => QueuedOnce(Ev(u, b))'
      /\ \A b \in Attempt :
           /\ Queued(Ev("Stop", b))' => stop'[b]
           /\ QueuedOnce(Ev("Stop", b))'
           /\ stop'[b] <=> stop[b] \/ (StopsCurrent /\ b = current)
           /\ stop'[b] => phase'[b] = "Stopping" /\ cancelled'[b]
  BY StopFacts, Zenon
<1>2. StopsCurrent => current \in Attempt /\ reservation[current] # "none"
  BY AttemptFacts, Zenon DEF StopsCurrent, TypeOK, AdmissionTypes, LifecycleInv, AdmissionInv
<1>3. ReservationInv'
  BY <1>1, <1>2, ZenonT(60) DEF LifecycleInv, ReservationInv, JoinBegins
<1>4. AdmissionInv'
  BY <1>1, AttemptFacts, ZenonT(60) DEF LifecycleInv, AdmissionInv, StartQueued, WorkerLive,
     JoinBegins, TypeOK, ActorTypes
<1>5. QueueInv'
  BY <1>1, Zenon DEF LifecycleInv, QueueInv, StartQueued, JoinBegins
<1>6. WorkerInv'
  BY Zenon DEF LifecycleInv, WorkerInv, BeforeNative, WithNative, NativeLive, JoinBegins
<1>7. ActorInv'
  BY AttemptFacts, Zenon DEF LifecycleInv, ActorInv, JoinBegins, TypeOK, ActorTypes
<1>8. StateInv'
  BY <1>1, Zenon DEF LifecycleInv, StateInv, FinalState, IdleStateIsFinal, RestartMatchesState,
     StopIsSticky
<1> QED BY <1>3, <1>4, <1>5, <1>6, <1>7, <1>8, Zenon DEF LifecycleInv

\* Disconnect, disconnect_and_wait and the two approval polls request a stop
LEMMA RequestInv ==
  ASSUME TypeOK, LifecycleInv,
         \/ Disconnect
         \/ \E w \in Waiters : WaitDisconnect(w)
         \/ \E a \in Attempt : NtApprovalPoll(a) \/ TunnelApprovalPoll(a)
  PROVE  LifecycleInv'
<1> USE DEF FrameWorker, actorVars, clientVars, workerVars, AlreadyStopped, ClearRestart
<1>1. /\ UNCHANGED <<closed, next, current, completed, reservation, ledger, native,
                     actor, subject, active>>
      /\ restart' \in {restart, None}
      /\ vpnState' = vpnState \/ (vpnState' = "Disconnected" /\ restart' = None)
  BY Zenon DEF Disconnect, RequestDisconnect, WaitDisconnect, NtApprovalPoll,
     TunnelApprovalPoll, StopForRevokedApproval
<1>2. current # None => current \in Attempt
  BY Zenon DEF TypeOK, AdmissionTypes
<1>3. /\ StopsCurrent \/ UNCHANGED <<stop, phase, queue>>
      /\ \A a \in Attempt : cancelled[a] => cancelled'[a]
  <2>1. CASE Disconnect
    BY <1>2, <2>1, Zenon DEF Disconnect, RequestDisconnect, StopsCurrent, TypeOK, AdmissionTypes
  <2>2. CASE \E w \in Waiters : WaitDisconnect(w)
    BY <1>2, <2>2, Zenon DEF WaitDisconnect, StopsCurrent, TypeOK, AdmissionTypes
  <2>3. CASE \E a \in Attempt : NtApprovalPoll(a) \/ TunnelApprovalPoll(a)
    BY <1>2, <2>3, Zenon DEF NtApprovalPoll, TunnelApprovalPoll, StopForRevokedApproval,
       StopsCurrent
  <2> QED BY <2>1, <2>2, <2>3, Zenon
<1>4. JoinBegins
  <2>1. CASE Disconnect BY <2>1, Zenon DEF Disconnect, JoinBegins
  <2>2. CASE \E w \in Waiters : WaitDisconnect(w) BY <2>2, Zenon DEF WaitDisconnect, JoinBegins
  <2>3. CASE \E a \in Attempt : NtApprovalPoll(a) \/ TunnelApprovalPoll(a)
    BY <2>3, Zenon DEF NtApprovalPoll, TunnelApprovalPoll, JoinBegins, TypeOK, WorkerTypes
  <2> QED BY <2>1, <2>2, <2>3, Zenon
<1> QED BY <1>1, <1>3, <1>4, StopRequestInv, Zenon

\* Steps that only cancel tokens, or only concern waiters, health and approval
LEMMA QuietStepInv ==
  ASSUME TypeOK, LifecycleInv,
         \/ RequestShutdown \/ UNCHANGED vars
         \/ \E w \in Waiters : WaiterStep(w) \/ \E a \in Attempt : WaitDrain(w, a)
         \/ \E a \in Attempt :
              DrainCancel(a) \/ RevokeApproval(a) \/ NtHealthChange(a) \/ ScriptOverflow(a)
         \/ \E s \in Sessions : RevokeSession(s)
  PROVE  LifecycleInv'
<1> DEFINE Kept == <<closed, next, current, restart, phase, stop, completed, queue,
                     vpnState, reservation, ledger, worker, native, actor, subject,
                     active>>
           Grown == \A a \in Attempt : cancelled[a] => cancelled'[a]
<1>1. ASSUME RequestShutdown PROVE UNCHANGED Kept /\ Grown
  BY <1>1, Zenon DEF RequestShutdown, admissionVars, clientVars, actorVars, workerVars
<1>2. ASSUME UNCHANGED vars PROVE UNCHANGED Kept /\ Grown
  BY <1>2, Zenon DEF vars, admissionVars, clientVars, actorVars, workerVars
<1>3. ASSUME NEW w \in Waiters, WaiterStep(w) PROVE UNCHANGED Kept /\ Grown
  <2>1. CASE WaiterArm(w)
    BY <2>1, Zenon DEF WaiterArm, admissionVars, clientVars, actorVars, workerVars
  <2>2. CASE WaiterCheck(w)
    BY <2>2, Zenon DEF WaiterCheck, admissionVars, clientVars, actorVars, workerVars
  <2>3. CASE WaiterWake(w)
    BY <2>3, Zenon DEF WaiterWake, admissionVars, clientVars, actorVars, workerVars
  <2> QED BY <1>3, <2>1, <2>2, <2>3, Zenon DEF WaiterStep
<1>4. cancelled \in [Attempt -> BOOLEAN]
  BY Zenon DEF TypeOK, AdmissionTypes
<1>5. ASSUME NEW w \in Waiters, NEW a \in Attempt, WaitDrain(w, a)
      PROVE  UNCHANGED Kept /\ Grown
  <2>1. UNCHANGED Kept
    BY <1>5, Zenon DEF WaitDrain, admissionVars, clientVars, actorVars, workerVars
  <2>2. Grown BY <1>4, <1>5, Zenon DEF WaitDrain
  <2> QED BY <2>1, <2>2, Zenon
<1>6. ASSUME NEW a \in Attempt,
             DrainCancel(a) \/ RevokeApproval(a) \/ NtHealthChange(a) \/ ScriptOverflow(a)
      PROVE  UNCHANGED Kept /\ Grown
  <2>1. CASE DrainCancel(a)
    <3>1. UNCHANGED Kept
      BY <2>1, Zenon DEF DrainCancel, admissionVars, clientVars, actorVars, workerVars
    <3>2. Grown BY <1>4, <2>1, Zenon DEF DrainCancel
    <3> QED BY <3>1, <3>2, Zenon
  <2>2. CASE RevokeApproval(a)
    BY <2>2, Zenon DEF RevokeApproval, admissionVars, actorVars, workerVars
  <2>3. CASE NtHealthChange(a)
    BY <2>3, Zenon DEF NtHealthChange, FrameWorker, admissionVars, clientVars, actorVars
  <2>4. CASE ScriptOverflow(a)
    <3>1. UNCHANGED Kept
      BY <2>4, Zenon DEF ScriptOverflow, FrameWorker, admissionVars, clientVars, actorVars, workerVars
    <3>2. Grown BY <1>4, <2>4, Zenon DEF ScriptOverflow
    <3> QED BY <3>1, <3>2, Zenon
  <2> QED BY <1>6, <2>1, <2>2, <2>3, <2>4, Zenon
<1>7. ASSUME NEW s \in Sessions, RevokeSession(s) PROVE UNCHANGED Kept /\ Grown
  <2>1. UNCHANGED Kept
    BY <1>7, Zenon DEF RevokeSession, admissionVars, actorVars, workerVars
  <2>2. Grown BY <1>4, <1>7, Zenon DEF RevokeSession
  <2> QED BY <2>1, <2>2, Zenon
<1>8. UNCHANGED Kept /\ Grown
  BY <1>1, <1>2, <1>3, <1>5, <1>6, <1>7, Zenon
<1>9. /\ UNCHANGED <<closed, next, current, completed, reservation, ledger, native,
                     actor, subject, active>>
      /\ UNCHANGED <<stop, phase, queue>>
      /\ restart' = restart /\ vpnState' = vpnState /\ worker' = worker
  BY <1>8, Zenon
<1>10. JoinBegins
  BY <1>9, Zenon DEF JoinBegins
<1> QED BY <1>8, <1>9, <1>10, StopRequestInv, Zenon
-----------------------------------------------------------------------------
(* Request handlers *)

\* reserve_connect admits a fresh attempt
LEMMA ReserveInv ==
  ASSUME TypeOK, LifecycleInv, NEW s \in Sessions, NEW k \in Kinds,
         NEW r \in Attempt \cup {None}, Reserve(s, k, r)
  PROVE  LifecycleInv'
<1>1. /\ next \in Attempt /\ next' = next + 1 /\ current = None /\ current' = next
      /\ restart' = None /\ ~closed
      /\ reservation' = [reservation EXCEPT ![next] = "held"]
      /\ ledger' = [ledger EXCEPT ![next] = "client"]
      /\ UNCHANGED <<closed, phase, stop, cancelled, completed, queue, vpnState, actor,
                     subject, active, worker, native>>
  BY AttemptFacts, Zenon DEF Reserve, ReserveAllowed, actorVars, TypeOK, AdmissionTypes
<1>2. /\ reservation \in [Attempt -> Reservation]
      /\ ledger \in [Attempt -> Ledger]
      /\ active \in Attempt \cup {None}
  BY Zenon DEF TypeOK, ClientTypes, WorkerTypes, ActorTypes
<1>3. reservation[next] = "none" /\ worker[next] = "none" /\ native[next] = "idle"
      /\ ~completed[next] /\ ~stop[next]
  BY <1>1, AttemptFacts DEF LifecycleInv, ReservationInv
<1>4. \A x : Queued(x)' <=> Queued(x)
  BY <1>1, SameQueueFacts, Zenon
<1>5. ReservationInv'
  BY <1>1, <1>2, <1>3, AttemptFacts DEF LifecycleInv, ReservationInv
<1>6. AdmissionInv'
  BY <1>1, <1>2, <1>3, <1>4, AttemptFacts, Zenon DEF LifecycleInv, AdmissionInv, StartQueued,
     WorkerLive
<1>7. QueueInv'
  BY <1>1, <1>2, <1>3, SameQueueFacts, Zenon DEF LifecycleInv, QueueInv, StartQueued
<1>8. WorkerInv'
  BY <1>1, <1>2, <1>3, Zenon DEF LifecycleInv, WorkerInv, BeforeNative, WithNative, NativeLive
<1>9. ActorInv'
  BY <1>1, <1>3, AttemptFacts, Zenon DEF LifecycleInv, ActorInv, Ending
<1>10. StateInv'
  BY <1>1, <1>2, Zenon DEF LifecycleInv, StateInv, FinalState, IdleStateIsFinal,
     RestartMatchesState, StopIsSticky
<1> QED BY <1>5, <1>6, <1>7, <1>8, <1>9, <1>10, Zenon DEF LifecycleInv

\* commit hands the attempt to the queue
LEMMA CommitInv ==
  ASSUME TypeOK, LifecycleInv, NEW a \in Attempt, Commit(a)
  PROVE  LifecycleInv'
<1>1. /\ reservation[a] = "held" /\ current = a
      /\ queue' = Append(queue, Ev("Start", a))
      /\ phase' = [phase EXCEPT ![a] = "Pending"]
      /\ reservation' = [reservation EXCEPT ![a] = "transferred"]
      /\ ledger' = [ledger EXCEPT ![a] = "service"]
      /\ ~stop[a]
      /\ UNCHANGED <<closed, next, current, restart, stop, cancelled, completed,
                     vpnState, actor, subject, active, worker, native>>
  BY Zenon DEF Commit, CommitAllowed, actorVars
<1>2. /\ reservation \in [Attempt -> Reservation]
      /\ ledger \in [Attempt -> Ledger]
      /\ phase \in [Attempt -> Phase]
      /\ QueueTypes
  BY Zenon DEF TypeOK, ClientTypes, WorkerTypes, AdmissionTypes
<1>3. worker[a] = "none" /\ native[a] = "idle" /\ ~completed[a]
  BY <1>1, Zenon DEF LifecycleInv, ReservationInv
<1>4. /\ \A u, b : u # "Start" \/ b # a =>
           /\ Queued(Ev(u, b))' <=> Queued(Ev(u, b))
           /\ QueuedOnce(Ev(u, b)) => QueuedOnce(Ev(u, b))'
      /\ ~Queued(Ev("Start", a)) => QueuedOnce(Ev("Start", a))'
  BY <1>1, <1>2, SendFacts, Zenon DEF EventType
<1>5. ~Queued(Ev("Start", a))
  BY <1>1, Zenon DEF LifecycleInv, QueueInv, StartQueued
<1>6. Queued(Ev("Start", a))'
  BY <1>1, <1>2, SentFacts, EvType, Zenon DEF EventType, QueueTypes
<1>7. ReservationInv'
  BY <1>1, <1>2, <1>3, AttemptFacts, Zenon DEF LifecycleInv, ReservationInv
<1>8. AdmissionInv'
  BY <1>1, <1>2, <1>3, <1>4, <1>6, Zenon DEF LifecycleInv, AdmissionInv, StartQueued, WorkerLive
<1>9. QueueInv'
  BY <1>1, <1>2, <1>3, <1>4, <1>5, Zenon DEF LifecycleInv, QueueInv, StartQueued
<1>10. WorkerInv'
  BY <1>1, <1>2, <1>3, Zenon DEF LifecycleInv, WorkerInv, BeforeNative, WithNative, NativeLive
<1>11. ActorInv'
  BY <1>1, FrameActorInv, Zenon DEF LifecycleInv
<1>12. StateInv'
  BY <1>1, <1>2, Zenon DEF LifecycleInv, StateInv, IdleStateIsFinal, RestartMatchesState,
     StopIsSticky
<1> QED BY <1>7, <1>8, <1>9, <1>10, <1>11, <1>12, Zenon DEF LifecycleInv

\* The handler gives up, or wakes the actor after the drop
LEMMA ReleaseInv ==
  ASSUME TypeOK, LifecycleInv, NEW a \in Attempt, Abandon(a) \/ DropWake(a)
  PROVE  LifecycleInv'
<1>1. /\ \/ reservation[a] = "held" /\ reservation' = [reservation EXCEPT ![a] = "dropping"]
         \/ reservation[a] = "waking" /\ reservation' = [reservation EXCEPT ![a] = "released"]
      /\ UNCHANGED queue \/ TrySend(Ev("PreparationReleased", a))
      /\ UNCHANGED <<closed, next, current, restart, phase, stop, cancelled, completed,
                     vpnState, actor, subject, active, worker, native, ledger>>
  BY Zenon DEF Abandon, DropWake, WakeActor, admissionVars, actorVars, workerVars
<1>2. /\ reservation \in [Attempt -> Reservation] /\ QueueTypes
      /\ current \in Attempt \cup {None}
  BY Zenon DEF TypeOK, ClientTypes, AdmissionTypes
<1>3. \A u, b : u # "PreparationReleased" =>
        /\ Queued(Ev(u, b))' <=> Queued(Ev(u, b))
        /\ QueuedOnce(Ev(u, b)) => QueuedOnce(Ev(u, b))'
  BY <1>1, <1>2, SameQueueFacts, SendFacts, Zenon DEF EventType
<1>4. ReservationInv'
  BY <1>1, <1>2, ZenonT(60) DEF LifecycleInv, ReservationInv
<1>5. AdmissionInv'
  BY <1>1, <1>2, <1>3, Zenon DEF LifecycleInv, AdmissionInv, StartQueued, WorkerLive
<1>6. QueueInv'
  BY <1>1, <1>2, <1>3, Zenon DEF LifecycleInv, QueueInv, StartQueued
<1>7. WorkerInv' /\ ActorInv'
  BY <1>1, FrameWorkers, FrameActorInv, Zenon DEF LifecycleInv
<1>8. StateInv'
  BY <1>1, <1>2, Zenon DEF LifecycleInv, StateInv, IdleStateIsFinal, RestartMatchesState,
     StopIsSticky, ReservationInv
<1> QED BY <1>4, <1>5, <1>6, <1>7, <1>8, Zenon DEF LifecycleInv

\* clear_attempt for a dropped reservation gives the admission back
LEMMA DropClearInv ==
  ASSUME TypeOK, LifecycleInv, NEW a \in Attempt, DropClear(a)
  PROVE  LifecycleInv'
<1>1. current = a /\ worker[a] = "none" /\ reservation[a] = "dropping" /\ ~completed[a]
  BY Zenon DEF LifecycleInv, ReservationInv, DropClear
<1>2. /\ current' = None
      /\ reservation' = [reservation EXCEPT ![a] = "signalling"]
      /\ UNCHANGED <<closed, next, restart, phase, stop, completed, queue, vpnState,
                     actor, subject, active, worker, native, ledger>>
  BY <1>1, Zenon DEF DropClear, actorVars, workerVars
<1>3. /\ reservation \in [Attempt -> Reservation]
      /\ \A b \in Attempt : cancelled[b] => cancelled'[b]
  BY Zenon DEF DropClear, TypeOK, ClientTypes, AdmissionTypes
<1>4. active = None /\ \A b \in Attempt : ~WorkerLive(b)
  <2>1. active = None
    BY <1>1, Zenon DEF LifecycleInv, AdmissionInv
  <2> QED BY <2>1, AttemptFacts, Zenon DEF LifecycleInv, AdmissionInv
<1>5. \A x : Queued(x)' <=> Queued(x)
  BY <1>2, SameQueueFacts, Zenon
<1>6. ReservationInv'
  BY <1>1, <1>2, <1>3, AttemptFacts, Zenon DEF LifecycleInv, ReservationInv
<1>7. AdmissionInv'
  BY <1>1, <1>2, <1>3, <1>4, <1>5, AttemptFacts, Zenon DEF LifecycleInv, AdmissionInv,
     StartQueued, WorkerLive
<1>8. QueueInv'
  BY <1>1, <1>2, <1>3, SameQueueFacts, Zenon DEF LifecycleInv, QueueInv, StartQueued
<1>9. WorkerInv'
  BY <1>2, FrameWorkers, Zenon DEF LifecycleInv
<1>10. ActorInv'
  BY <1>1, <1>2, <1>4, AttemptFacts, Zenon DEF LifecycleInv, ActorInv, Publishing, Ending
<1>11. StateInv'
  BY <1>1, <1>2, <1>3, Zenon DEF LifecycleInv, StateInv, FinalState, IdleStateIsFinal,
     RestartMatchesState, StopIsSticky
<1> QED BY <1>6, <1>7, <1>8, <1>9, <1>10, <1>11, Zenon DEF LifecycleInv

\* ... and completes the attempt
LEMMA DropSignalInv ==
  ASSUME TypeOK, LifecycleInv, NEW a \in Attempt, DropSignal(a)
  PROVE  LifecycleInv'
<1>1. /\ reservation[a] = "signalling" /\ current # a /\ ledger[a] = "client"
      /\ worker[a] = "none"
  BY Zenon DEF DropSignal, LifecycleInv, ReservationInv
<1>2. /\ reservation' = [reservation EXCEPT ![a] = "waking"]
      /\ completed' = [completed EXCEPT ![a] = TRUE]
      /\ UNCHANGED <<closed, next, current, restart, phase, stop, cancelled, queue,
                     vpnState, actor, subject, active, worker, native, ledger>>
  BY Zenon DEF DropSignal, Complete, admissionVars, actorVars, workerVars
<1>2a. UNCHANGED <<closed, next, current, restart, phase, stop, cancelled, queue,
                  vpnState, actor, subject, active, worker, native, ledger>>
  BY <1>2, Zenon
<1>3. /\ reservation \in [Attempt -> Reservation] /\ completed \in [Attempt -> BOOLEAN]
      /\ current \in Attempt \cup {None} /\ active \in Attempt \cup {None}
      /\ subject \in Attempt \cup {None} /\ None \notin Attempt
  BY AttemptFacts, Zenon DEF TypeOK, ClientTypes, AdmissionTypes, ActorTypes
<1>4. /\ \A x : Queued(x)' <=> Queued(x)
      /\ reservation'[a] = "waking" /\ completed'[a]
      /\ \A b \in Attempt : b # a => reservation'[b] = reservation[b] /\ completed'[b] = completed[b]
  <2>1. \A x : Queued(x)' <=> Queued(x) BY <1>2a, SameQueueFacts, Zenon
  <2> QED BY <1>2, <1>3, <2>1, Zenon
<1>5. ReservationInv'
  <2> SUFFICES ASSUME NEW b \in Attempt PROVE ReservationInv!(b)' BY Zenon DEF ReservationInv
  <2>1. ReservationInv!(b) BY Zenon DEF LifecycleInv, ReservationInv
  <2>2. CASE b = a BY <1>1, <1>2a, <1>4, <2>1, <2>2, Zenon
  <2>3. CASE b # a BY <1>1, <1>2a, <1>4, <2>1, <2>3, Zenon
  <2> QED BY <2>2, <2>3, Zenon
<1>6. AdmissionInv'
  <2>1. AdmissionInv BY Zenon DEF LifecycleInv
  <2>2. current # None => reservation'[current] # "none"
    BY <1>3, <1>4, <2>1, Zenon DEF AdmissionInv
  <2>3. active # None => current = active /\ worker[active] # "none"
    BY <2>1, Zenon DEF AdmissionInv
  <2>4. ASSUME NEW b \in Attempt
        PROVE  /\ reservation'[b] = "transferred" /\ worker[b] = "none" =>
                    current = b /\ StartQueued(b)' /\ ledger[b] = "service" /\ native[b] = "idle"
               /\ WorkerLive(b)' => active = b
               /\ completed'[b] => current # b
    <3>1. WorkerLive(b)' <=> WorkerLive(b) BY <1>2a, Zenon DEF WorkerLive
    <3>2. StartQueued(b)' <=> StartQueued(b) BY <1>4, Zenon DEF StartQueued
    <3> QED BY <1>1, <1>4, <2>1, <3>1, <3>2, Zenon DEF AdmissionInv
  <2> QED BY <1>2a, <2>2, <2>3, <2>4, Zenon DEF AdmissionInv
<1>7. QueueInv'
  BY <1>1, <1>2, <1>3, SameQueueFacts, Zenon DEF LifecycleInv, QueueInv, StartQueued
<1>8. WorkerInv'
  BY <1>2a, FrameWorkers, Zenon DEF LifecycleInv
<1>9. ActorInv'
  <2>1. ActorInv BY Zenon DEF LifecycleInv
  <2>2. actor = "signalling" => subject \in Attempt /\ subject # a
    BY <1>1, <1>3, <2>1, Zenon DEF ActorInv, Ending
  <2> QED BY <1>2a, <1>4, <2>1, <2>2, Zenon DEF ActorInv
<1>10. StateInv'
  <2>1. StateInv BY Zenon DEF LifecycleInv
  <2>2. current # None => reservation'[current] = reservation[current]
    BY <1>1, <1>3, <1>4, Zenon
  <2>3. /\ current # None /\ reservation'[current] \in {"held", "dropping"} =>
             vpnState \in FinalState
        /\ actor = "clearing" => vpnState \in FinalState
    BY <2>1, <2>2, Zenon DEF StateInv
  <2>4. IdleStateIsFinal' /\ RestartMatchesState'
    BY <1>2a, <2>1, Zenon DEF StateInv, IdleStateIsFinal, RestartMatchesState
  <2>5. StopIsSticky'
    BY <1>2a, <2>1, Zenon DEF StateInv, StopIsSticky
  <2> QED BY <1>2a, <2>3, <2>4, <2>5, Zenon DEF StateInv, FinalState
<1> QED BY <1>5, <1>6, <1>7, <1>8, <1>9, <1>10, Zenon DEF LifecycleInv
=============================================================================
