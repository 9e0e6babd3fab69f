------------------------ MODULE VpnTaskWorkerProofs ------------------------
(***************************************************************************)
(* The steps of the runtime workers and native threads of VpnTask, and the *)
(* events they send to the actor, preserve LifecycleInv.                   *)
(***************************************************************************)
EXTENDS VpnTaskStepProofs
-----------------------------------------------------------------------------
(* Workers and native threads *)

\* A worker moves between two live control points without sending anything
LEMMA WorkerMove ==
  ASSUME TypeOK, LifecycleInv, NEW a \in Attempt, NEW to \in Worker \ {"none", "done"},
         worker[a] \notin {"none", "done"}, worker' = [worker EXCEPT ![a] = to],
         \A b \in Attempt \ {a} : ledger'[b] = ledger[b] /\ native'[b] = native[b],
         UNCHANGED <<closed, next, current, restart, phase, stop, cancelled, completed,
                     queue, vpnState, reservation, actor, subject, active>>,
         WorkerInv'
  PROVE  LifecycleInv'
<1>1. /\ worker'[a] = to /\ \A b \in Attempt \ {a} : worker'[b] = worker[b]
      /\ active \in Attempt \cup {None} /\ subject \in Attempt \cup {None}
  BY Zenon DEF TypeOK, WorkerTypes, ActorTypes
<1>2. reservation[a] = "transferred"
  BY Zenon DEF LifecycleInv, ReservationInv
<1>3. /\ \A x : Queued(x)' <=> Queued(x)
      /\ \A x : QueuedOnce(x)' <=> QueuedOnce(x)
  BY SameQueueFacts, Zenon
<1>4. ReservationInv'
  BY <1>1, <1>2, Zenon DEF LifecycleInv, ReservationInv
<1>5. AdmissionInv'
  BY <1>1, <1>3, AttemptFacts, ZenonT(60) DEF LifecycleInv, AdmissionInv, StartQueued, WorkerLive
<1>6. QueueInv'
  BY <1>1, <1>3, Zenon DEF LifecycleInv, QueueInv, StartQueued
<1>7. ActorInv'
  BY <1>1, AttemptFacts, Zenon DEF LifecycleInv, ActorInv
<1>8. StateInv'
  BY FrameState, Zenon DEF LifecycleInv
<1> QED BY <1>4, <1>5, <1>6, <1>7, <1>8, Zenon DEF LifecycleInv

\* The worker's own invariant over one move
LEMMA MoveWorkerInv ==
  ASSUME WorkerTypes, WorkerInv, NEW a \in Attempt, NEW to,
         worker' = [worker EXCEPT ![a] = to], UNCHANGED <<ledger, native>>,
         \/ worker[a] \in BeforeNative /\ to \in BeforeNative \cup {"logout"}
         \/ worker[a] \in WithNative /\ to \in WithNative
         \/ worker[a] = "tunnelJoin" /\ native[a] = "ended" /\ to \in {"reconnectSend", "logout"}
         \/ worker[a] = "report" /\ to \in {"failedSend", "endedSend"}
  PROVE  WorkerInv'
BY ZenonT(60) DEF WorkerTypes, WorkerInv, BeforeNative, WithNative, NativeLive

LEMMA WorkerStepInv ==
  ASSUME TypeOK, LifecycleInv, NEW a \in Attempt,
         \/ WorkerStart(a) \/ WorkerSetup(a) \/ NtFinal(a) \/ TunnelOpen(a)
         \/ TunnelCancelled(a) \/ TunnelEnded(a) \/ TunnelJoin(a) \/ WorkerReport(a)
         \/ NtPublish(a) \/ NtMaintenanceEnds(a) \/ ScriptReport(a) \/ ScriptFails(a)
  PROVE  LifecycleInv'
<1> USE DEF Step
<1>1. UNCHANGED <<closed, next, current, restart, phase, stop, cancelled, completed,
                  queue, vpnState, reservation, actor, subject, active, native, ledger>>
  BY Zenon DEF WorkerStart, WorkerSetup, NtFinal, TunnelOpen, TunnelCancelled, TunnelEnded,
         TunnelJoin, WorkerReport, NtPublish, NtMaintenanceEnds, ScriptReport,
         ScriptFails, FrameWorker, clientVars, actorVars, admissionVars
<1>2. PICK to :
        /\ worker' = [worker EXCEPT ![a] = to]
        /\ \/ worker[a] \in BeforeNative /\ to \in BeforeNative \cup {"logout"}
           \/ worker[a] \in WithNative /\ to \in WithNative
           \/ /\ worker[a] = "tunnelJoin" /\ native[a] = "ended"
              /\ to \in {"reconnectSend", "logout"}
           \/ worker[a] = "report" /\ to \in {"failedSend", "endedSend"}
  <2> USE DEF BeforeNative, WithNative
  <2>1. CASE WorkerStart(a) BY <2>1, Zenon DEF WorkerStart
  <2>2. CASE WorkerSetup(a) BY <2>2, Zenon DEF WorkerSetup
  <2>3. CASE NtFinal(a) BY <2>3, Zenon DEF NtFinal
  <2>4. CASE TunnelOpen(a) BY <2>4, Zenon DEF TunnelOpen
  <2>5. CASE TunnelCancelled(a) BY <2>5, Zenon DEF TunnelCancelled
  <2>6. CASE TunnelEnded(a) BY <2>6, Zenon DEF TunnelEnded
  <2>7. CASE TunnelJoin(a) BY <2>7, Zenon DEF TunnelJoin, NativeJoined
  <2>8. CASE WorkerReport(a) BY <2>8, Zenon DEF WorkerReport, FinalSend
  <2>9. CASE NtPublish(a) BY <2>9, Zenon DEF NtPublish
  <2>10. CASE NtMaintenanceEnds(a) BY <2>10, Zenon DEF NtMaintenanceEnds
  <2>11. CASE ScriptReport(a) BY <2>11, Zenon DEF ScriptReport
  <2>12. CASE ScriptFails(a) BY <2>12, Zenon DEF ScriptFails
  <2> QED
    BY <2>1, <2>2, <2>3, <2>4, <2>5, <2>6, <2>7, <2>8, <2>9, <2>10, <2>11, <2>12, Zenon
<1>3. to \in Worker \ {"none", "done"} /\ worker[a] \notin {"none", "done"}
  BY <1>2, Zenon DEF BeforeNative, WithNative, Worker, Sending
<1>4. WorkerInv'
  BY <1>1, <1>2, MoveWorkerInv, Zenon DEF TypeOK, LifecycleInv
<1> QED BY <1>1, <1>2, <1>3, <1>4, WorkerMove, Zenon

\* sessions.logout()
LEMMA WorkerLogoutInv ==
  ASSUME TypeOK, LifecycleInv, NEW a \in Attempt, WorkerLogout(a)
  PROVE  LifecycleInv'
<1>1. /\ worker[a] = "logout" /\ worker' = [worker EXCEPT ![a] = "report"]
      /\ ledger' = [ledger EXCEPT ![a] = Logout(a)]
      /\ UNCHANGED <<closed, next, current, restart, phase, stop, cancelled, completed,
                     queue, vpnState, reservation, actor, subject, active, native>>
  BY Zenon DEF WorkerLogout, Step, FrameWorker, clientVars, actorVars, admissionVars
<1>2. WorkerTypes
  BY Zenon DEF TypeOK
<1>3. WorkerInv'
  BY <1>1, <1>2, Zenon DEF WorkerTypes, LifecycleInv, WorkerInv, BeforeNative, WithNative,
     NativeLive, Logout
<1>4. \A b \in Attempt \ {a} : ledger'[b] = ledger[b] /\ native'[b] = native[b]
  BY <1>1, <1>2, Zenon DEF WorkerTypes
<1>5. "report" \in Worker \ {"none", "done"}
  BY Zenon DEF Worker, Sending
<1> QED BY <1>1, <1>3, <1>4, <1>5, WorkerMove, Zenon

\* The native thread reports the tunnel or ends
LEMMA NativeInv ==
  ASSUME TypeOK, LifecycleInv, NEW a \in Attempt, NativeEstablished(a) \/ NativeEnds(a)
  PROVE  LifecycleInv'
<1>1. /\ NativeLive(a)
      /\ \E n \in {"up", "ended"} : native' = [native EXCEPT ![a] = n]
      /\ UNCHANGED queue \/ queue' = Append(queue, Ev("Established", a))
      /\ UNCHANGED <<closed, next, current, restart, phase, stop, cancelled, completed,
                     vpnState, reservation, actor, subject, active, worker, ledger>>
  BY Zenon DEF NativeEstablished, NativeEnds, NativeLive, FrameWorker, clientVars, actorVars,
     admissionVars
<1>2. WorkerTypes /\ QueueTypes
  BY Zenon DEF TypeOK
<1>3. worker[a] \in WithNative /\ reservation[a] = "transferred"
  BY <1>1, Zenon DEF LifecycleInv, WorkerInv, ReservationInv, WithNative
<1>4. \A u, b : u # "Established" =>
        /\ Queued(Ev(u, b))' <=> Queued(Ev(u, b))
        /\ QueuedOnce(Ev(u, b)) => QueuedOnce(Ev(u, b))'
  BY <1>1, <1>2, SameQueueFacts, SendFacts, Zenon DEF EventType
<1>5. ReservationInv'
  BY <1>1, <1>2, <1>3, ZenonT(60) DEF LifecycleInv, ReservationInv, WorkerTypes
<1>6. AdmissionInv'
  BY <1>1, <1>2, <1>3, <1>4, ZenonT(60) DEF LifecycleInv, AdmissionInv, StartQueued, WorkerLive,
     WithNative, WorkerTypes
<1>7. QueueInv'
  BY <1>1, <1>4, Zenon DEF LifecycleInv, QueueInv, StartQueued
<1>8. WorkerInv'
  BY <1>1, <1>2, <1>3, ZenonT(60) DEF LifecycleInv, WorkerInv, BeforeNative, WithNative, NativeLive,
     WorkerTypes
<1>9. ActorInv' /\ StateInv'
  BY <1>1, FrameActorInv, FrameState, Zenon DEF LifecycleInv
<1> QED BY <1>5, <1>6, <1>7, <1>8, <1>9, Zenon DEF LifecycleInv

\* Every event a worker sends
LEMMA WorkerSendInv ==
  ASSUME TypeOK, LifecycleInv, NEW a \in Attempt, WorkerSend(a)
  PROVE  LifecycleInv'
<1>1. /\ worker[a] \in Sending
      /\ queue' = Append(queue, Ev(SendType(a), a))
      /\ worker' = [worker EXCEPT ![a] = AfterSend(a)]
      /\ IF worker[a] = "monitorSend"
           THEN /\ ledger' = [ledger EXCEPT ![a] = "native"]
                /\ native' = [native EXCEPT ![a] = "connecting"]
           ELSE UNCHANGED <<ledger, native>>
      /\ UNCHANGED <<closed, next, current, restart, phase, stop, cancelled, completed,
                     vpnState, reservation, actor, subject, active>>
  BY Zenon DEF WorkerSend, FrameWorker, clientVars, actorVars, admissionVars
<1>2. /\ WorkerTypes /\ QueueTypes
      /\ active \in Attempt \cup {None} /\ subject \in Attempt \cup {None}
  BY Zenon DEF TypeOK, ActorTypes
<1>3. /\ SendType(a) \in EventType \ {"Start", "Stop"}
      /\ SendType(a) = "Ended" => AfterSend(a) = "done"
      /\ AfterSend(a) # "none"
      /\ AfterSend(a) = "done" <=> worker[a] = "endedSend"
  BY <1>1, Zenon DEF SendType, AfterSend, Sending, EventType
<1>4. \A u, b : u # SendType(a) \/ b # a =>
        /\ Queued(Ev(u, b))' <=> Queued(Ev(u, b))
        /\ QueuedOnce(Ev(u, b)) => QueuedOnce(Ev(u, b))'
  <2> HIDE DEF SendType
  <2>1. \E t \in EventType : t = SendType(a)
    BY <1>3, Zenon
  <2>2. PICK t \in EventType : t = SendType(a)
    BY <2>1, Zenon
  <2>3. queue' = Append(queue, Ev(t, a))
    BY <1>1, <2>2, Zenon
  <2>4. \A u, b : u # t \/ b # a =>
          /\ Queued(Ev(u, b))' <=> Queued(Ev(u, b))
          /\ QueuedOnce(Ev(u, b)) => QueuedOnce(Ev(u, b))'
    BY <1>2, <2>3, SendFacts, Zenon
  <2> QED BY <2>2, <2>4, Zenon
<1>5. /\ worker'[a] = AfterSend(a) /\ \A b \in Attempt \ {a} : worker'[b] = worker[b]
      /\ \A b \in Attempt \ {a} : ledger'[b] = ledger[b] /\ native'[b] = native[b]
  BY <1>1, <1>2, Zenon DEF WorkerTypes
<1>6. worker[a] \notin {"none", "done"} /\ reservation[a] = "transferred"
  BY <1>1, Zenon DEF LifecycleInv, ReservationInv, Sending
<1>7. ReservationInv'
  BY <1>1, <1>5, <1>6 DEF LifecycleInv, ReservationInv
<1>8. AdmissionInv'
  BY <1>1, <1>2, <1>3, <1>4, <1>5, <1>6, AttemptFacts, ZenonT(60)
  DEF LifecycleInv, AdmissionInv, StartQueued, WorkerLive
<1>9. QueueInv'
  <2>1. \A c :
              /\ Queued(Ev("Start", c))' <=> Queued(Ev("Start", c))
              /\ Queued(Ev("Stop", c))' <=> Queued(Ev("Stop", c))
              /\ QueuedOnce(Ev("Start", c)) => QueuedOnce(Ev("Start", c))'
              /\ QueuedOnce(Ev("Stop", c)) => QueuedOnce(Ev("Stop", c))'
    BY <1>3, <1>4, Zenon
  <2>2. ASSUME NEW b \in Attempt, Queued(Ev("Ended", b))' PROVE worker'[b] = "done"
    <3>1. CASE b = a /\ SendType(a) = "Ended"
      BY <1>3, <1>5, <3>1, Zenon
    <3>2. CASE ~(b = a /\ SendType(a) = "Ended")
      <4>1. Queued(Ev("Ended", b))
        BY <1>4, <2>2, <3>2, Zenon
      <4>2. worker[b] = "done"
        BY <4>1, Zenon DEF LifecycleInv, QueueInv
      <4> QED BY <1>5, <1>6, <4>2, Zenon
    <3> QED BY <3>1, <3>2, Zenon
  <2>3. ASSUME NEW b \in Attempt, Queued(Ev("Start", b))'
        PROVE  reservation'[b] = "transferred" /\ worker'[b] = "none"
    <3>1. reservation[b] = "transferred" /\ worker[b] = "none"
      BY <2>1, <2>3, Zenon DEF LifecycleInv, QueueInv, StartQueued
    <3> QED BY <1>1, <1>5, <1>6, <3>1, Zenon
  <2>4. \A b \in Attempt :
          /\ QueuedOnce(Ev("Start", b))' /\ QueuedOnce(Ev("Stop", b))'
          /\ Queued(Ev("Stop", b))' => stop'[b]
    BY <1>1, <2>1, Zenon DEF LifecycleInv, QueueInv
  <2> QED BY <2>2, <2>3, <2>4, Zenon DEF QueueInv, StartQueued
<1>10. WorkerInv'
  BY <1>1, <1>2 DEF LifecycleInv, WorkerInv, BeforeNative, WithNative, NativeLive,
     AfterSend, Sending, WorkerTypes
<1>11. ActorInv'
  BY <1>1, <1>2, <1>5, <1>6, AttemptFacts, Zenon DEF LifecycleInv, ActorInv
<1>12. StateInv'
  BY <1>1, FrameState, Zenon DEF LifecycleInv
<1> QED BY <1>7, <1>8, <1>9, <1>10, <1>11, <1>12, Zenon DEF LifecycleInv
-----------------------------------------------------------------------------
(* The events as the actor handles them *)

\* One event of the queue
LEMMA HandleEventInv ==
  ASSUME TypeOK, LifecycleInv, HandleEvent
  PROVE  LifecycleInv'
<1> DEFINE e == Head(queue)
<1> USE AttemptFacts DEF LifecycleInv, TypeOK, AdmissionTypes, ClientTypes,
        ActorTypes, WorkerTypes, clientVars, FrameActor
<1>1. e \in Event /\ e.attempt \in Attempt /\ e = Ev(e.type, e.attempt)
  BY ReceiveType, Zenon DEF HandleEvent, Event, Ev
<1>2. /\ \A x : Queued(x)' => Queued(x)
      /\ \A x : Queued(x) => Queued(x)' \/ x = e
      /\ \A x : QueuedOnce(x) => QueuedOnce(x)'
      /\ \A x : x = e /\ QueuedOnce(x) => ~Queued(x)'
      /\ Queued(e)
  BY TakenFacts, Zenon DEF HandleEvent, Receive, QueueTypes
<1>3. actor \in {"loop", "recv"}
  BY Zenon DEF HandleEvent, Receive
<1>4. actor' = "recv" => FALSE
  BY Zenon DEF HandleEvent, HandleStart, HandleStop, HandlePublish, HandleRecord, HandleEnded
<1> HIDE DEF e
<1>5. CASE e.type = "Start" /\ HandleStart(e.attempt)
  <2> DEFINE a == e.attempt
  <2>1. a \in Attempt /\ StartQueued(a) /\ QueuedOnce(Ev("Start", a)) /\ e = Ev("Start", a)
    BY <1>1, <1>2, <1>5, Zenon DEF QueueInv, StartQueued
  <2>2. /\ reservation[a] = "transferred" /\ worker[a] = "none" /\ current = a
        /\ ledger[a] = "service" /\ native[a] = "idle" /\ ~completed[a]
    BY <2>1, Zenon DEF QueueInv, AdmissionInv
  <2>3. active = None
    BY <2>2, Zenon DEF AdmissionInv
  <2>4. /\ active' = a /\ worker' = [worker EXCEPT ![a] = "spawned"]
        /\ \/ actor' = "connecting" /\ subject' = a /\ ~stop[a] /\ UNCHANGED cancelled
              /\ phase' = [phase EXCEPT ![a] = "Active"]
           \/ actor' = "loop" /\ cancelled' = [cancelled EXCEPT ![a] = TRUE] /\ UNCHANGED phase
        /\ UNCHANGED <<vpnState, closed, next, current, restart, stop, completed, native,
                       ledger, reservation>>
    BY <1>5, Zenon DEF HandleEvent, HandleStart, ActivateAllowed
  <2>5. \A b \in Attempt : ~StartQueued(b)'
    <3> SUFFICES ASSUME NEW b \in Attempt, StartQueued(b)' PROVE FALSE
      OBVIOUS
    <3>1. StartQueued(b)
      BY <1>2, Zenon DEF StartQueued
    <3>2. b = a
      BY <2>2, <3>1, Zenon DEF QueueInv, AdmissionInv
    <3> QED BY <1>2, <2>1, <3>2, Zenon DEF StartQueued
  <2> HIDE DEF a
  <2>6. ReservationInv'
    BY <2>1, <2>2, <2>4, Zenon DEF ReservationInv
  <2>7. AdmissionInv'
    BY <2>1, <2>2, <2>3, <2>4, ZenonT(60) DEF AdmissionInv, WorkerLive
  <2>8. QueueInv'
    BY <1>2, <2>1, <2>2, <2>4, <2>5, ZenonT(60) DEF QueueInv
  <2>9. WorkerInv'
    BY <2>1, <2>2, <2>4, ZenonT(60) DEF WorkerInv, BeforeNative, WithNative, NativeLive
  <2>10. ActorInv'
    BY <2>1, <2>3, <2>4 DEF ActorInv, Publishing, Ending
  <2>11. StateInv'
    BY <2>1, <2>2, <2>4 DEF StateInv, FinalState, IdleStateIsFinal, RestartMatchesState, StopIsSticky
  <2> QED BY <2>6, <2>7, <2>8, <2>9, <2>10, <2>11, Zenon
<1>6. ASSUME e.type # "Start",
             \/ HandleStop(e.attempt)
             \/ \E to \in Publishing : HandlePublish(e.attempt, to)
             \/ HandleRecord(e)
      PROVE  LifecycleInv'
  <2>1. /\ UNCHANGED <<phase, active, worker, closed, next, current, restart, stop,
                       completed, native, ledger, reservation>>
        /\ \A b \in Attempt : cancelled[b] => cancelled'[b]
        /\ \/ actor' = "loop"
           \/ actor' \in Publishing /\ subject' = e.attempt /\ active = e.attempt
        /\ \/ UNCHANGED vpnState
           \/ active = e.attempt /\ current = e.attempt
    <3>1. CASE HandleStop(e.attempt)
      BY <1>1, <3>1, Zenon DEF HandleEvent, HandleStop, Mine
    <3>2. CASE \E to \in Publishing : HandlePublish(e.attempt, to)
      BY <1>1, <3>2, Zenon DEF HandleEvent, HandlePublish, Mine
    <3>3. CASE HandleRecord(e)
      BY <1>1, <3>3, Zenon DEF HandleEvent, HandleRecord
    <3> QED BY <1>6, <3>1, <3>2, <3>3, Zenon
  <2>2. \A b \in Attempt : StartQueued(b)' <=> StartQueued(b)
    BY <1>1, <1>2, <1>6, EvFacts DEF StartQueued
  <2>3. ReservationInv'
    BY <2>1, Zenon DEF ReservationInv
  <2>4. AdmissionInv'
    BY <2>1, <2>2, Zenon DEF AdmissionInv, WorkerLive
  <2>5. QueueInv'
    BY <1>2, <2>1, <2>2, Zenon DEF QueueInv
  <2>6. WorkerInv'
    BY <2>1, Zenon DEF WorkerInv, NativeLive
  <2>7. ActorInv'
    BY <1>1, <2>1, ZenonT(60) DEF ActorInv, Publishing, Ending
  <2>8. StateInv'
    <3>1. active = e.attempt => reservation[e.attempt] = "transferred"
      BY <1>1 DEF AdmissionInv, ReservationInv
    <3>2. actor' # "clearing"
      BY <2>1, Zenon DEF Publishing
    <3> QED
      BY <1>1, <2>1, <3>1, <3>2
         DEF StateInv, IdleStateIsFinal, RestartMatchesState, StopIsSticky
  <2> QED BY <2>3, <2>4, <2>5, <2>6, <2>7, <2>8, Zenon
<1>7. CASE e.type = "Ended" /\ HandleEnded(e.attempt)
  <2> DEFINE a == e.attempt
  <2>1. a \in Attempt /\ worker[a] = "done"
    <3>1. a \in Attempt /\ e = Ev("Ended", a)
      BY <1>1, <1>7, Zenon
    <3>2. Queued(Ev("Ended", a))
      BY <1>2, <3>1, Zenon
    <3> QED BY <3>1, <3>2, Zenon DEF QueueInv
  <2>2. /\ UNCHANGED <<phase, worker, closed, next, current, restart, stop, cancelled,
                       completed, native, ledger, reservation, vpnState>>
        /\ \/ actor' = "loop" /\ UNCHANGED active
           \/ actor' = "joining" /\ subject' = a /\ active = a /\ active' = None
    BY <1>7, Zenon DEF HandleEvent, HandleEnded, Mine
  <2>3. \A b \in Attempt : StartQueued(b)' <=> StartQueued(b)
    BY <1>1, <1>2, <1>7, EvFacts DEF StartQueued
  <2> HIDE DEF a
  <2>4. ReservationInv'
    BY <2>2, Zenon DEF ReservationInv
  <2>5. AdmissionInv'
    BY <2>1, <2>2, <2>3, Zenon DEF AdmissionInv, WorkerLive
  <2>6. QueueInv'
    BY <1>2, <2>2, <2>3, Zenon DEF QueueInv
  <2>7. WorkerInv'
    BY <2>2, Zenon DEF WorkerInv, NativeLive
  <2>8. ActorInv'
    BY <2>1, <2>2, ZenonT(60) DEF ActorInv, AdmissionInv, Publishing, Ending
  <2>9. StateInv'
    BY <2>2, Zenon DEF StateInv, IdleStateIsFinal, RestartMatchesState, StopIsSticky
  <2> QED BY <2>4, <2>5, <2>6, <2>7, <2>8, <2>9, Zenon
<1> QED
  BY <1>5, <1>6, <1>7, Zenon DEF HandleEvent, Publishing, e
=============================================================================
