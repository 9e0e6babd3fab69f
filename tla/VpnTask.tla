------------------------------ MODULE VpnTask ------------------------------
(***************************************************************************)
(* The connection lifecycle of the privileged service (gpservice):         *)
(* apps/gpservice/src/vpn_task.rs and vpn_task/{runtime,non_tunnel}.rs.    *)
(*                                                                         *)
(* Five kinds of actors interleave:                                        *)
(*   - request handlers hold a ConnectReservation and commit or drop it;   *)
(*   - clients and signals disconnect, and may wait for the drain;         *)
(*   - the VpnTask actor consumes a bounded queue of lifecycle events;     *)
(*   - one runtime worker per accepted attempt prepares, runs, logs out;   *)
(*   - the native tunnel thread of a worker connects and ends.             *)
(* They share the Admissions record (a mutex), the cancellation token of   *)
(* every attempt, the event queue and the published VpnState.              *)
(*                                                                         *)
(* One action is one critical section or one step between two awaits.      *)
(* The per-attempt fields of Admission, ActiveAttempt, the worker and the  *)
(* session ledger are functions of the attempt number.                     *)
(***************************************************************************)
EXTENDS Naturals, Sequences

CONSTANTS
  MaxAttempts,  \* bound on next_attempt: attempts 0 .. MaxAttempts - 1
  QueueCap,     \* capacity of the event queue (4 in VpnTask::new)
  Sessions,     \* client sessions of the registry
  Kinds,        \* kinds of connection the clients ask for
  Waiters,      \* callers that wait for an attempt to drain
  None          \* Option::None

Attempt == 0 .. (MaxAttempts - 1)

ASSUME ConstantsAssumption ==
  /\ MaxAttempts \in Nat \ {0}
  /\ QueueCap \in Nat \ {0}
  /\ None \notin Attempt
  /\ None \notin Sessions
  /\ Kinds \subseteq {"tunnel", "scriptTun", "nonTunnel"}

VARIABLES
  closed,       \* Admissions.closed
  next,         \* Admissions.next_attempt
  current,      \* attempt of Admissions.current, or None
  restart,      \* attempt of Admissions.restart (its owner is owner[restart])
  phase,        \* Admission.phase
  stop,         \* Admission.stop_requested
  cancelled,    \* the attempt's CancellationToken
  completed,    \* AttemptCompletion.completed
  queue,        \* the LifecycleEvent channel
  vpnState,     \* the published VpnState
  tunnel,       \* TunnelBinding: the attempt, and whether a monitor is bound
  reservation,  \* progress of the ConnectReservation of an attempt
  kind,         \* "tunnel" | "scriptTun" | "nonTunnel"
  owner,        \* session that asked for the attempt
  ledger,       \* who must log the attempt's gateway authentication out
  sessions,     \* sessions the registry still knows
  actor,        \* control point of VpnTask::start / handle_event
  subject,      \* attempt the actor is handling
  active,       \* attempt of VpnTask.active, or None
  failure,      \* ActiveAttempt.failure is set
  reconnect,    \* ActiveAttempt.reconnect_required
  shutdown,     \* the task's own cancel_token
  worker,       \* control point of the runtime task
  outcome,      \* the runtime task's result so far
  native,       \* native tunnel thread of the attempt
  health,       \* some member of a non-tunnel attempt is Healthy
  dirty,        \* the member snapshot still has to be published
  approved,     \* HipApproval::approval_is_valid of the attempt
  waiter,       \* control point of a waiter
  awaited,      \* the attempt a waiter waits for
  woken         \* notify_waiters reached the waiter's Notified future

admissionVars == <<closed, next, current, restart, phase, stop>>
clientVars    == <<reservation, kind, owner, sessions, approved>>
actorVars     == <<actor, subject, active, failure, reconnect, tunnel>>
workerVars    == <<worker, outcome, native, health, dirty, ledger>>
waitVars      == <<waiter, awaited, woken>>
vars == <<admissionVars, cancelled, completed, queue, vpnState, clientVars,
          actorVars, shutdown, workerVars, waitVars>>
-----------------------------------------------------------------------------
(* Types *)
Kind  == {"tunnel", "scriptTun", "nonTunnel"}
Phase == {"Preparing", "Pending", "Active", "Stopping"}
EventType == {"TunnelMonitor", "Start", "Stop", "ScriptTunSuspended",
              "ReconnectRequired", "Established", "MembersHealthy",
              "MembersUnhealthy", "Ended", "Failed", "PreparationReleased"}
Event == [type : EventType, attempt : Attempt]
VpnState == {"Disconnected", "Connecting", "Connected", "Disconnecting",
             "Failed", "ReconnectRequired"}
Reservation == {"none", "held", "dropping", "signalling", "waking",
                "released", "transferred"}
Ledger == {"none", "client", "service", "native", "loggedOut"}
Sending == {"ntSend", "ntFinalSend", "revokedSend", "monitorSend",
            "establishedSend", "suspendedSend", "reconnectSend",
            "failedSend", "endedSend"}
Worker == Sending \cup
          {"none", "spawned", "setup", "ntLoop", "ntFinal", "ntRevoked",
           "tunnelOpen", "tunnelRun", "tunnelJoin", "logout", "report", "done"}
Publishing == {"connecting", "connected", "healthy", "unhealthy", "suspended"}
Ending == {"joining", "endReconnect", "endFailed", "endFinished", "clearing",
           "signalling"}
Actor == Publishing \cup Ending \cup {"loop", "recv", "stopped"}

AdmissionTypes ==
  /\ closed \in BOOLEAN
  /\ next \in 0 .. MaxAttempts
  /\ current \in Attempt \cup {None}
  /\ restart \in Attempt \cup {None}
  /\ phase \in [Attempt -> Phase]
  /\ stop \in [Attempt -> BOOLEAN]
  /\ cancelled \in [Attempt -> BOOLEAN]
  /\ completed \in [Attempt -> BOOLEAN]

QueueTypes ==
  /\ queue \in Seq(Event) /\ Len(queue) <= QueueCap
  /\ vpnState \in VpnState

ClientTypes ==
  /\ reservation \in [Attempt -> Reservation]
  /\ kind \in [Attempt -> Kind]
  /\ owner \in [Attempt -> Sessions \cup {None}]
  /\ sessions \subseteq Sessions
  /\ approved \in [Attempt -> BOOLEAN]

ActorTypes ==
  /\ actor \in Actor
  /\ subject \in Attempt \cup {None}
  /\ active \in Attempt \cup {None}
  /\ failure \in [Attempt -> BOOLEAN]
  /\ reconnect \in [Attempt -> BOOLEAN]
  /\ tunnel \in [attempt : Attempt \cup {None}, monitor : BOOLEAN]
  /\ shutdown \in BOOLEAN

WorkerTypes ==
  /\ worker \in [Attempt -> Worker]
  /\ outcome \in [Attempt -> {"ok", "failed", "networkChanged", "revoked"}]
  /\ native \in [Attempt -> {"idle", "connecting", "up", "ended"}]
  /\ health \in [Attempt -> BOOLEAN]
  /\ dirty \in [Attempt -> BOOLEAN]
  /\ ledger \in [Attempt -> Ledger]

WaiterTypes ==
  /\ waiter \in [Waiters -> {"idle", "arming", "checking", "sleeping", "done"}]
  /\ awaited \in [Waiters -> Attempt \cup {None}]
  /\ woken \in [Waiters -> BOOLEAN]

TypeOK ==
  /\ AdmissionTypes /\ QueueTypes /\ ClientTypes
  /\ ActorTypes /\ WorkerTypes /\ WaiterTypes

Init ==
  /\ closed = FALSE /\ next = 0 /\ current = None /\ restart = None
  /\ phase = [a \in Attempt |-> "Preparing"]
  /\ stop = [a \in Attempt |-> FALSE]
  /\ cancelled = [a \in Attempt |-> FALSE]
  /\ completed = [a \in Attempt |-> FALSE]
  /\ queue = <<>>
  /\ vpnState = "Disconnected"
  /\ tunnel = [attempt |-> None, monitor |-> FALSE]
  /\ reservation = [a \in Attempt |-> "none"]
  /\ kind = [a \in Attempt |-> "tunnel"]
  /\ owner = [a \in Attempt |-> None]
  /\ ledger = [a \in Attempt |-> "none"]
  /\ sessions = Sessions
  /\ actor = "loop" /\ subject = None /\ active = None
  /\ failure = [a \in Attempt |-> FALSE]
  /\ reconnect = [a \in Attempt |-> FALSE]
  /\ shutdown = FALSE
  /\ worker = [a \in Attempt |-> "none"]
  /\ outcome = [a \in Attempt |-> "ok"]
  /\ native = [a \in Attempt |-> "idle"]
  /\ health = [a \in Attempt |-> FALSE]
  /\ dirty = [a \in Attempt |-> FALSE]
  /\ approved = [a \in Attempt |-> TRUE]
  /\ waiter = [w \in Waiters |-> "idle"]
  /\ awaited = [w \in Waiters |-> None]
  /\ woken = [w \in Waiters |-> FALSE]
-----------------------------------------------------------------------------
(* The event queue and the completion of an attempt *)
Ev(t, a) == [type |-> t, attempt |-> a]
QueueFull == Len(queue) >= QueueCap

\* mpsc::Sender::try_send: the event is lost when the queue is full
TrySend(e) == queue' = IF QueueFull THEN queue ELSE Append(queue, e)

\* completed.store(true) and notify_waiters(): wakes every Notified future
\* that exists at this moment
Complete(a) ==
  /\ completed' = [completed EXCEPT ![a] = TRUE]
  /\ woken' = [w \in Waiters |->
       woken[w] \/ (awaited[w] = a /\ waiter[w] \in {"checking", "sleeping"})]
  /\ UNCHANGED <<waiter, awaited>>
-----------------------------------------------------------------------------
(* Request handlers: reserve, commit, drop *)

\* Mutant: the Busy check is dropped
ReserveAllowedUnguarded(s, r) ==
  ~closed /\ (r # None => restart = r /\ owner[r] = s)

ReserveAllowed(s, r) ==
  /\ ~closed
  /\ current = None
  /\ r # None => restart = r /\ owner[r] = s

\* RequestDispatcher::dispatch_lifecycle -> LifecycleHandle::reserve_connect.
\* The client has authenticated and owns the logout until the commit.
Reserve(s, k, r) ==
  /\ s \in sessions
  /\ next < MaxAttempts
  /\ ReserveAllowed(s, r)
  /\ restart' = None
  /\ next' = next + 1
  /\ current' = next
  /\ reservation' = [reservation EXCEPT ![next] = "held"]
  /\ kind' = [kind EXCEPT ![next] = k]
  /\ owner' = [owner EXCEPT ![next] = s]
  /\ ledger' = [ledger EXCEPT ![next] = "client"]
  /\ UNCHANGED <<closed, phase, stop, cancelled, completed, queue, vpnState,
                 sessions, approved, actorVars, shutdown, worker, outcome,
                 native, health, dirty, waitVars>>

\* Mutant: commit forgets the disconnect that arrived during preparation
CommitAllowedUnguarded(a) == ~closed /\ current = a

CommitAllowed(a) == ~closed /\ current = a /\ ~stop[a] /\ ~cancelled[a]

\* prepare_connection succeeded and ConnectReservation::commit queued Start:
\* the ledger moves to the service in the same critical section.
Commit(a) ==
  /\ reservation[a] = "held"
  /\ owner[a] \in sessions
  /\ CommitAllowed(a)
  /\ ~QueueFull
  /\ queue' = Append(queue, Ev("Start", a))
  /\ phase' = [phase EXCEPT ![a] = "Pending"]
  /\ reservation' = [reservation EXCEPT ![a] = "transferred"]
  /\ ledger' = [ledger EXCEPT ![a] = "service"]
  /\ UNCHANGED <<closed, next, current, restart, stop, cancelled, completed,
                 vpnState, kind, owner, sessions, approved, actorVars,
                 shutdown, worker, outcome, native, health, dirty, waitVars>>

\* Preparation failed, or commit was rejected (closed, superseded, cancelled,
\* queue full, session gone): the reservation is about to be dropped.
Abandon(a) ==
  /\ reservation[a] = "held"
  /\ reservation' = [reservation EXCEPT ![a] = "dropping"]
  /\ UNCHANGED <<admissionVars, cancelled, completed, queue, vpnState, kind,
                 owner, sessions, approved, actorVars, shutdown, workerVars,
                 waitVars>>

\* Drop for ConnectReservation: cancel, then clear_attempt takes the mutex ...
DropClear(a) ==
  /\ reservation[a] = "dropping"
  /\ cancelled' = [cancelled EXCEPT ![a] = TRUE]
  /\ IF current = a
       THEN /\ current' = None
            /\ reservation' = [reservation EXCEPT ![a] = "signalling"]
       ELSE /\ reservation' = [reservation EXCEPT ![a] = "waking"]
            /\ UNCHANGED current
  /\ UNCHANGED <<closed, next, restart, phase, stop, completed, queue, vpnState,
                 kind, owner, sessions, approved, actorVars, shutdown,
                 workerVars, waitVars>>

\* ... signals the completion after releasing it ...
DropSignal(a) ==
  /\ reservation[a] = "signalling"
  /\ Complete(a)
  /\ reservation' = [reservation EXCEPT ![a] = "waking"]
  /\ UNCHANGED <<admissionVars, cancelled, queue, vpnState, kind, owner,
                 sessions, approved, actorVars, shutdown, workerVars>>

\* Mutant: the actor is not woken
NoWakeActor(a) == UNCHANGED queue

WakeActor(a) == TrySend(Ev("PreparationReleased", a))

\* ... and wakes the actor; a full queue already does.
DropWake(a) ==
  /\ reservation[a] = "waking"
  /\ WakeActor(a)
  /\ reservation' = [reservation EXCEPT ![a] = "released"]
  /\ UNCHANGED <<admissionVars, cancelled, completed, vpnState, kind, owner,
                 sessions, approved, actorVars, shutdown, workerVars, waitVars>>
-----------------------------------------------------------------------------
(* Disconnect, drain and shutdown requests *)

AlreadyStopped(a) == stop[a]

\* Mutant: a disconnect leaves the restart authority granted
KeepRestart == UNCHANGED restart

ClearRestart == restart' = None

\* LifecycleHandle::request_disconnect, one critical section
RequestDisconnect ==
  /\ ClearRestart
  /\ \/ /\ current = None
        /\ vpnState' = "Disconnected"
        /\ UNCHANGED <<stop, phase, cancelled, queue>>
     \/ /\ current # None /\ AlreadyStopped(current)
        /\ UNCHANGED <<stop, phase, cancelled, queue, vpnState>>
     \/ /\ current # None /\ ~AlreadyStopped(current)
        /\ stop' = [stop EXCEPT ![current] = TRUE]
        /\ cancelled' = [cancelled EXCEPT ![current] = TRUE]
        /\ phase' = [phase EXCEPT ![current] = "Stopping"]
        /\ TrySend(Ev("Stop", current))
        /\ UNCHANGED vpnState
  /\ UNCHANGED <<closed, next, current>>

\* A client's Disconnect request
Disconnect ==
  /\ RequestDisconnect
  /\ UNCHANGED <<completed, clientVars, actorVars, shutdown, workerVars,
                 waitVars>>

\* disconnect_and_wait (SIGUSR1): stop the admitted attempt, then wait for it.
\* Unlike request_disconnect it leaves the restart authority alone.
WaitDisconnect(w) ==
  /\ waiter[w] = "idle"
  /\ current # None
  /\ awaited' = [awaited EXCEPT ![w] = current]
  /\ waiter' = [waiter EXCEPT ![w] = "arming"]
  /\ IF AlreadyStopped(current)
       THEN UNCHANGED <<stop, phase, cancelled, queue>>
       ELSE /\ TrySend(Ev("Stop", current))
            /\ stop' = [stop EXCEPT ![current] = TRUE]
            /\ cancelled' = [cancelled EXCEPT ![current] = TRUE]
            /\ phase' = [phase EXCEPT ![current] = "Stopping"]
  /\ UNCHANGED <<closed, next, current, restart, completed, vpnState, woken,
                 clientVars, actorVars, shutdown, workerVars>>

\* The registry gives up a non-tunnel attempt (its attachment was replaced,
\* lost or stopped): AttemptDrain::cancel, without stop_requested.
Drainable(a) == kind[a] = "nonTunnel" /\ reservation[a] # "none"

DrainCancel(a) ==
  /\ Drainable(a) /\ ~completed[a] /\ ~cancelled[a]
  /\ cancelled' = [cancelled EXCEPT ![a] = TRUE]
  /\ UNCHANGED <<admissionVars, completed, queue, vpnState, clientVars,
                 actorVars, shutdown, workerVars, waitVars>>

\* StopNonTunnelAttachment: cancel the drain and wait for it
WaitDrain(w, a) ==
  /\ waiter[w] = "idle"
  /\ Drainable(a) /\ ~completed[a] /\ owner[a] \in sessions
  /\ cancelled' = [cancelled EXCEPT ![a] = TRUE]
  /\ waiter' = [waiter EXCEPT ![w] = "arming"]
  /\ awaited' = [awaited EXCEPT ![w] = a]
  /\ UNCHANGED <<admissionVars, completed, queue, vpnState, clientVars,
                 actorVars, shutdown, workerVars, woken>>

\* The loop both waits share: the Notified future exists before the check
WaiterArm(w) ==
  /\ waiter[w] = "arming"
  /\ waiter' = [waiter EXCEPT ![w] = "checking"]
  /\ woken' = [woken EXCEPT ![w] = FALSE]
  /\ UNCHANGED <<admissionVars, cancelled, completed, queue, vpnState,
                 clientVars, actorVars, shutdown, workerVars, awaited>>

\* Mutant: completed is tested before the Notified future is created
WaiterCheckEarly(w) ==
  /\ waiter[w] = "checking"
  /\ waiter' = [waiter EXCEPT ![w] = "sleeping"]
  /\ woken' = [woken EXCEPT ![w] = FALSE]
  /\ UNCHANGED <<admissionVars, cancelled, completed, queue, vpnState,
                 clientVars, actorVars, shutdown, workerVars, awaited>>

WaiterCheck(w) ==
  /\ waiter[w] = "checking"
  /\ waiter' = [waiter EXCEPT ![w] =
       IF completed[awaited[w]] THEN "done" ELSE "sleeping"]
  /\ UNCHANGED <<admissionVars, cancelled, completed, queue, vpnState,
                 clientVars, actorVars, shutdown, workerVars, awaited, woken>>

WaiterWake(w) ==
  /\ waiter[w] = "sleeping" /\ woken[w]
  /\ waiter' = [waiter EXCEPT ![w] = "arming"]
  /\ UNCHANGED <<admissionVars, cancelled, completed, queue, vpnState,
                 clientVars, actorVars, shutdown, workerVars, awaited, woken>>

\* The service is asked to stop: the task's cancel_token
RequestShutdown ==
  /\ ~shutdown
  /\ shutdown' = TRUE
  /\ UNCHANGED <<admissionVars, cancelled, completed, queue, vpnState,
                 clientVars, actorVars, workerVars, waitVars>>

\* SessionRegistry::revoke: the session is forgotten and the non-tunnel
\* attempt recorded for it is cancelled.
RevokeSession(s) ==
  /\ s \in sessions
  /\ sessions' = sessions \ {s}
  /\ cancelled' = [a \in Attempt |->
       cancelled[a] \/ (Drainable(a) /\ owner[a] = s /\ ~completed[a])]
  /\ UNCHANGED <<admissionVars, completed, queue, vpnState, reservation, kind,
                 owner, approved, actorVars, shutdown, workerVars, waitVars>>

\* An administrator revokes the HIP script approval an attempt relies on
RevokeApproval(a) ==
  /\ reservation[a] = "transferred" /\ approved[a]
  /\ worker[a] # "done"
  /\ approved' = [approved EXCEPT ![a] = FALSE]
  /\ UNCHANGED <<admissionVars, cancelled, completed, queue, vpnState,
                 reservation, kind, owner, sessions, actorVars, shutdown,
                 workerVars, waitVars>>
-----------------------------------------------------------------------------
(* The VpnTask actor *)
FrameActor == UNCHANGED <<clientVars, shutdown>>

\* Mutant: shutdown does not wait for a reservation that is still preparing
ExitAllowedEarly == active = None

ExitAllowed == active = None /\ current = None

\* VpnTask::start while shutting down: leave, or commit to recv()
ShutdownCheck ==
  /\ actor = "loop" /\ closed
  /\ actor' = IF ExitAllowed THEN "stopped" ELSE "recv"
  /\ UNCHANGED <<admissionVars, cancelled, completed, queue, vpnState, subject,
                 active, failure, reconnect, tunnel, workerVars, waitVars>>
  /\ FrameActor

\* The cancelled branch of the select: close_admission, then stop_attempt
BeginShutdown ==
  /\ actor = "loop" /\ shutdown /\ ~closed
  /\ closed' = TRUE
  /\ IF current = None
       THEN UNCHANGED <<stop, phase, cancelled>>
       ELSE /\ stop' = [stop EXCEPT ![current] = TRUE]
            /\ phase' = [phase EXCEPT ![current] = "Stopping"]
            /\ cancelled' = [cancelled EXCEPT ![current] = TRUE]
  /\ vpnState' = IF active # None /\ active = current
                   THEN "Disconnecting" ELSE vpnState
  /\ UNCHANGED <<next, current, restart, completed, queue, actorVars,
                 workerVars, waitVars>>
  /\ FrameActor

\* LifecycleHandle::activate_attempt
ActivateAllowed(a) ==
  /\ current = a /\ ~stop[a] /\ ~cancelled[a]
  /\ phase[a] = "Pending"

\* recv() returned an event the actor handles in one step
Receive ==
  /\ \/ actor = "loop" /\ ~closed
     \/ actor = "recv"
  /\ queue # <<>>
  /\ queue' = Tail(queue)

Mine(a) == active = a

\* Mutant: a queued attempt that may not start is forgotten, with its ledger
HandleStartIfActive(a) ==
  /\ tunnel' = [attempt |-> a, monitor |-> FALSE]
  /\ UNCHANGED <<cancelled, vpnState, failure, reconnect>>
  /\ IF ActivateAllowed(a)
       THEN /\ phase' = [phase EXCEPT ![a] = "Active"]
            /\ active' = a
            /\ worker' = [worker EXCEPT ![a] = "spawned"]
            /\ actor' = "connecting" /\ subject' = a
       ELSE actor' = "loop" /\ UNCHANGED <<active, worker, phase, subject>>

\* start_attempt: the runtime is spawned even when the attempt may not start,
\* so that its ledger is drained.
HandleStart(a) ==
  /\ tunnel' = [attempt |-> a, monitor |-> FALSE]
  /\ active' = a
  /\ worker' = [worker EXCEPT ![a] = "spawned"]
  /\ IF ActivateAllowed(a)
       THEN /\ phase' = [phase EXCEPT ![a] = "Active"]
            /\ actor' = "connecting" /\ subject' = a
            /\ UNCHANGED cancelled
       ELSE /\ cancelled' = [cancelled EXCEPT ![a] = TRUE]
            /\ actor' = "loop"
            /\ UNCHANGED <<phase, subject>>
  /\ UNCHANGED <<vpnState, failure, reconnect>>

\* stop_attempt, with is_stop_requested read under the mutex
HandleStop(a) ==
  /\ actor' = "loop"
  /\ IF Mine(a) /\ current = a /\ stop[a]
       THEN /\ vpnState' = "Disconnecting"
            /\ cancelled' = [cancelled EXCEPT ![a] = TRUE]
       ELSE UNCHANGED <<vpnState, cancelled>>
  /\ UNCHANGED <<phase, subject, active, failure, reconnect, tunnel, worker>>

\* Established, MembersChanged and ScriptTunSuspended test the token first and
\* publish in a later step
HandlePublish(a, to) ==
  /\ IF Mine(a) /\ ~cancelled[a]
       THEN actor' = to /\ subject' = a
       ELSE actor' = "loop" /\ UNCHANGED subject
  /\ UNCHANGED <<phase, cancelled, vpnState, active, failure, reconnect,
                 tunnel, worker>>

\* TunnelMonitor, Failed, ReconnectRequired and PreparationReleased
HandleRecord(e) ==
  /\ actor' = "loop"
  /\ tunnel' = IF e.type = "TunnelMonitor" /\ Mine(e.attempt)
                 THEN [attempt |-> e.attempt, monitor |-> TRUE] ELSE tunnel
  /\ failure' = [failure EXCEPT ![e.attempt] =
       @ \/ (e.type = "Failed" /\ Mine(e.attempt))]
  /\ reconnect' = [reconnect EXCEPT ![e.attempt] =
       @ \/ (e.type = "ReconnectRequired" /\ Mine(e.attempt))]
  /\ UNCHANGED <<phase, cancelled, vpnState, subject, active, worker>>

\* end_attempt takes the active attempt and joins its task
HandleEnded(a) ==
  /\ IF Mine(a)
       THEN actor' = "joining" /\ subject' = a /\ active' = None
       ELSE actor' = "loop" /\ UNCHANGED <<subject, active>>
  /\ UNCHANGED <<phase, cancelled, vpnState, failure, reconnect, tunnel, worker>>

HandleEvent ==
  LET e == Head(queue) IN
  /\ Receive
  /\ \/ e.type = "Start" /\ HandleStart(e.attempt)
     \/ e.type = "Stop" /\ HandleStop(e.attempt)
     \/ e.type = "Established" /\ HandlePublish(e.attempt, "connected")
     \/ e.type = "MembersHealthy" /\ HandlePublish(e.attempt, "healthy")
     \/ e.type = "MembersUnhealthy" /\ HandlePublish(e.attempt, "unhealthy")
     \/ e.type = "ScriptTunSuspended" /\ HandlePublish(e.attempt, "suspended")
     \/ e.type = "Ended" /\ HandleEnded(e.attempt)
     \/ /\ e.type \in {"TunnelMonitor", "Failed", "ReconnectRequired",
                       "PreparationReleased"}
        /\ HandleRecord(e)
  /\ UNCHANGED <<closed, next, current, restart, stop, completed, outcome,
                 native, health, dirty, ledger, waitVars>>
  /\ FrameActor

\* Mutant: a queued Established is published without the mutex-held recheck
PublishConnectedUnguarded(a) == active = a

PublishConnected(a) == current = a /\ phase[a] = "Active" /\ ~stop[a]

PublishMembers(a) == current = a /\ ~stop[a]

\* The publishing half of start_attempt, publish_connected, publish_members
\* and ScriptTunSuspended
Publish ==
  /\ actor \in Publishing
  /\ actor' = "loop" /\ subject' = None
  /\ vpnState' =
       CASE actor = "connecting" -> "Connecting"
         [] actor = "suspended"  -> "Connecting"
         [] actor = "unhealthy"  -> IF vpnState = "Connected"
                                      THEN "Connecting" ELSE vpnState
         [] actor = "connected"  -> IF PublishConnected(subject)
                                      THEN "Connected" ELSE vpnState
         [] actor = "healthy"    -> IF PublishMembers(subject)
                                      THEN "Connected" ELSE vpnState
  /\ UNCHANGED <<admissionVars, cancelled, completed, queue, active, failure,
                 reconnect, tunnel, workerVars, waitVars>>
  /\ FrameActor

\* end_attempt after the join: reset the binding, choose the way to finish and
\* give up the ActiveAttempt
EndJoin ==
  /\ actor = "joining" /\ worker[subject] = "done"
  /\ tunnel' = IF tunnel.monitor THEN tunnel
               ELSE [attempt |-> subject, monitor |-> FALSE]
  /\ actor' = CASE reconnect[subject] /\ ~cancelled[subject]
                     /\ owner[subject] \in sessions -> "endReconnect"
                [] OTHER -> IF failure[subject] THEN "endFailed"
                                                ELSE "endFinished"
  /\ failure' = [failure EXCEPT ![subject] = FALSE]
  /\ reconnect' = [reconnect EXCEPT ![subject] = FALSE]
  /\ UNCHANGED <<admissionVars, cancelled, completed, queue, vpnState, subject,
                 active, workerVars, waitVars>>
  /\ FrameActor

\* Mutant: a disconnect accepted before the mutex is taken is not noticed
GrantRestartUnguarded(a) == TRUE

GrantRestart(a) == ~cancelled[a] /\ ~stop[a]

\* end_attempt, ReconnectRequired branch: one critical section releases the
\* admission, grants the restart, publishes it and completes the attempt
EndReconnect ==
  /\ actor = "endReconnect"
  /\ current' = None
  /\ IF GrantRestart(subject)
       THEN restart' = subject /\ vpnState' = "ReconnectRequired"
       ELSE vpnState' = "Disconnected" /\ UNCHANGED restart
  /\ Complete(subject)
  /\ actor' = "loop" /\ subject' = None
  /\ UNCHANGED <<closed, next, phase, stop, cancelled, queue, active, failure,
                 reconnect, tunnel, workerVars>>
  /\ FrameActor

\* Mutant: the final state is not published
EndPublishSilent ==
  /\ actor \in {"endFailed", "endFinished"}
  /\ actor' = "clearing"
  /\ UNCHANGED <<admissionVars, cancelled, completed, queue, vpnState, subject,
                 active, failure, reconnect, tunnel, workerVars, waitVars>>
  /\ FrameActor

\* send_state(Failed | Disconnected), before clear_attempt
EndPublish ==
  /\ actor \in {"endFailed", "endFinished"}
  /\ vpnState' = IF actor = "endFailed" THEN "Failed" ELSE "Disconnected"
  /\ actor' = "clearing"
  /\ UNCHANGED <<admissionVars, cancelled, completed, queue, subject, active,
                 failure, reconnect, tunnel, workerVars, waitVars>>
  /\ FrameActor

\* clear_attempt takes the mutex, then signals the completion outside it
EndClear ==
  /\ actor = "clearing"
  /\ IF current = subject
       THEN current' = None /\ actor' = "signalling" /\ UNCHANGED subject
       ELSE actor' = "loop" /\ subject' = None /\ UNCHANGED current
  /\ UNCHANGED <<closed, next, restart, phase, stop, cancelled, completed,
                 queue, vpnState, active, failure, reconnect, tunnel,
                 workerVars, waitVars>>
  /\ FrameActor

EndSignal ==
  /\ actor = "signalling"
  /\ Complete(subject)
  /\ actor' = "loop" /\ subject' = None
  /\ UNCHANGED <<admissionVars, cancelled, queue, vpnState, active, failure,
                 reconnect, tunnel, workerVars>>
  /\ FrameActor

ActorStep ==
  \/ ShutdownCheck \/ BeginShutdown \/ HandleEvent \/ Publish
  \/ EndJoin \/ EndReconnect \/ EndPublish \/ EndClear \/ EndSignal
-----------------------------------------------------------------------------
(* The runtime worker of an accepted attempt: runtime::spawn *)
FrameWorker == UNCHANGED <<clientVars, actorVars, shutdown, completed, waitVars>>
Step(a, from, to) ==
  /\ worker[a] = from
  /\ worker' = [worker EXCEPT ![a] = to]
Fail(a, o) == outcome' = [outcome EXCEPT ![a] = o]

\* Nothing is executed for an attempt that was cancelled while queued
WorkerStart(a) ==
  /\ Step(a, "spawned", IF cancelled[a] THEN "logout" ELSE "setup")
  /\ UNCHANGED <<admissionVars, cancelled, queue, vpnState, outcome, native,
                 health, dirty, ledger>>
  /\ FrameWorker

\* prepare_execution and, for a tunnel, prepare_tunnel: fail when cancelled
\* or for their own reasons
WorkerSetup(a) ==
  /\ \/ /\ ~cancelled[a]
        /\ IF kind[a] = "nonTunnel"
             THEN Step(a, "setup", "ntLoop") /\ dirty' = [dirty EXCEPT ![a] = TRUE]
             ELSE Step(a, "setup", "tunnelOpen") /\ UNCHANGED dirty
        /\ UNCHANGED outcome
     \/ Step(a, "setup", "logout") /\ Fail(a, "failed") /\ UNCHANGED dirty
  /\ UNCHANGED <<admissionVars, cancelled, queue, vpnState, native, health,
                 ledger>>
  /\ FrameWorker

\* Every await on events.send(...): blocks while the queue is full
SendType(a) ==
  CASE worker[a] \in {"ntSend", "ntFinalSend"} ->
         IF health[a] THEN "MembersHealthy" ELSE "MembersUnhealthy"
    [] worker[a] \in {"revokedSend", "failedSend"} -> "Failed"
    [] worker[a] = "monitorSend"     -> "TunnelMonitor"
    [] worker[a] = "establishedSend" -> "Established"
    [] worker[a] = "suspendedSend"   -> "ScriptTunSuspended"
    [] worker[a] = "reconnectSend"   -> "ReconnectRequired"
    [] worker[a] = "endedSend"       -> "Ended"

AfterSend(a) ==
  CASE worker[a] = "ntSend"      -> "ntLoop"
    [] worker[a] = "ntFinalSend" -> "ntRevoked"
    [] worker[a] \in {"revokedSend", "reconnectSend"} -> "logout"
    [] worker[a] \in {"monitorSend", "establishedSend", "suspendedSend"} ->
         "tunnelRun"
    [] worker[a] = "failedSend"  -> "endedSend"
    [] worker[a] = "endedSend"   -> "done"

\* Once the monitor is announced the ledger is relinquished to the native
\* tunnel, which is started. The task's locals die with it.
WorkerSend(a) ==
  /\ worker[a] \in Sending
  /\ ~QueueFull
  /\ queue' = Append(queue, Ev(SendType(a), a))
  /\ worker' = [worker EXCEPT ![a] = AfterSend(a)]
  /\ dirty' = [dirty EXCEPT ![a] = @ /\ worker[a] \notin {"ntSend", "endedSend"}]
  /\ health' = [health EXCEPT ![a] = @ /\ worker[a] # "endedSend"]
  /\ outcome' = [outcome EXCEPT ![a] = IF worker[a] = "endedSend" THEN "ok" ELSE @]
  /\ IF worker[a] = "monitorSend"
       THEN /\ ledger' = [ledger EXCEPT ![a] = "native"]
            /\ native' = [native EXCEPT ![a] = "connecting"]
       ELSE UNCHANGED <<ledger, native>>
  /\ UNCHANGED <<admissionVars, cancelled, vpnState>>
  /\ FrameWorker

\* stop_for_revoked_approval: request_disconnect, then cancel
StopForRevokedApproval(a) ==
  /\ ClearRestart
  /\ IF current = None \/ AlreadyStopped(current)
       THEN UNCHANGED <<stop, phase, queue>>
       ELSE /\ stop' = [stop EXCEPT ![current] = TRUE]
            /\ phase' = [phase EXCEPT ![current] = "Stopping"]
            /\ TrySend(Ev("Stop", current))
  /\ cancelled' = [b \in Attempt |-> cancelled[b] \/ b = a \/ b = current]
  /\ vpnState' = IF current = None THEN "Disconnected" ELSE vpnState
  /\ UNCHANGED <<closed, next, current>>

(* Non-tunnel sessions: non_tunnel::run *)

\* Maintenance reports a member's state; the watch keeps the latest snapshot
NtHealthChange(a) ==
  /\ worker[a] \in {"ntLoop", "ntSend"}
  /\ health' = [health EXCEPT ![a] = ~@]
  /\ dirty' = [dirty EXCEPT ![a] = TRUE]
  /\ UNCHANGED <<admissionVars, cancelled, queue, vpnState, worker, outcome,
                 native, ledger>>
  /\ FrameWorker

NtPublish(a) ==
  /\ dirty[a] /\ ~cancelled[a]
  /\ Step(a, "ntLoop", "ntSend")
  /\ UNCHANGED <<admissionVars, cancelled, queue, vpnState, outcome, native,
                 health, dirty, ledger>>
  /\ FrameWorker

NtApprovalPoll(a) ==
  /\ worker[a] = "ntLoop" /\ ~approved[a] /\ outcome[a] # "revoked"
  /\ Fail(a, "revoked")
  /\ StopForRevokedApproval(a)
  /\ UNCHANGED <<worker, native, health, dirty, ledger>>
  /\ FrameWorker

\* maintain_non_tunnel_sessions returns: cancelled, or the network changed,
\* the cookie expired or every member failed. It may have invalidated every
\* member in the same poll.
NtMaintenanceEnds(a) ==
  /\ Step(a, "ntLoop", "ntFinal")
  /\ IF cancelled[a] THEN UNCHANGED outcome ELSE Fail(a, "failed")
  /\ \E h \in {health[a], FALSE} : health' = [health EXCEPT ![a] = h]
  /\ UNCHANGED <<admissionVars, cancelled, queue, vpnState, native, dirty,
                 ledger>>
  /\ FrameWorker

NtFinal(a) ==
  /\ \/ Step(a, "ntFinal", IF cancelled[a] THEN "ntRevoked" ELSE "ntFinalSend")
     \/ Step(a, "ntRevoked",
             IF outcome[a] = "revoked" THEN "revokedSend" ELSE "logout")
  /\ UNCHANGED <<admissionVars, cancelled, queue, vpnState, outcome, native,
                 health, dirty, ledger>>
  /\ FrameWorker

(* Tunnels: run_tunnel, and script_tun::run seen from the lifecycle *)

\* run_tunnel returns early when cancelled; script_tun::run does not test
TunnelOpen(a) ==
  /\ Step(a, "tunnelOpen",
          IF kind[a] = "tunnel" /\ cancelled[a] THEN "logout" ELSE "monitorSend")
  /\ UNCHANGED <<admissionVars, cancelled, queue, vpnState, outcome, native,
                 health, dirty, ledger>>
  /\ FrameWorker

\* vpn.connect reports the tunnel; blocking_send for a system tunnel
NativeEstablished(a) ==
  /\ native[a] = "connecting"
  /\ native' = [native EXCEPT ![a] = "up"]
  /\ IF kind[a] = "tunnel"
       THEN ~QueueFull /\ queue' = Append(queue, Ev("Established", a))
       ELSE UNCHANGED queue
  /\ UNCHANGED <<admissionVars, cancelled, vpnState, worker, outcome, health,
                 dirty, ledger>>
  /\ FrameWorker

\* vpn.connect returns, by itself or because vpn.disconnect was called
NativeEnds(a) ==
  /\ native[a] \in {"connecting", "up"}
  /\ native' = [native EXCEPT ![a] = "ended"]
  /\ UNCHANGED <<admissionVars, cancelled, queue, vpnState, worker, outcome,
                 health, dirty, ledger>>
  /\ FrameWorker

\* The cancelled branch: vpn.disconnect, then join the native thread
TunnelCancelled(a) ==
  /\ cancelled[a]
  /\ Step(a, "tunnelRun", "tunnelJoin")
  /\ UNCHANGED <<admissionVars, cancelled, queue, vpnState, outcome, native,
                 health, dirty, ledger>>
  /\ FrameWorker

\* The native thread ended first; script-tun treats that as an error
TunnelEnded(a) ==
  /\ native[a] = "ended"
  /\ Step(a, "tunnelRun", "tunnelJoin")
  /\ IF kind[a] = "scriptTun" THEN Fail(a, "failed") ELSE UNCHANGED outcome
  /\ UNCHANGED <<admissionVars, cancelled, queue, vpnState, native, health,
                 dirty, ledger>>
  /\ FrameWorker

\* The periodic poll; script-tun also ends with the session that started it
TunnelApprovalPoll(a) ==
  /\ worker[a] = "tunnelRun"
  /\ \/ ~approved[a]
     \/ kind[a] = "scriptTun" /\ owner[a] \notin sessions
  /\ StopForRevokedApproval(a)
  /\ worker' = [worker EXCEPT ![a] = "tunnelJoin"]
  /\ UNCHANGED <<outcome, native, health, dirty, ledger>>
  /\ FrameWorker

\* The script-tun supervisor reports the consumer (module ScriptTun)
ScriptReport(a) ==
  /\ kind[a] = "scriptTun" /\ native[a] = "up" /\ ~cancelled[a]
  /\ \E to \in {"establishedSend", "suspendedSend"} : Step(a, "tunnelRun", to)
  /\ UNCHANGED <<admissionVars, cancelled, queue, vpnState, outcome, native,
                 health, dirty, ledger>>
  /\ FrameWorker

\* The supervisor fails, or sees a different network configuration
ScriptFails(a) ==
  /\ kind[a] = "scriptTun" /\ ~cancelled[a]
  /\ Step(a, "tunnelRun", "tunnelJoin")
  /\ \E o \in {"failed", "networkChanged"} : Fail(a, o)
  /\ UNCHANGED <<admissionVars, cancelled, queue, vpnState, native, health,
                 dirty, ledger>>
  /\ FrameWorker

\* The native observer overflowed its channel: the token is cancelled without
\* a stop request
ScriptOverflow(a) ==
  /\ kind[a] = "scriptTun" /\ ~cancelled[a]
  /\ native[a] \in {"connecting", "up"}
  /\ cancelled' = [cancelled EXCEPT ![a] = TRUE]
  /\ UNCHANGED <<admissionVars, queue, vpnState, workerVars>>
  /\ FrameWorker

\* Mutant: the native thread is told to stop but not joined
NativeJoinedAlways(a) == TRUE

NativeJoined(a) == native[a] = "ended"

\* The native thread is joined and the monitor stopped
TunnelJoin(a) ==
  /\ NativeJoined(a)
  /\ Step(a, "tunnelJoin", IF outcome[a] = "networkChanged" /\ ~cancelled[a]
                             THEN "reconnectSend" ELSE "logout")
  /\ UNCHANGED <<admissionVars, cancelled, queue, vpnState, outcome, native,
                 health, dirty, ledger>>
  /\ FrameWorker

(* Common end of every worker *)

\* Mutant: a cancelled worker returns without logging its sessions out
LogoutUnlessCancelled(a) ==
  IF ledger[a] = "service" /\ ~cancelled[a] THEN "loggedOut" ELSE ledger[a]

\* sessions.logout(): whatever the service still owns
Logout(a) == IF ledger[a] = "service" THEN "loggedOut" ELSE ledger[a]

WorkerLogout(a) ==
  /\ Step(a, "logout", "report")
  /\ ledger' = [ledger EXCEPT ![a] = Logout(a)]
  /\ UNCHANGED <<admissionVars, cancelled, queue, vpnState, outcome, native,
                 health, dirty>>
  /\ FrameWorker

\* Mutant: a cancelled worker does not report its end
FinalSendUnlessCancelled(a) ==
  CASE cancelled[a] -> "done"
    [] outcome[a] = "failed" -> "failedSend"
    [] OTHER -> "endedSend"

FinalSend(a) ==
  IF outcome[a] = "failed" /\ ~cancelled[a] THEN "failedSend" ELSE "endedSend"

WorkerReport(a) ==
  /\ Step(a, "report", FinalSend(a))
  /\ UNCHANGED <<admissionVars, cancelled, queue, vpnState, outcome, native,
                 health, dirty, ledger>>
  /\ FrameWorker

\* Steps the worker takes by itself, as opposed to what its peers decide
WorkerProgress(a) ==
  \/ WorkerStart(a) \/ WorkerSetup(a) \/ WorkerSend(a) \/ NtFinal(a)
  \/ TunnelOpen(a) \/ TunnelCancelled(a) \/ TunnelEnded(a) \/ TunnelJoin(a)
  \/ WorkerLogout(a) \/ WorkerReport(a)

WorkerEnvironment(a) ==
  \/ NtHealthChange(a) \/ NtPublish(a) \/ NtApprovalPoll(a)
  \/ NtMaintenanceEnds(a) \/ NativeEstablished(a) \/ NativeEnds(a)
  \/ TunnelApprovalPoll(a) \/ ScriptReport(a) \/ ScriptFails(a)
  \/ ScriptOverflow(a)
-----------------------------------------------------------------------------
Handler(a) ==
  Commit(a) \/ Abandon(a) \/ DropClear(a) \/ DropSignal(a) \/ DropWake(a)

WaiterStep(w) == WaiterArm(w) \/ WaiterCheck(w) \/ WaiterWake(w)

ClientStep ==
  \/ \E s \in Sessions, k \in Kinds, r \in Attempt \cup {None} : Reserve(s, k, r)
  \/ Disconnect
  \/ RequestShutdown
  \/ \E w \in Waiters : WaitDisconnect(w)
  \/ \E w \in Waiters, a \in Attempt : WaitDrain(w, a)
  \/ \E a \in Attempt : DrainCancel(a) \/ RevokeApproval(a)
  \/ \E s \in Sessions : RevokeSession(s)

Next ==
  \/ ClientStep
  \/ ActorStep
  \/ \E a \in Attempt : Handler(a) \/ WorkerProgress(a) \/ WorkerEnvironment(a)
  \/ \E w \in Waiters : WaiterStep(w)

Spec == Init /\ [][Next]_vars

\* tokio runs every ready task; the select of VpnTask::start is unbiased, so a
\* cancelled token is not starved by events; preparation has a 60 s budget; a
\* cancelled maintenance and a disconnected native tunnel return.
Fairness ==
  /\ WF_vars(ActorStep) /\ SF_vars(BeginShutdown)
  /\ \A a \in Attempt :
       /\ WF_vars(Handler(a))
       /\ WF_vars(WorkerProgress(a))
       /\ WF_vars(cancelled[a] /\ NtMaintenanceEnds(a))
       /\ WF_vars(worker[a] = "tunnelJoin" /\ NativeEnds(a))
  /\ \A w \in Waiters : WF_vars(WaiterStep(w))

FairSpec == Spec /\ Fairness
-----------------------------------------------------------------------------
(* Properties *)
Queued(e) == \E i \in DOMAIN queue : queue[i] = e
QueuedOnce(e) == \A i, j \in DOMAIN queue : queue[i] = e /\ queue[j] = e => i = j
StartQueued(a) == Queued(Ev("Start", a))
WorkerLive(a) == worker[a] \notin {"none", "done"}
NativeLive(a) == native[a] \in {"connecting", "up"}

\* An attempt someone still works for: its request handler, the queue, its
\* runtime or its native tunnel thread
InFlight(a) ==
  \/ reservation[a] \in {"held", "dropping"}
  \/ StartQueued(a)
  \/ WorkerLive(a)
  \/ NativeLive(a)

\* One connection at a time: whatever is still being prepared, queued, executed
\* or torn down holds the single admission of Admissions.current, so a second
\* reserve_connect is refused until all of it is gone.
AdmissionHeld == \A a \in Attempt : InFlight(a) => current = a

\* What disconnect_and_wait and AttemptDrain::wait promise their caller: a
\* completed attempt has released the admission, its runtime and native tunnel
\* are over and the service owes no logout for it.
CompletionMeansDrained ==
  \A a \in Attempt : completed[a] =>
    current # a /\ ~InFlight(a) /\ ledger[a] # "service"

\* A ledger transferred by commit always has somebody left who logs it out: the
\* queued Start while the actor still runs, or the live runtime. Shutdown
\* included, no accepted gateway session is orphaned.
ServiceLedgerHasOwner ==
  \A a \in Attempt : ledger[a] = "service" =>
    WorkerLive(a) \/ (StartQueued(a) /\ actor # "stopped")

\* An accepted stop is never undone: neither a late commit nor the activation
\* of a queued Start overwrites the Stopping phase or escapes the token.
StopIsSticky ==
  \A a \in Attempt : stop[a] => phase[a] = "Stopping" /\ cancelled[a]

\* Without an admission the published state is a final one: no client is left
\* with Connecting, Connected or Disconnecting when nothing is in progress.
IdleStateIsFinal ==
  current = None => vpnState \in {"Disconnected", "Failed", "ReconnectRequired"}

\* The single-use restart authority exists only while ReconnectRequired is what
\* clients see and no other attempt was admitted: a disconnect or a new
\* connection withdraws it.
RestartMatchesState ==
  restart # None => current = None /\ vpnState = "ReconnectRequired"

\* A connection the user stopped never authorises a reconnection: whatever the
\* order of the network change and the disconnect, the attempt named by the
\* restart authority was not stopped, although end_attempt tests the token
\* once before it takes the mutex.
RestartNotStopped == restart # None => ~stop[restart] /\ ~cancelled[restart]

\* Repeated disconnects coalesce: at most one Stop of an attempt is queued
OneStopQueued == \A a \in Attempt : QueuedOnce(Ev("Stop", a))

\* Connected is never published for an attempt that accepted a stop, whatever
\* Established or MembersChanged events were queued before it.
NoConnectedAfterStop ==
  [][vpnState' = "Connected" /\ vpnState # "Connected" =>
       current # None /\ ~stop[current]]_vars

Ownership == INSTANCE VpnOwnership
  WITH slot <- current, done <- completed,
       running <- {a \in Attempt : NativeLive(a)}

\* The lifecycle implements its abstract specification: one slot, released
\* only when no logout is owed and no tunnel runs, completion told after that.
ImplementsOwnership == Ownership!Spec

\* disconnect_and_wait and AttemptDrain::wait return (no lost wake-up)
WaitersReturn ==
  \A w \in Waiters : (waiter[w] = "arming") ~> (waiter[w] = "done")

\* The service stops once asked to, even while a handler is still preparing
ShutdownCompletes == shutdown ~> (actor = "stopped")

\* A stop that was accepted ends in the release of the admission, even when the
\* queue was too full to carry the Stop event.
StoppedAttemptReleased ==
  \A a \in Attempt : (current = a /\ stop[a]) ~> (current # a)

\* Cancelling an accepted attempt (stop, drain, shutdown, revoked session) ends
\* in the logout of its sessions, also for a Start still in the queue
CancelledLedgerSettles ==
  \A a \in Attempt :
    (cancelled[a] /\ ledger[a] = "service") ~> (ledger[a] # "service")

\* non_tunnel.rs:185 "Deliberate disconnect wins throughout cleanup": once a
\* stop was accepted for maintained non-tunnel sessions, nothing that happens
\* during the cleanup records a failure for the attempt.
DisconnectWinsCleanup ==
  \A a \in Attempt :
    []((worker[a] = "ntLoop" /\ stop[a] /\ outcome[a] = "ok") => []~failure[a])
-----------------------------------------------------------------------------
(* The inductive invariant behind the safety properties, by subject. *)

\* How far the reservation of an attempt got, and what that implies
ReservationInv ==
  \A a \in Attempt :
    /\ reservation[a] = "none" <=> a >= next
    /\ reservation[a] # "transferred" => worker[a] = "none" /\ native[a] = "idle"
    /\ reservation[a] = "none" => ledger[a] = "none" /\ ~completed[a] /\ ~stop[a]
    /\ reservation[a] \in {"held", "dropping"} => current = a /\ ~completed[a]
    /\ reservation[a] \in {"signalling", "waking", "released"} => current # a
    /\ reservation[a] \in {"held", "dropping", "signalling", "waking", "released"}
         => ledger[a] = "client"
    /\ reservation[a] = "signalling" => ~completed[a]

AdmissionInv ==
  /\ current # None => reservation[current] # "none"
  /\ active # None => current = active /\ worker[active] # "none"
  /\ \A a \in Attempt :
       /\ reservation[a] = "transferred" /\ worker[a] = "none" =>
            current = a /\ StartQueued(a) /\ ledger[a] = "service" /\ native[a] = "idle"
       /\ WorkerLive(a) => active = a
       /\ completed[a] => current # a

QueueInv ==
  \A a \in Attempt :
    /\ StartQueued(a) => reservation[a] = "transferred" /\ worker[a] = "none"
    /\ QueuedOnce(Ev("Start", a))
    /\ Queued(Ev("Ended", a)) => worker[a] = "done"
    /\ Queued(Ev("Stop", a)) => stop[a]
    /\ QueuedOnce(Ev("Stop", a))

\* Where the worker is determines who owes the logout and whether the native
\* thread may run
BeforeNative == {"spawned", "setup", "ntLoop", "ntSend", "ntFinal", "ntFinalSend",
                 "ntRevoked", "revokedSend", "tunnelOpen", "monitorSend"}
WithNative == {"tunnelRun", "establishedSend", "suspendedSend", "tunnelJoin"}

WorkerInv ==
  \A a \in Attempt :
    /\ worker[a] \in BeforeNative => ledger[a] = "service" /\ native[a] = "idle"
    /\ worker[a] \in WithNative => ledger[a] = "native" /\ native[a] # "idle"
    /\ worker[a] = "reconnectSend" => ledger[a] = "native"
    /\ worker[a] = "logout" => ledger[a] \in {"service", "native"}
    /\ worker[a] \in {"report", "failedSend", "endedSend", "done"} =>
         ledger[a] \in {"native", "loggedOut"}
    /\ NativeLive(a) => worker[a] \in WithNative

ActorInv ==
  /\ actor \in Publishing => subject # None /\ active = subject
  /\ actor \in Ending => subject # None /\ worker[subject] = "done" /\ active = None
  /\ actor \in Ending \ {"signalling"} => current = subject
  /\ actor = "signalling" => current # subject /\ ~completed[subject]
  /\ actor = "stopped" => closed /\ current = None /\ active = None
  /\ actor = "recv" => closed

FinalState == {"Disconnected", "Failed", "ReconnectRequired"}

StateInv ==
  /\ current # None /\ reservation[current] \in {"held", "dropping"} =>
       vpnState \in FinalState
  /\ actor = "clearing" => vpnState \in FinalState
  /\ IdleStateIsFinal
  /\ RestartMatchesState
  /\ StopIsSticky

\* The lifecycle invariant: reservation, admission, queue, worker, actor and
\* published state always agree on which attempt is where.
LifecycleInv ==
  /\ ReservationInv
  /\ AdmissionInv
  /\ QueueInv
  /\ WorkerInv
  /\ ActorInv
  /\ StateInv
=============================================================================
