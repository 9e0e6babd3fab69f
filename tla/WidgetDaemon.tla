---------------------------- MODULE WidgetDaemon ----------------------------
(***************************************************************************)
(* The gpwidget daemon (apps/gpwidget/src/daemon/mod.rs and state.rs): one *)
(* select loop that owns the Daemon record d, the connect flows it spawns, *)
(* the detached tasks that carry its requests to the WebSocket channel,    *)
(* its timers, and gpservice as the daemon sees it.                        *)
(*                                                                         *)
(* Every handler runs without interruption, so a handler is one action     *)
(* that maps the record d to a new one.  A connect flow is seen from the   *)
(* outside: it authenticates, may ask for a one-time password, and either  *)
(* fails or puts its Connect on the channel and then reports Submitted.    *)
(***************************************************************************)
EXTENDS Integers, Sequences, FiniteSets

CONSTANTS MaxFlows,     \* connect flows a behaviour may start
          MaxAttempts,  \* connection attempts gpservice may start
          MaxDrops,     \* times the WebSocket link may be lost
          MaxNotices,   \* notices that may wait in the channel
          MaxRequests,  \* requests that may wait in the channel
          AutoConnect,  \* config.auto_connect
          AutoResume,   \* config.auto_resume
          None

Flows == 1..MaxFlows

ASSUME BoundsAssumption ==
  /\ MaxFlows \in Nat /\ MaxAttempts \in Nat /\ MaxDrops \in Nat /\ MaxNotices \in Nat \ {0} /\ MaxRequests \in Nat \ {0}
  /\ AutoConnect \in BOOLEAN /\ AutoResume \in BOOLEAN /\ None \notin Flows

VARIABLES d,         \* struct Daemon with its Model
          flows,     \* the state of each connect flow
          flowMsgs,  \* flow_rx
          timers,    \* timers that have not fired yet
          spawned,   \* detached tasks that hold a request for the channel
          requests,  \* the WebSocket request channel
          notices,   \* ws.notices
          svc,       \* the VPN state of gpservice and the login it runs on
          link,      \* whether the WebSocket is attached
          drops,     \* links lost so far
          exited     \* the loop has returned

channels == <<flowMsgs, timers, spawned, requests, notices>>
service == <<svc, link, drops>>
vars == <<d, flows, channels, service, exited>>

VpnStates == {"Disconnected", "Connecting", "Connected", "ReconnectRequired", "Disconnecting"}
Idle == {"Disconnected", "Failed"}
Notice == [kind : {"env", "state"}, vpn : VpnStates \cup {"Failed"}, attempt : 0..MaxAttempts]
          \cup [kind : {"resume", "rejected"}]
Request == [kind : {"connect", "restart", "disconnect"}, flow : Flows \cup {None}, of : 0..MaxAttempts]

ConnectFrom(f) == [kind |-> "connect", flow |-> f, of |-> 0]
RestartOf(f, n) == [kind |-> "restart", flow |-> f, of |-> n]
DisconnectRequest == [kind |-> "disconnect", flow |-> None, of |-> 0]

\* requests.send(..).await: the sender waits while the channel is full.
SendRequest(q) == Len(requests) < MaxRequests /\ requests' = Append(requests, q)

NewDaemon ==
  [env |-> FALSE, vpn |-> "Disconnected", authenticating |-> FALSE, error |-> FALSE,
   connectCancel |-> None, pendingOtp |-> None, resumeGateway |-> FALSE, submitted |-> None,
   disconnectRequested |-> FALSE, quitting |-> FALSE, watchdog |-> 0]

Daemon ==
  [env : BOOLEAN, vpn : VpnStates, authenticating : BOOLEAN, error : BOOLEAN,
   connectCancel : Flows \cup {None}, pendingOtp : Flows \cup {None},
   resumeGateway : BOOLEAN, submitted : Flows \cup {None},
   disconnectRequested : BOOLEAN, quitting : BOOLEAN, watchdog : Nat]
Flow == [st : {"new", "auth", "otp", "sending", "sent", "done"}, cancelled : BOOLEAN]
FlowMsg == [kind : {"otp", "submitted", "failed", "cancelled"}, flow : Flows]

TypeOK ==
  /\ d \in Daemon
  /\ flows \in [Flows -> Flow]
  /\ flowMsgs \in Seq(FlowMsg)
  /\ timers \subseteq [kind : {"watchdog", "quit"}, gen : Nat]
  /\ spawned \subseteq Request
  /\ requests \in Seq(Request) /\ Len(requests) <= MaxRequests
  /\ notices \in Seq(Notice) /\ Len(notices) <= MaxNotices
  /\ svc \in [vpn : VpnStates \cup {"Failed"}, attempt : 0..MaxAttempts, flow : Flows \cup {None}]
  /\ link \in BOOLEAN /\ drops \in 0..MaxDrops /\ exited \in BOOLEAN

Init ==
  /\ d = NewDaemon
  /\ flows = [f \in Flows |-> [st |-> "new", cancelled |-> FALSE]]
  /\ flowMsgs = <<>> /\ timers = {} /\ spawned = {} /\ requests = <<>>
  /\ svc = [vpn |-> "Disconnected", attempt |-> 0, flow |-> None]
  /\ notices = <<[kind |-> "env", vpn |-> "Disconnected", attempt |-> 0]>>
  /\ link = TRUE /\ drops = 0 /\ exited = FALSE

\* The loop returns: the process takes its tasks, timers and channels with it.
ProcessEnds ==
  /\ exited' = TRUE
  /\ d' = NewDaemon
  /\ flows' = [f \in Flows |-> [st |-> "new", cancelled |-> FALSE]]
  /\ flowMsgs' = <<>> /\ timers' = {} /\ spawned' = {} /\ requests' = <<>> /\ notices' = <<>>
  /\ svc' = [vpn |-> "Disconnected", attempt |-> 0, flow |-> None]
  /\ link' = FALSE /\ drops' = 0

-----------------------------------------------------------------------------
(* The operations of the Daemon record. *)

\* Model::apply_vpn_state: Failed is kept as Disconnected with an error.
ApplyVpnState(r, s) ==
  [r EXCEPT !.vpn = IF s = "Failed" THEN "Disconnected" ELSE s,
            !.error = IF s = "Failed" THEN TRUE ELSE @]

\* The guards of start_connect_flow; the portal is configured.
MayStart(r) == r.connectCancel = None /\ r.vpn = "Disconnected" /\ r.env
Unstarted == {f \in Flows : flows[f].st = "new"}
NextFlow == CHOOSE f \in Unstarted : TRUE

\* start_connect_flow: an attempt that passes the guards owns a fresh token.
StartConnectFlow(r) ==
  IF MayStart(r)
  THEN /\ Unstarted # {}
       /\ d' = [r EXCEPT !.authenticating = TRUE, !.error = FALSE, !.connectCancel = NextFlow]
       /\ flows' = [flows EXCEPT ![NextFlow].st = "auth"]
  ELSE d' = r /\ UNCHANGED flows

CancelFlow(r) ==
  /\ d' = [r EXCEPT !.connectCancel = None]
  /\ flows' = [flows EXCEPT ![r.connectCancel].cancelled = TRUE]


\* disconnect: a running flow is cancelled, and nothing else happens;
\* otherwise a task is spawned to send the request.
Disconnect ==
  IF d.connectCancel # None
  THEN CancelFlow(d) /\ UNCHANGED spawned
  ELSE IF d.vpn \in {"Connecting", "Connected", "ReconnectRequired"}
  THEN /\ d' = [d EXCEPT !.disconnectRequested = TRUE, !.submitted = None]
       /\ spawned' = spawned \cup {DisconnectRequest}
       /\ UNCHANGED flows
  ELSE UNCHANGED <<d, spawned, flows>>

-----------------------------------------------------------------------------
(* Commands of the widgets (handle_command). *)

CommandConnect ==
  /\ StartConnectFlow(d)
  /\ UNCHANGED <<channels, service, exited>>

CommandDisconnect ==
  /\ Disconnect
  /\ UNCHANGED <<flowMsgs, timers, requests, notices, service, exited>>

CommandToggle ==
  IF d.connectCancel # None \/ d.vpn \in {"Connecting", "Connected"}
  THEN CommandDisconnect
  ELSE CommandConnect

\* SubmitOtp: the flow still waiting for this prompt receives the password.
CommandSubmitOtp ==
  /\ d.pendingOtp # None
  /\ d' = [d EXCEPT !.pendingOtp = None]
  /\ flows' = IF flows[d.pendingOtp].st = "otp"
              THEN [flows EXCEPT ![d.pendingOtp].st = "auth"] ELSE flows
  /\ UNCHANGED <<channels, service, exited>>


\* Quit: the Disconnect goes straight to the channel, with a timer behind it.
CommandQuit ==
  \/ /\ d.vpn \in {"Connecting", "Connected"}
     /\ flows' = IF d.connectCancel # None
                 THEN [flows EXCEPT ![d.connectCancel].cancelled = TRUE] ELSE flows
     /\ d' = [d EXCEPT !.connectCancel = None, !.quitting = TRUE, !.disconnectRequested = TRUE]
     /\ SendRequest(DisconnectRequest)
     /\ timers' = timers \cup {[kind |-> "quit", gen |-> 0]}
     /\ UNCHANGED <<flowMsgs, spawned, notices, service, exited>>
  \/ d.vpn \notin {"Connecting", "Connected"} /\ ProcessEnds

-----------------------------------------------------------------------------
(* Notices of the WebSocket task (run and handle_ws_event). *)

TakeNotice(kind) == notices # <<>> /\ Head(notices).kind = kind /\ notices' = Tail(notices)

\* VpnEnv: the environment of a new attachment, after which auto-connect may start.
HandleVpnEnv ==
  /\ TakeNotice("env")
  /\ LET r == [ApplyVpnState(d, Head(notices).vpn) EXCEPT !.env = TRUE]
     IN IF AutoConnect /\ r.vpn = "Disconnected"
        THEN StartConnectFlow(r) ELSE d' = r /\ UNCHANGED flows
  /\ UNCHANGED <<flowMsgs, timers, spawned, requests, service, exited>>

\* What every Connecting, Connected and ReconnectRequired event does first.
Progressing(r) == [r EXCEPT !.authenticating = FALSE, !.error = FALSE, !.watchdog = @ + 1]

\* restart_submitted_connect: resend the last request, unless a disconnect is wanted.
RestartSubmitted(r, n) ==
  IF r.quitting \/ r.disconnectRequested
  THEN d' = r /\ UNCHANGED spawned
  ELSE IF r.submitted = None
  THEN d' = [r EXCEPT !.error = TRUE] /\ UNCHANGED spawned
  ELSE d' = r /\ spawned' = spawned \cup {RestartOf(r.submitted, n)}

HandleProgress ==
  /\ TakeNotice("state") /\ Head(notices).vpn \in {"Connecting", "Connected"}
  /\ d' = ApplyVpnState(Progressing(d), Head(notices).vpn)
  /\ UNCHANGED <<flows, flowMsgs, timers, spawned, requests, service, exited>>

HandleReconnectRequired ==
  /\ TakeNotice("state") /\ Head(notices).vpn = "ReconnectRequired"
  /\ RestartSubmitted(ApplyVpnState(Progressing(d), "ReconnectRequired"), Head(notices).attempt)
  /\ UNCHANGED <<flows, flowMsgs, timers, requests, service, exited>>

\* Mutant: the intent is not consumed.
EndKeepsIntent ==
  /\ notices # <<>> /\ Head(notices).kind = "state" /\ Head(notices).vpn \in Idle
  /\ \/ d.quitting /\ ProcessEnds
     \/ /\ ~d.quitting /\ notices' = Tail(notices)
        /\ d' = ApplyVpnState(d, Head(notices).vpn)
        /\ UNCHANGED <<flows, flowMsgs, timers, spawned, requests, service, exited>>

\* Disconnected and Failed: a quitting daemon exits; the intent is consumed.
HandleEnded ==
  /\ notices # <<>> /\ Head(notices).kind = "state" /\ Head(notices).vpn \in Idle
  /\ \/ d.quitting /\ ProcessEnds
     \/ /\ ~d.quitting /\ notices' = Tail(notices)
        /\ d' = [ApplyVpnState(d, Head(notices).vpn) EXCEPT !.disconnectRequested = FALSE]
        /\ UNCHANGED <<flows, flowMsgs, timers, spawned, requests, service, exited>>

HandleDisconnecting ==
  /\ TakeNotice("state") /\ Head(notices).vpn = "Disconnecting"
  /\ d' = ApplyVpnState(d, "Disconnecting")
  /\ UNCHANGED <<flows, flowMsgs, timers, spawned, requests, service, exited>>

\* resume_connection: authenticate again to the last gateway.
HandleResume ==
  /\ TakeNotice("resume")
  /\ IF AutoResume /\ d.resumeGateway THEN StartConnectFlow(d) ELSE UNCHANGED <<d, flows>>
  /\ UNCHANGED <<flowMsgs, timers, spawned, requests, service, exited>>

HandleRejection ==
  /\ TakeNotice("rejected")
  /\ d' = [d EXCEPT !.watchdog = @ + 1, !.authenticating = FALSE, !.error = TRUE]
  /\ UNCHANGED <<flows, flowMsgs, timers, spawned, requests, service, exited>>

-----------------------------------------------------------------------------
(* Messages of the connect flows (handle_flow_msg) and timers. *)

TakeFlowMsg(kinds) ==
  flowMsgs # <<>> /\ Head(flowMsgs).kind \in kinds /\ flowMsgs' = Tail(flowMsgs)

\* The flow that held the replaced prompt sees its sender dropped and fails.
HandleOtpPrompt ==
  /\ TakeFlowMsg({"otp"})
  /\ d' = [d EXCEPT !.pendingOtp = Head(flowMsgs).flow]
  /\ UNCHANGED <<flows, timers, spawned, requests, notices, service, exited>>

\* Mutant: the watchdog is armed with the generation before the increment.
SubmittedArmsStale ==
  /\ TakeFlowMsg({"submitted"})
  /\ d' = [d EXCEPT !.connectCancel = None, !.resumeGateway = TRUE,
                    !.submitted = Head(flowMsgs).flow, !.watchdog = @ + 1]
  /\ timers' = timers \cup {[kind |-> "watchdog", gen |-> d.watchdog]}
  /\ UNCHANGED <<flows, spawned, requests, notices, service, exited>>

HandleSubmitted ==
  /\ TakeFlowMsg({"submitted"})
  /\ d' = [d EXCEPT !.connectCancel = None, !.resumeGateway = TRUE,
                    !.submitted = Head(flowMsgs).flow, !.watchdog = @ + 1]
  /\ timers' = timers \cup {[kind |-> "watchdog", gen |-> d'.watchdog]}
  /\ UNCHANGED <<flows, spawned, requests, notices, service, exited>>

HandleFailed ==
  /\ TakeFlowMsg({"failed", "cancelled"})
  /\ d' = [d EXCEPT !.connectCancel = None, !.pendingOtp = None, !.authenticating = FALSE,
                    !.error = IF Head(flowMsgs).kind = "failed" THEN TRUE ELSE @]
  /\ UNCHANGED <<flows, timers, spawned, requests, notices, service, exited>>

HandleWatchdog(t) ==
  /\ t.kind = "watchdog" /\ timers' = timers \ {t}
  /\ d' = IF t.gen = d.watchdog /\ d.vpn = "Disconnected" /\ d.connectCancel = None
          THEN [d EXCEPT !.authenticating = FALSE, !.error = TRUE] ELSE d
  /\ UNCHANGED <<flows, flowMsgs, spawned, requests, notices, service, exited>>

\* QuitTimeout: give up on the disconnect.
HandleQuitTimeout(t) == t.kind = "quit" /\ d.quitting /\ ProcessEnds

-----------------------------------------------------------------------------
(* The connect flows (connect_flow.rs) seen from the daemon. *)

Report(f, kind) == flowMsgs' = Append(flowMsgs, [kind |-> kind, flow |-> f])
FlowTo(f, st) == flows' = [flows EXCEPT ![f].st = st]
FlowUnchanged == UNCHANGED <<d, timers, spawned, notices, service, exited>>

\* request_otp: the prompt is reported before the flow waits for the answer.
FlowPrompt(f) ==
  /\ flows[f].st = "auth" /\ FlowTo(f, "otp") /\ Report(f, "otp")
  /\ FlowUnchanged /\ UNCHANGED requests

\* cancellable: a cancelled flow ends with Cancelled at its next await.
FlowCancelled(f) ==
  /\ flows[f].st \in {"auth", "otp"} /\ flows[f].cancelled
  /\ FlowTo(f, "done") /\ Report(f, "cancelled")
  /\ FlowUnchanged /\ UNCHANGED requests

\* A failed step, the timeout of the prompt, or a prompt whose sender is gone.
FlowFails(f) ==
  /\ flows[f].st \in {"auth", "otp"}
  /\ FlowTo(f, "done") /\ Report(f, "failed")
  /\ FlowUnchanged /\ UNCHANGED requests

\* The last login step completes; from here on nothing looks at the token.
FlowAuthenticated(f) ==
  /\ flows[f].st = "auth" /\ FlowTo(f, "sending")
  /\ FlowUnchanged /\ UNCHANGED <<flowMsgs, requests>>

FlowSendConnect(f) ==
  /\ flows[f].st = "sending" /\ FlowTo(f, "sent")
  /\ SendRequest(ConnectFrom(f))
  /\ FlowUnchanged /\ UNCHANGED flowMsgs

FlowSubmitted(f) ==
  /\ flows[f].st = "sent" /\ FlowTo(f, "done") /\ Report(f, "submitted")
  /\ FlowUnchanged /\ UNCHANGED requests

\* A detached task of disconnect or restart_submitted_connect gets its turn.
SpawnedSend(q) ==
  /\ spawned' = spawned \ {q} /\ SendRequest(q)
  /\ UNCHANGED <<d, flows, flowMsgs, timers, notices, service, exited>>

-----------------------------------------------------------------------------
(* gpservice and the link to it. *)

Announce(n) ==
  IF link THEN Len(notices) < MaxNotices /\ notices' = Append(notices, n)
  ELSE UNCHANGED notices
MoveTo(s) ==
  /\ svc' = [svc EXCEPT !.vpn = s]
  /\ Announce([kind |-> "state", vpn |-> s, attempt |-> svc.attempt])
ServiceUnchanged == UNCHANGED <<d, flows, flowMsgs, timers, spawned, link, drops, exited>>

\* A request reaches gpservice while the link is up: a Connect starts an idle
\* service, a restart only the attempt that asked for it.
ServiceTakes ==
  /\ link /\ requests # <<>> /\ requests' = Tail(requests)
  /\ LET q == Head(requests)
         starts == \/ q.kind = "connect" /\ svc.vpn \in Idle
                   \/ q.kind = "restart" /\ svc.vpn = "ReconnectRequired" /\ q.of = svc.attempt
     IN \/ /\ q.kind # "disconnect" /\ starts /\ svc.attempt < MaxAttempts
           /\ svc' = [vpn |-> "Connecting", attempt |-> svc.attempt + 1, flow |-> q.flow]
           /\ Announce([kind |-> "state", vpn |-> "Connecting", attempt |-> svc'.attempt])
        \/ /\ q.kind # "disconnect" /\ ~ (starts /\ svc.attempt < MaxAttempts)
           /\ Announce([kind |-> "rejected"]) /\ UNCHANGED svc
        \/ /\ q.kind = "disconnect" /\ svc.vpn \in {"Connecting", "Connected"} /\ MoveTo("Disconnecting")
        \/ /\ q.kind = "disconnect" /\ svc.vpn = "ReconnectRequired" /\ MoveTo("Disconnected")
        \/ /\ q.kind = "disconnect" /\ svc.vpn \in Idle \cup {"Disconnecting"}
           /\ UNCHANGED <<svc, notices>>
  /\ ServiceUnchanged

\* The tunnel comes up, fails, drops, asks for a restart, or finishes its teardown.
ServiceMoves ==
  /\ \/ svc.vpn = "Connecting" /\ \E s \in {"Connected", "Failed", "ReconnectRequired"} : MoveTo(s)
     \/ svc.vpn = "Connected" /\ \E s \in {"Disconnected", "ReconnectRequired"} : MoveTo(s)
     \/ svc.vpn = "Disconnecting" /\ MoveTo("Disconnected")
  /\ ServiceUnchanged /\ UNCHANGED requests

\* The machine wakes up and gpservice asks its clients to resume.
ServiceResumes ==
  /\ link /\ svc.vpn \in Idle /\ Announce([kind |-> "resume"])
  /\ ServiceUnchanged /\ UNCHANGED <<svc, requests>>

\* The socket dies: the request being written may be lost with it, and so may
\* any messages of gpservice that had not been read from it.
LinkLost ==
  /\ link /\ drops < MaxDrops /\ link' = FALSE /\ drops' = drops + 1
  /\ requests' \in IF requests = <<>> THEN {requests} ELSE {requests, Tail(requests)}
  /\ notices' \in {SubSeq(notices, 1, n) : n \in 0..Len(notices)}
  /\ UNCHANGED <<d, flows, flowMsgs, timers, spawned, svc, exited>>

\* Reattached: the first notice is the environment with the current state.
LinkBack ==
  /\ ~link /\ link' = TRUE /\ Len(notices) < MaxNotices
  /\ notices' = Append(notices, [kind |-> "env", vpn |-> svc.vpn, attempt |-> svc.attempt])
  /\ UNCHANGED <<d, flows, flowMsgs, timers, spawned, requests, svc, drops, exited>>

\* WsNotice::Gone, SIGTERM and SIGINT end the loop.
Terminate == ProcessEnds

-----------------------------------------------------------------------------
Commands == CommandConnect \/ CommandDisconnect \/ CommandToggle \/ CommandSubmitOtp \/ CommandQuit
Notified == \/ HandleVpnEnv \/ HandleProgress \/ HandleReconnectRequired
            \/ HandleEnded \/ HandleDisconnecting \/ HandleResume \/ HandleRejection
FlowMessages == HandleOtpPrompt \/ HandleSubmitted \/ HandleFailed
TimerFires == \E t \in timers : HandleWatchdog(t) \/ HandleQuitTimeout(t)
FlowEnds(f) == FlowCancelled(f) \/ FlowFails(f) \/ FlowSendConnect(f) \/ FlowSubmitted(f)
FlowSteps == \E f \in Flows : FlowPrompt(f) \/ FlowAuthenticated(f) \/ FlowEnds(f)
ServiceSteps == ServiceTakes \/ ServiceMoves \/ ServiceResumes \/ LinkLost \/ LinkBack

Next ==
  /\ ~exited
  /\ \/ Commands \/ Notified \/ FlowMessages \/ TimerFires \/ Terminate
     \/ FlowSteps \/ ServiceSteps \/ \E q \in spawned : SpawnedSend(q)

Spec == Init /\ [][Next]_vars

\* The loop keeps polling its channels, spawned tasks and timers run, a link
\* comes back and gpservice answers.  A flow is only owed its end once it is
\* cancelled, waits for a prompt (which times out) or has nothing left to do
\* but send: the login window itself may stay open forever.  Commands, losses
\* and the tunnel's own moves are owed to nobody, except that a teardown ends.
FlowOwed(f) ==
  \/ FlowCancelled(f) \/ FlowSendConnect(f) \/ FlowSubmitted(f)
  \/ flows[f].st = "otp" /\ FlowFails(f)
Fairness ==
  /\ WF_vars(~exited /\ Notified) /\ WF_vars(~exited /\ FlowMessages) /\ WF_vars(~exited /\ TimerFires)
  /\ WF_vars(~exited /\ ServiceTakes) /\ WF_vars(~exited /\ LinkBack)
  /\ WF_vars(~exited /\ svc.vpn = "Disconnecting" /\ ServiceMoves)
  /\ WF_vars(~exited /\ \E q \in spawned : SpawnedSend(q))
  /\ \A f \in Flows : WF_vars(~exited /\ FlowOwed(f))
FairSpec == Spec /\ Fairness

-----------------------------------------------------------------------------
(* Properties. *)

Live(f) == flows[f].st \in {"auth", "otp", "sending", "sent"}
Queued(S, q) == \E i \in 1..Len(q) : q[i] \in S
StateNotices(S) == [kind : {"state"}, vpn : S, attempt : 0..MaxAttempts]

\* "Authenticating" is never left on the bar with nothing behind it: while the
\* tunnel is down and model.authenticating is set, a flow runs, its last
\* message is waiting, an answer of gpservice is waiting, or a watchdog of the
\* current generation will fire (Submitted arms it, handle_watchdog clears).
\* A reattachment that reports Connecting leaves the flag behind: see
\* HandleVpnEnv, and drops = 0 here.
AuthenticatingIsBacked ==
  drops = 0 /\ d.vpn = "Disconnected" /\ d.authenticating =>
    \/ \E f \in DOMAIN flows : Live(f)
    \/ Queued([kind : {"submitted", "failed", "cancelled"}, flow : Flows], flowMsgs)
    \/ [kind |-> "watchdog", gen |-> d.watchdog] \in timers

\* disconnect_requested is true only while the Disconnected state it excuses is
\* still to come: the request is on its way, gpservice tears down, or the
\* notice of the end is waiting.  A flag that outlived its disconnect would
\* silence the next drop and refuse the next restart.  (A link that is lost
\* takes the request with it, and the flag does survive then: drops = 0.)
IntentIsPending ==
  drops = 0 /\ d.disconnectRequested =>
    \/ DisconnectRequest \in spawned
    \/ Queued({DisconnectRequest}, requests)
    \/ svc.vpn = "Disconnecting"
    \/ Queued(StateNotices(Idle), notices)

\* connect_cancel is the handle of the running flow: a flow that nobody
\* cancelled and that has not put its Connect on the channel can be cancelled.
HandleOfRunningFlow ==
  \A f \in DOMAIN flows : flows[f].st \in {"auth", "otp"} /\ ~flows[f].cancelled => d.connectCancel = f


-----------------------------------------------------------------------------
(* The inductive invariant *)

\* The VPN state a notice brings, as apply_vpn_state keeps it
Brings(n) == n.kind \in {"env", "state"}
AsShown(s) == IF s = "Failed" THEN "Disconnected" ELSE s

\* What the daemon shows when it comes to its i-th notice
Shown(i, s) ==
  \/ \E j \in 1 .. i - 1 : /\ Brings(notices[j]) /\ AsShown(notices[j].vpn) = s
                           /\ \A k \in j + 1 .. i - 1 : ~Brings(notices[k])
  \/ d.vpn = s /\ \A k \in 1 .. i - 1 : ~Brings(notices[k])

\* An attached daemon that has handled its notices shows gpservice's state,
\* also after links that were lost with notices on them.
ShowsService == link => Shown(Len(notices) + 1, AsShown(svc.vpn))

\* Disconnecting is only announced to a daemon that does not show Disconnected
DisconnectingFollows ==
  \A i \in 1 .. Len(notices) : notices[i].kind = "state" /\ notices[i].vpn = "Disconnecting" =>
    \E s \in VpnStates \ {"Disconnected"} : Shown(i, s)

\* Unless the link is lost, the only environment is that of the first attachment
FirstEnv ==
  drops = 0 /\ ~exited =>
    /\ link
    /\ \A i \in 1 .. Len(notices) : notices[i].kind = "env" =>
         i = 1 /\ notices[i].vpn = "Disconnected" /\ d.vpn = "Disconnected"

\* The intent belongs to a tunnel, "authenticating" to a daemon without one
IntentShown == drops = 0 /\ d.disconnectRequested => d.vpn # "Disconnected"
AuthenticatingShown == drops = 0 /\ d.vpn # "Disconnected" => ~d.authenticating

\* connect_cancel is the token of a flow that runs or whose end is not handled yet
EndOf(f) == [kind : {"submitted", "failed", "cancelled"}, flow : {f}]
TokenOfFlow ==
  d.connectCancel # None => Live(d.connectCancel) \/ Queued(EndOf(d.connectCancel), flowMsgs)

WidgetInv ==
  /\ ShowsService /\ DisconnectingFollows /\ FirstEnv /\ IntentShown /\ AuthenticatingShown
  /\ TokenOfFlow /\ IntentIsPending /\ AuthenticatingIsBacked
=============================================================================
