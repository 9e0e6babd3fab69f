------------------------- MODULE WidgetDaemonProofs -------------------------
(***************************************************************************)
(* The widget daemon, for every number of flows, attempts, lost links and  *)
(* queued notices: what it shows follows gpservice, a disconnect it asked  *)
(* for is still to come while it says so, and "authenticating" has         *)
(* something behind it.                                                    *)
(***************************************************************************)
EXTENDS WidgetDaemon, TLAPS
-----------------------------------------------------------------------------
(* The Daemon record *)

LEMMA ApplyFacts ==
  ASSUME NEW r \in Daemon, NEW s \in VpnStates \cup {"Failed"}
  PROVE  LET a == ApplyVpnState(r, s)
         IN /\ a \in Daemon /\ a.vpn = AsShown(s)
            /\ a.authenticating = r.authenticating /\ a.connectCancel = r.connectCancel
            /\ a.disconnectRequested = r.disconnectRequested /\ a.watchdog = r.watchdog
            /\ a.quitting = r.quitting /\ a.submitted = r.submitted
  BY Zenon DEF ApplyVpnState, Daemon, VpnStates, AsShown

LEMMA ProgressFacts ==
  ASSUME NEW r \in Daemon
  PROVE  LET a == Progressing(r)
         IN /\ a \in Daemon /\ ~a.authenticating
            /\ a.connectCancel = r.connectCancel /\ a.disconnectRequested = r.disconnectRequested
            /\ a.vpn = r.vpn
<1>1. r.watchdog + 1 \in Nat
  BY DEF Daemon
<1> QED BY <1>1, Zenon DEF Progressing, Daemon

LEMMA NextFlowFacts ==
  ASSUME TypeOK, Unstarted # {}
  PROVE  NextFlow \in Flows /\ flows[NextFlow].st = "new"
  BY Zenon DEF NextFlow, Unstarted

LEMMA FlowUpdates ==
  ASSUME TypeOK, NEW f \in Flows, NEW s \in {"new", "auth", "otp", "sending", "sent", "done"}
  PROVE  /\ [flows EXCEPT ![f].st = s] \in [Flows -> Flow]
         /\ [flows EXCEPT ![f].st = s][f].st = s
         /\ \A g \in Flows : g # f => [flows EXCEPT ![f].st = s][g].st = flows[g].st
<1>1. [flows[f] EXCEPT !.st = s] \in Flow /\ [flows[f] EXCEPT !.st = s].st = s
  BY Zenon DEF TypeOK, Flow
<1> QED BY <1>1, Zenon DEF TypeOK

LEMMA FlowCancels ==
  ASSUME TypeOK, NEW f \in Flows
  PROVE  /\ [flows EXCEPT ![f].cancelled = TRUE] \in [Flows -> Flow]
         /\ \A g \in Flows : [flows EXCEPT ![f].cancelled = TRUE][g].st = flows[g].st
<1>1. /\ [flows[f] EXCEPT !.cancelled = TRUE] \in Flow
      /\ [flows[f] EXCEPT !.cancelled = TRUE].st = flows[f].st
  BY Zenon DEF TypeOK, Flow
<1> QED BY <1>1, Zenon DEF TypeOK

LEMMA StartFacts ==
  ASSUME TypeOK, NEW r \in Daemon, StartConnectFlow(r)
  PROVE  /\ d' \in Daemon
         /\ flows' \in [Flows -> Flow]
         /\ d'.vpn = r.vpn /\ d'.disconnectRequested = r.disconnectRequested
         /\ \/ d' = r /\ UNCHANGED flows
            \/ /\ r.vpn = "Disconnected" /\ d'.connectCancel \in Flows
               /\ flows'[d'.connectCancel].st = "auth"
<1>1. CASE MayStart(r)
  <2> DEFINE f == NextFlow
  <2>1. f \in Flows
    BY <1>1, NextFlowFacts, Zenon DEF StartConnectFlow
  <2> HIDE DEF f
  <2>2. /\ d' = [r EXCEPT !.authenticating = TRUE, !.error = FALSE, !.connectCancel = f]
        /\ flows' = [flows EXCEPT ![f].st = "auth"] /\ r.vpn = "Disconnected"
    BY <1>1, Zenon DEF StartConnectFlow, f, MayStart
  <2>3. d' \in Daemon /\ d'.vpn = r.vpn /\ d'.disconnectRequested = r.disconnectRequested /\ d'.connectCancel = f
    BY <2>1, <2>2, Zenon DEF Daemon
  <2>4. /\ flows' \in [Flows -> Flow]
        /\ flows'[f].st = "auth"
    BY <2>1, <2>2, FlowUpdates, Zenon
  <2> QED BY <2>1, <2>2, <2>3, <2>4, Zenon
<1>2. CASE ~MayStart(r)
  BY <1>2, Zenon DEF StartConnectFlow, TypeOK
<1> QED BY <1>1, <1>2

LEMMA TailFacts ==
  ASSUME NEW S, NEW q \in Seq(S), q # <<>>
  PROVE  Head(q) \in S /\ Tail(q) \in Seq(S) /\ Len(Tail(q)) = Len(q) - 1 /\ Len(Tail(q)) <= Len(q)
  OBVIOUS

LEMMA AppendFacts ==
  ASSUME NEW S, NEW q \in Seq(S), NEW e \in S
  PROVE  Append(q, e) \in Seq(S) /\ Len(Append(q, e)) = Len(q) + 1
  OBVIOUS

LEMMA NoticeFacts ==
  ASSUME NEW n \in Notice, Brings(n)
  PROVE  n.vpn \in VpnStates \cup {"Failed"} /\ n.attempt \in 0 .. MaxAttempts
  BY Zenon DEF Notice, Brings

LEMMA TakenFacts ==
  ASSUME TypeOK, notices # <<>>, notices' = Tail(notices)
  PROVE  notices' \in Seq(Notice) /\ Len(notices') <= MaxNotices /\ Head(notices) \in Notice
<1>1. notices \in Seq(Notice) /\ Len(notices) <= MaxNotices /\ Len(notices) \in Nat
  BY DEF TypeOK
<1>2. Head(notices) \in Notice /\ Tail(notices) \in Seq(Notice) /\ Len(Tail(notices)) = Len(notices) - 1
  BY <1>1, TailFacts, Zenon
<1> QED BY <1>1, <1>2, BoundsAssumption

LEMMA SendFacts ==
  ASSUME TypeOK, NEW q \in Request, SendRequest(q)
  PROVE  requests' \in Seq(Request) /\ Len(requests') <= MaxRequests
<1>1. requests \in Seq(Request) /\ Len(requests) < MaxRequests /\ requests' = Append(requests, q)
  BY Zenon DEF SendRequest, TypeOK
<1> QED BY <1>1, BoundsAssumption

LEMMA AnnounceFacts ==
  ASSUME TypeOK, NEW n \in Notice, Announce(n)
  PROVE  notices' \in Seq(Notice) /\ Len(notices') <= MaxNotices
<1>1. notices \in Seq(Notice) /\ Len(notices) <= MaxNotices
  BY Zenon DEF TypeOK
<1>2. CASE link
  <2>1. Len(notices) < MaxNotices /\ notices' = Append(notices, n)
    BY <1>2, Zenon DEF Announce
  <2> QED BY <1>1, <2>1, BoundsAssumption
<1>3. CASE ~link
  BY <1>1, <1>3, Zenon DEF Announce
<1> QED BY <1>2, <1>3

LEMMA DisconnectTyped == DisconnectRequest \in Request
<1>1. 0 \in 0 .. MaxAttempts
  BY BoundsAssumption
<1> QED BY <1>1, Zenon DEF DisconnectRequest, Request

LEMMA EndType ==
  ASSUME ProcessEnds
  PROVE  TypeOK'
<1>1. NewDaemon \in Daemon
  BY Zenon DEF NewDaemon, Daemon, VpnStates
<1>2. /\ <<>> \in Seq(FlowMsg) /\ <<>> \in Seq(Request) /\ <<>> \in Seq(Notice)
      /\ Len(<<>>) <= MaxRequests /\ Len(<<>>) <= MaxNotices
      /\ 0 \in 0 .. MaxAttempts /\ 0 \in 0 .. MaxDrops
  BY BoundsAssumption
<1>3. [f \in Flows |-> [st |-> "new", cancelled |-> FALSE]] \in [Flows -> Flow]
  BY Zenon DEF Flow
<1> QED BY <1>1, <1>2, <1>3, Zenon DEF ProcessEnds, TypeOK, VpnStates

LEMMA CommandTypes ==
  ASSUME TypeOK, Commands
  PROVE  TypeOK'
<1>1. CASE CommandConnect
  BY <1>1, StartFacts, Zenon DEF CommandConnect, TypeOK, channels, service
<1>2. CASE CommandDisconnect
  <2>1. UNCHANGED <<flowMsgs, timers, requests, notices, service, exited>> /\ Disconnect
    BY <1>2, Zenon DEF CommandDisconnect
  <2>2. CASE d.connectCancel # None
    <3>1. CancelFlow(d) /\ UNCHANGED spawned /\ d.connectCancel \in Flows
      BY <2>1, <2>2, Zenon DEF Disconnect, TypeOK, Daemon
    <3>2. d' \in Daemon
      BY <3>1, Zenon DEF CancelFlow, TypeOK, Daemon
    <3>3. flows' \in [Flows -> Flow]
      BY <3>1, FlowCancels, Zenon DEF CancelFlow
    <3> QED BY <2>1, <3>1, <3>2, <3>3, Zenon DEF TypeOK, service
  <2>3. CASE d.connectCancel = None
    <3>1. /\ UNCHANGED flows /\ spawned' \subseteq spawned \cup {DisconnectRequest}
          /\ UNCHANGED d \/ d' = [d EXCEPT !.disconnectRequested = TRUE, !.submitted = None]
      BY <2>1, <2>3, Zenon DEF Disconnect
    <3>2. d' \in Daemon
      BY <3>1, ZenonT(40) DEF TypeOK, Daemon
    <3>3. spawned' \subseteq Request
      BY <3>1, DisconnectTyped, Zenon DEF TypeOK
    <3> QED BY <2>1, <3>1, <3>2, <3>3, Zenon DEF TypeOK, service
  <2> QED BY <2>2, <2>3
<1>3. CASE CommandSubmitOtp
  <2>1. d' \in Daemon
    BY <1>3, Zenon DEF CommandSubmitOtp, TypeOK, Daemon
  <2>2. flows' \in [Flows -> Flow]
    <3>1. d.pendingOtp \in Flows
      BY <1>3, Zenon DEF CommandSubmitOtp, TypeOK, Daemon
    <3> QED BY <1>3, <3>1, FlowUpdates, Zenon DEF CommandSubmitOtp, TypeOK
  <2> QED BY <1>3, <2>1, <2>2, Zenon DEF CommandSubmitOtp, TypeOK, channels, service
<1>4. CASE CommandQuit /\ ~ProcessEnds
  <2>1. d' = [d EXCEPT !.connectCancel = None, !.quitting = TRUE, !.disconnectRequested = TRUE]
    BY <1>4, Zenon DEF CommandQuit
  <2>2. d' \in Daemon
    BY <2>1, Zenon DEF TypeOK, Daemon
  <2>3. flows' \in [Flows -> Flow]
    <3>1. d.connectCancel # None => d.connectCancel \in Flows
      BY Zenon DEF TypeOK, Daemon
    <3>2. \/ d.connectCancel # None /\ flows' = [flows EXCEPT ![d.connectCancel].cancelled = TRUE]
          \/ UNCHANGED flows
      BY <1>4, Zenon DEF CommandQuit
    <3>3. CASE UNCHANGED flows
      BY <3>3, Zenon DEF TypeOK
    <3>4. CASE d.connectCancel # None /\ flows' = [flows EXCEPT ![d.connectCancel].cancelled = TRUE]
      BY <3>1, <3>4, FlowCancels, Zenon
    <3> QED BY <3>2, <3>3, <3>4, Zenon
  <2>4. requests' \in Seq(Request) /\ Len(requests') <= MaxRequests
    BY <1>4, SendFacts, DisconnectTyped, Zenon DEF CommandQuit
  <2>5. timers' \subseteq [kind : {"watchdog", "quit"}, gen : Nat]
    <3>1. timers' = timers \cup {[kind |-> "quit", gen |-> 0]}
      BY <1>4, Zenon DEF CommandQuit
    <3> QED BY <3>1 DEF TypeOK
  <2> QED BY <1>4, <2>2, <2>3, <2>4, <2>5, Zenon DEF CommandQuit, TypeOK, service
<1> QED BY <1>1, <1>2, <1>3, <1>4, EndType, Zenon DEF Commands, CommandToggle

LEMMA NotifiedTypes ==
  ASSUME TypeOK, Notified
  PROVE  TypeOK'
<1> DEFINE n == Head(notices)
<1>1. ASSUME NEW k, TakeNotice(k)
      PROVE  /\ notices' \in Seq(Notice) /\ Len(notices') <= MaxNotices /\ n \in Notice
             /\ k \in {"env", "state"} => n.vpn \in VpnStates \cup {"Failed"} /\ n.attempt \in 0 .. MaxAttempts
  BY <1>1, TakenFacts, NoticeFacts, Zenon DEF TakeNotice, Brings
<1> HIDE DEF n
<1>2. CASE HandleVpnEnv
  <2> DEFINE r == [ApplyVpnState(d, n.vpn) EXCEPT !.env = TRUE]
  <2>1. TakeNotice("env") /\ (StartConnectFlow(r) \/ (d' = r /\ UNCHANGED flows))
    BY <1>2, Zenon DEF HandleVpnEnv, n
  <2>2. ApplyVpnState(d, n.vpn) \in Daemon
    BY <1>1, <2>1, ApplyFacts, Zenon DEF TypeOK
  <2>3. r \in Daemon
    BY <2>2, Zenon DEF Daemon
  <2> HIDE DEF r
  <2>4. d' \in Daemon /\ flows' \in [Flows -> Flow]
    BY <2>1, <2>3, StartFacts, Zenon DEF TypeOK
  <2> QED BY <1>1, <1>2, <2>1, <2>4, Zenon DEF HandleVpnEnv, TypeOK, service
<1>3. CASE HandleProgress
  <2>1. d' \in Daemon
    BY <1>1, <1>3, ApplyFacts, ProgressFacts, Zenon DEF HandleProgress, TypeOK, n
  <2> QED BY <1>1, <1>3, <2>1, Zenon DEF HandleProgress, TypeOK, service
<1>4. CASE HandleReconnectRequired
  <2> DEFINE r == ApplyVpnState(Progressing(d), "ReconnectRequired")
  <2>1. r \in Daemon
    BY ApplyFacts, ProgressFacts, Zenon DEF TypeOK, VpnStates
  <2>2. TakeNotice("state") /\ RestartSubmitted(r, n.attempt)
    BY <1>4, Zenon DEF HandleReconnectRequired, n
  <2> HIDE DEF r
  <2>3. d' \in Daemon
    BY <2>1, <2>2, Zenon DEF RestartSubmitted, Daemon
  <2>4. r.submitted \in Flows \cup {None}
    BY <2>1, Zenon DEF Daemon
  <2>5. spawned' \subseteq Request
    <3>1. RestartOf(r.submitted, n.attempt) \in Request
      BY <1>1, <2>2, <2>4, Zenon DEF RestartOf, Request
    <3> QED BY <2>2, <3>1, Zenon DEF RestartSubmitted, TypeOK
  <2> QED BY <1>1, <1>4, <2>2, <2>3, <2>5, Zenon DEF HandleReconnectRequired, TypeOK, service
<1>5. CASE HandleEnded /\ ~ProcessEnds
  <2>1. /\ notices # <<>> /\ notices' = Tail(notices) /\ n.kind = "state"
        /\ d' = [ApplyVpnState(d, n.vpn) EXCEPT !.disconnectRequested = FALSE]
        /\ UNCHANGED <<flows, flowMsgs, timers, spawned, requests, service, exited>>
    BY <1>5, Zenon DEF HandleEnded, n
  <2>2. ApplyVpnState(d, n.vpn) \in Daemon
    BY <2>1, TakenFacts, NoticeFacts, ApplyFacts, Zenon DEF TypeOK, n, Brings
  <2>3. d' \in Daemon
    BY <2>1, <2>2, Zenon DEF Daemon
  <2> QED BY <2>1, <2>3, TakenFacts, Zenon DEF TypeOK, service
<1>6. CASE HandleDisconnecting
  <2>1. d' \in Daemon
    BY <1>6, ApplyFacts, Zenon DEF HandleDisconnecting, TypeOK, VpnStates
  <2> QED BY <1>1, <1>6, <2>1, Zenon DEF HandleDisconnecting, TypeOK, service
<1>7. CASE HandleResume
  <2>1. d' \in Daemon /\ flows' \in [Flows -> Flow]
    BY <1>7, StartFacts, Zenon DEF HandleResume, TypeOK
  <2> QED BY <1>1, <1>7, <2>1, Zenon DEF HandleResume, TypeOK, service
<1>8. CASE HandleRejection
  <2>1. d.watchdog + 1 \in Nat
    BY DEF TypeOK, Daemon
  <2>2. d' \in Daemon
    BY <1>8, <2>1, Zenon DEF HandleRejection, TypeOK, Daemon
  <2> QED BY <1>1, <1>8, <2>2, Zenon DEF HandleRejection, TypeOK, service
<1> QED BY <1>2, <1>3, <1>4, <1>5, <1>6, <1>7, <1>8, EndType, Zenon DEF Notified

LEMMA FlowTypes ==
  ASSUME TypeOK, FlowMessages \/ TimerFires \/ FlowSteps
  PROVE  TypeOK'
<1>1. ASSUME NEW ks, TakeFlowMsg(ks)
      PROVE  flowMsgs' \in Seq(FlowMsg) /\ Head(flowMsgs).flow \in Flows
  <2>1. Head(flowMsgs) \in FlowMsg /\ Tail(flowMsgs) \in Seq(FlowMsg)
    BY <1>1, TailFacts, Zenon DEF TakeFlowMsg, TypeOK
  <2> QED BY <1>1, <2>1, Zenon DEF TakeFlowMsg, FlowMsg
<1>2. CASE HandleOtpPrompt
  <2>1. d' \in Daemon
    BY <1>1, <1>2, Zenon DEF HandleOtpPrompt, TypeOK, Daemon
  <2> QED BY <1>1, <1>2, <2>1, Zenon DEF HandleOtpPrompt, TypeOK, service
<1>3. CASE HandleSubmitted
  <2>1. d.watchdog + 1 \in Nat
    BY DEF TypeOK, Daemon
  <2>2. d' \in Daemon
    BY <1>1, <1>3, <2>1, Zenon DEF HandleSubmitted, TypeOK, Daemon
  <2>3. [kind |-> "watchdog", gen |-> d'.watchdog] \in [kind : {"watchdog", "quit"}, gen : Nat]
    BY <2>2, Zenon DEF Daemon
  <2>4. timers' \subseteq [kind : {"watchdog", "quit"}, gen : Nat]
    BY <1>3, <2>3, Zenon DEF HandleSubmitted, TypeOK
  <2> QED BY <1>1, <1>3, <2>2, <2>4, Zenon DEF HandleSubmitted, TypeOK, service
<1>4. CASE HandleFailed
  <2>1. d' \in Daemon
    BY <1>4, Zenon DEF HandleFailed, TypeOK, Daemon
  <2> QED BY <1>1, <1>4, <2>1, Zenon DEF HandleFailed, TypeOK, service
<1>5. ASSUME NEW t \in timers, HandleWatchdog(t) PROVE TypeOK'
  <2>1. d' \in Daemon
    <3>1. d' = d \/ d' = [d EXCEPT !.authenticating = FALSE, !.error = TRUE]
      BY <1>5, Zenon DEF HandleWatchdog
    <3> QED BY <3>1, Zenon DEF TypeOK, Daemon
  <2> QED BY <1>5, <2>1, Zenon DEF HandleWatchdog, TypeOK, service
<1>6. ASSUME NEW t \in timers, HandleQuitTimeout(t) PROVE TypeOK'
  BY <1>6, EndType, Zenon DEF HandleQuitTimeout
<1>7. ASSUME NEW f \in Flows, NEW k \in {"otp", "submitted", "failed", "cancelled"}, Report(f, k)
      PROVE  flowMsgs' \in Seq(FlowMsg)
  <2>1. [kind |-> k, flow |-> f] \in FlowMsg
    BY Zenon DEF FlowMsg
  <2> QED BY <1>7, <2>1, AppendFacts, Zenon DEF Report, TypeOK
<1>8. ASSUME NEW f \in Flows, FlowPrompt(f) \/ FlowAuthenticated(f) \/ FlowEnds(f)
      PROVE  TypeOK'
  <2>1. flows' \in [Flows -> Flow]
    <3>1. PICK s \in {"otp", "done", "sending", "sent"} : FlowTo(f, s)
      BY <1>8, Zenon DEF FlowPrompt, FlowAuthenticated, FlowEnds, FlowCancelled, FlowFails,
         FlowSendConnect, FlowSubmitted
    <3>2. s \in {"new", "auth", "otp", "sending", "sent", "done"}
      OBVIOUS
    <3> QED BY <3>1, <3>2, FlowUpdates, Zenon DEF FlowTo
  <2>2. flowMsgs' \in Seq(FlowMsg)
    <3>1. UNCHANGED flowMsgs \/ \E k \in {"otp", "submitted", "failed", "cancelled"} : Report(f, k)
      BY <1>8, Zenon DEF FlowPrompt, FlowAuthenticated, FlowEnds, FlowCancelled, FlowFails,
         FlowSendConnect, FlowSubmitted
    <3> QED BY <1>7, <3>1, Zenon DEF TypeOK
  <2>3. requests' \in Seq(Request) /\ Len(requests') <= MaxRequests
    <3>1. UNCHANGED requests \/ SendRequest(ConnectFrom(f))
      BY <1>8, Zenon DEF FlowPrompt, FlowAuthenticated, FlowEnds, FlowCancelled, FlowFails,
         FlowSendConnect, FlowSubmitted
    <3>2. 0 \in 0 .. MaxAttempts
      BY BoundsAssumption
    <3>3. ConnectFrom(f) \in Request
      BY <3>2, Zenon DEF ConnectFrom, Request
    <3> QED BY <3>1, <3>3, SendFacts, Zenon DEF TypeOK
  <2>4. FlowUnchanged
    BY <1>8, Zenon DEF FlowPrompt, FlowAuthenticated, FlowEnds, FlowCancelled, FlowFails,
       FlowSendConnect, FlowSubmitted
  <2> QED BY <2>1, <2>2, <2>3, <2>4, Zenon DEF FlowUnchanged, TypeOK, service
<1> QED BY <1>2, <1>3, <1>4, <1>5, <1>6, <1>8, Zenon DEF FlowMessages, TimerFires, FlowSteps

LEMMA StateNotice ==
  ASSUME TypeOK, NEW s \in VpnStates \cup {"Failed"}, NEW a \in 0 .. MaxAttempts
  PROVE  [kind |-> "state", vpn |-> s, attempt |-> a] \in Notice
  BY Zenon DEF Notice

LEMMA MoveTypes ==
  ASSUME TypeOK, NEW s \in VpnStates \cup {"Failed"}, MoveTo(s)
  PROVE  /\ notices' \in Seq(Notice) /\ Len(notices') <= MaxNotices
         /\ svc' \in [vpn : VpnStates \cup {"Failed"}, attempt : 0..MaxAttempts, flow : Flows \cup {None}]
<1>1. svc.attempt \in 0 .. MaxAttempts
  BY Zenon DEF TypeOK
<1>2. [kind |-> "state", vpn |-> s, attempt |-> svc.attempt] \in Notice
  BY <1>1, StateNotice, Zenon
<1> QED BY <1>2, AnnounceFacts, Zenon DEF MoveTo, TypeOK

LEMMA ServiceTypes ==
  ASSUME TypeOK, ServiceSteps
  PROVE  TypeOK'
<1> USE DEF VpnStates
<1> DEFINE Svc == [vpn : VpnStates \cup {"Failed"}, attempt : 0..MaxAttempts, flow : Flows \cup {None}]
           Typed == notices' \in Seq(Notice) /\ Len(notices') <= MaxNotices /\ svc' \in Svc
<1>1. CASE ServiceTakes
  <2> DEFINE q == Head(requests)
  <2>1. requests # <<>> /\ requests' = Tail(requests) /\ ServiceUnchanged
    BY <1>1, Zenon DEF ServiceTakes
  <2>2. requests \in Seq(Request) /\ Len(requests) <= MaxRequests /\ Len(requests) \in Nat
    BY DEF TypeOK
  <2>3. q \in Request /\ requests' \in Seq(Request) /\ Len(requests') <= MaxRequests
    <3>1. q \in Request /\ requests' \in Seq(Request) /\ Len(requests') = Len(requests) - 1
      BY <2>1, <2>2, TailFacts, Zenon
    <3> QED BY <2>2, <3>1, BoundsAssumption
  <2>4. Typed
    <3>1. ASSUME svc.attempt < MaxAttempts,
                 svc' = [vpn |-> "Connecting", attempt |-> svc.attempt + 1, flow |-> q.flow],
                 Announce([kind |-> "state", vpn |-> "Connecting", attempt |-> svc'.attempt])
          PROVE  Typed
      <4>1. svc.attempt + 1 \in 0 .. MaxAttempts
        BY <3>1, BoundsAssumption DEF TypeOK
      <4>2. svc' \in Svc /\ svc'.attempt \in 0 .. MaxAttempts
        BY <2>3, <3>1, <4>1, Zenon DEF Request
      <4>3. [kind |-> "state", vpn |-> "Connecting", attempt |-> svc'.attempt] \in Notice
        BY <4>2, StateNotice, Zenon
      <4> QED BY <3>1, <4>2, <4>3, AnnounceFacts, Zenon
    <3>2. ASSUME Announce([kind |-> "rejected"]), UNCHANGED svc PROVE Typed
      <4>1. [kind |-> "rejected"] \in Notice
        BY Zenon DEF Notice
      <4> QED BY <3>2, <4>1, AnnounceFacts, Zenon DEF TypeOK
    <3>3. ASSUME NEW s \in {"Disconnecting", "Disconnected"}, MoveTo(s) PROVE Typed
      BY <3>3, MoveTypes, Zenon
    <3>4. ASSUME UNCHANGED <<svc, notices>> PROVE Typed
      BY <3>4, Zenon DEF TypeOK
    <3> HIDE DEF Typed
    <3> QED BY <1>1, <3>1, <3>2, <3>3, <3>4, Zenon DEF ServiceTakes
  <2> QED BY <2>1, <2>3, <2>4, Zenon DEF ServiceUnchanged, TypeOK
<1>2. CASE ServiceMoves
  <2>1. PICK s \in VpnStates \cup {"Failed"} : MoveTo(s)
    BY <1>2, Zenon DEF ServiceMoves
  <2> QED BY <1>2, <2>1, MoveTypes, Zenon DEF ServiceMoves, ServiceUnchanged, TypeOK
<1>3. CASE ServiceResumes
  <2>1. [kind |-> "resume"] \in Notice
    BY Zenon DEF Notice
  <2> QED BY <1>3, <2>1, AnnounceFacts, Zenon DEF ServiceResumes, ServiceUnchanged, TypeOK
<1>4. CASE LinkLost
  <2>1. requests' \in Seq(Request) /\ Len(requests') <= MaxRequests
    <3>1. requests' = requests \/ (requests # <<>> /\ requests' = Tail(requests))
      BY <1>4, Zenon DEF LinkLost
    <3>2. requests \in Seq(Request) /\ Len(requests) <= MaxRequests
      BY Zenon DEF TypeOK
    <3> QED BY <3>1, <3>2, BoundsAssumption
  <2>2. notices' \in Seq(Notice) /\ Len(notices') <= MaxNotices
    <3>1. PICK n \in 0 .. Len(notices) : notices' = SubSeq(notices, 1, n)
      BY <1>4, Zenon DEF LinkLost
    <3>2. notices \in Seq(Notice) /\ Len(notices) <= MaxNotices
      BY Zenon DEF TypeOK
    <3> QED BY <3>1, <3>2, BoundsAssumption
  <2>3. drops' \in 0 .. MaxDrops
    BY <1>4, BoundsAssumption DEF LinkLost, TypeOK
  <2> QED BY <1>4, <2>1, <2>2, <2>3, Zenon DEF LinkLost, TypeOK
<1>5. CASE LinkBack
  <2>1. svc.vpn \in VpnStates \cup {"Failed"} /\ svc.attempt \in 0 .. MaxAttempts
    BY Zenon DEF TypeOK
  <2>2. [kind |-> "env", vpn |-> svc.vpn, attempt |-> svc.attempt] \in Notice
    BY <2>1, Zenon DEF Notice
  <2>3. notices \in Seq(Notice) /\ Len(notices) < MaxNotices
    BY <1>5, Zenon DEF LinkBack, TypeOK
  <2>4. notices' \in Seq(Notice) /\ Len(notices') = Len(notices) + 1
    BY <1>5, <2>2, <2>3, AppendFacts, Zenon DEF LinkBack
  <2>5. Len(notices') <= MaxNotices
    BY <2>3, <2>4, BoundsAssumption
  <2> QED BY <1>5, <2>4, <2>5, Zenon DEF LinkBack, TypeOK
<1> QED BY <1>1, <1>2, <1>3, <1>4, <1>5, Zenon DEF ServiceSteps

LEMMA TypeStep ==
  ASSUME TypeOK, [Next]_vars
  PROVE  TypeOK'
<1>1. ASSUME NEW q \in spawned, SpawnedSend(q) PROVE TypeOK'
  BY <1>1, SendFacts, Zenon DEF SpawnedSend, TypeOK, service
<1>2. CASE UNCHANGED vars
  BY <1>2, Zenon DEF vars, channels, service, TypeOK
<1> QED BY <1>1, <1>2, CommandTypes, NotifiedTypes, FlowTypes, ServiceTypes, EndType,
           Zenon DEF Next, Terminate
-----------------------------------------------------------------------------
(* What the daemon shows *)

\* Shown for a queue of notices and a VPN state
ShownIn(q, v, i, s) ==
  \/ \E j \in 1 .. i - 1 : /\ Brings(q[j]) /\ AsShown(q[j].vpn) = s
                           /\ \A k \in j + 1 .. i - 1 : ~Brings(q[k])
  \/ v = s /\ \A k \in 1 .. i - 1 : ~Brings(q[k])

\* What comes later in the queue does not change what is shown before it
LEMMA PrefixShown ==
  ASSUME NEW q, NEW p, NEW v, NEW s, NEW i \in Nat, \A k \in 1 .. i - 1 : p[k] = q[k],
         ShownIn(q, v, i, s)
  PROVE  ShownIn(p, v, i, s)
<1>1. \A j \in 1 .. i - 1 : \A k \in j + 1 .. i - 1 : k \in 1 .. i - 1
  OBVIOUS
<1>2. CASE v = s /\ \A k \in 1 .. i - 1 : ~Brings(q[k])
  BY <1>2, Zenon DEF ShownIn
<1>3. ASSUME NEW j \in 1 .. i - 1, Brings(q[j]), AsShown(q[j].vpn) = s,
             \A k \in j + 1 .. i - 1 : ~Brings(q[k])
      PROVE  ShownIn(p, v, i, s)
  <2>1. Brings(p[j]) /\ AsShown(p[j].vpn) = s
    BY <1>3, Zenon
  <2>2. \A k \in j + 1 .. i - 1 : ~Brings(p[k])
    BY <1>1, <1>3, Zenon
  <2> QED BY <2>1, <2>2 DEF ShownIn
<1> QED BY <1>2, <1>3 DEF ShownIn

\* The last notice decides if it brings a state, ...
LEMMA AppendShown ==
  ASSUME NEW q \in Seq(Notice), NEW n \in Notice, NEW v, Brings(n)
  PROVE  ShownIn(Append(q, n), v, Len(Append(q, n)) + 1, AsShown(n.vpn))
<1> DEFINE p == Append(q, n)
<1>1. Len(p) = Len(q) + 1 /\ p[Len(p)] = n /\ Len(p) \in 1 .. Len(p) + 1 - 1
  OBVIOUS
<1>2. \A k \in Len(p) + 1 .. Len(p) + 1 - 1 : FALSE
  BY <1>1
<1> HIDE DEF p
<1>3. Brings(p[Len(p)]) /\ AsShown(p[Len(p)].vpn) = AsShown(n.vpn)
  BY <1>1, Zenon
<1>4. ShownIn(p, v, Len(p) + 1, AsShown(n.vpn))
  BY <1>1, <1>2, <1>3 DEF ShownIn
<1> QED BY <1>4 DEF p

\* ... and changes nothing if it does not
LEMMA AppendSilent ==
  ASSUME NEW q \in Seq(Notice), NEW n \in Notice, NEW v, NEW s, ~Brings(n),
         ShownIn(q, v, Len(q) + 1, s)
  PROVE  ShownIn(Append(q, n), v, Len(Append(q, n)) + 1, s)
<1> DEFINE p == Append(q, n)
<1>1. Len(p) = Len(q) + 1 /\ p[Len(p)] = n
  OBVIOUS
<1>2. \A k \in 1 .. Len(q) + 1 - 1 : p[k] = q[k] /\ k \in 1 .. Len(p) + 1 - 1
  BY <1>1
<1>3. \A k \in 1 .. Len(p) + 1 - 1 : k \in 1 .. Len(q) + 1 - 1 \/ k = Len(p)
  BY <1>1
<1>4. \A j \in 1 .. Len(q) + 1 - 1 : \A k \in j + 1 .. Len(p) + 1 - 1 :
        k \in j + 1 .. Len(q) + 1 - 1 \/ k = Len(p)
  BY <1>1
<1>5. \A j \in 1 .. Len(q) + 1 - 1 : \A k \in j + 1 .. Len(q) + 1 - 1 : k \in 1 .. Len(q) + 1 - 1
  OBVIOUS
<1> HIDE DEF p
<1>6. CASE v = s /\ \A k \in 1 .. Len(q) + 1 - 1 : ~Brings(q[k])
  <2>1. \A k \in 1 .. Len(p) + 1 - 1 : ~Brings(p[k])
    BY <1>1, <1>2, <1>3, <1>6, Zenon
  <2>2. ShownIn(p, v, Len(p) + 1, s)
    BY <1>6, <2>1 DEF ShownIn
  <2> QED BY <2>2 DEF p
<1>7. ASSUME NEW j \in 1 .. Len(q) + 1 - 1, Brings(q[j]), AsShown(q[j].vpn) = s,
             \A k \in j + 1 .. Len(q) + 1 - 1 : ~Brings(q[k])
      PROVE  ShownIn(Append(q, n), v, Len(Append(q, n)) + 1, s)
  <2>1. j \in 1 .. Len(p) + 1 - 1 /\ Brings(p[j]) /\ AsShown(p[j].vpn) = s
    BY <1>2, <1>7, Zenon
  <2>2. \A k \in j + 1 .. Len(p) + 1 - 1 : ~Brings(p[k])
    BY <1>1, <1>2, <1>4, <1>5, <1>7, Zenon
  <2>3. ShownIn(p, v, Len(p) + 1, s)
    BY <2>1, <2>2 DEF ShownIn
  <2> QED BY <2>3 DEF p
<1> QED BY <1>6, <1>7 DEF ShownIn

\* Handling the first notice changes nothing for the later ones
LEMMA TailShown ==
  ASSUME NEW q \in Seq(Notice), q # <<>>, NEW v, NEW s, NEW i \in 1 .. Len(q),
         ShownIn(q, v, i + 1, s)
  PROVE  ShownIn(Tail(q), IF Brings(q[1]) THEN AsShown(q[1].vpn) ELSE v, i, s)
<1> DEFINE p == Tail(q)
           w == IF Brings(q[1]) THEN AsShown(q[1].vpn) ELSE v
<1>1. \A k \in 1 .. i - 1 : k + 1 \in 2 .. i + 1 - 1 /\ p[k] = q[k + 1]
  OBVIOUS
<1>2. ASSUME NEW j \in 1 .. i + 1 - 1, Brings(q[j]), AsShown(q[j].vpn) = s,
             \A k \in j + 1 .. i + 1 - 1 : ~Brings(q[k])
      PROVE  ShownIn(p, w, i, s)
  <2>1. CASE j = 1
    <3>1. w = s
      BY <1>2, <2>1, Zenon
    <3>2. \A k \in 1 .. i - 1 : k + 1 \in j + 1 .. i + 1 - 1
      BY <2>1
    <3>3. \A k \in 1 .. i - 1 : ~Brings(p[k])
      BY <1>1, <1>2, <3>2, Zenon
    <3> QED BY <3>1, <3>3, Zenon DEF ShownIn
  <2>2. CASE j # 1
    <3>1. j - 1 \in 1 .. i - 1 /\ p[j - 1] = q[j]
      BY <1>1, <2>2
    <3>2. \A k \in (j - 1) + 1 .. i - 1 : k \in 1 .. i - 1 /\ k + 1 \in j + 1 .. i + 1 - 1
      BY <2>2
    <3>3. Brings(p[j - 1]) /\ AsShown(p[j - 1].vpn) = s
      BY <1>2, <3>1, Zenon
    <3>4. \A k \in (j - 1) + 1 .. i - 1 : ~Brings(p[k])
      BY <1>1, <1>2, <3>2, Zenon
    <3> HIDE DEF p, w
    <3> QED BY <3>1, <3>3, <3>4 DEF ShownIn
  <2> QED BY <2>1, <2>2
<1>3. CASE v = s /\ \A k \in 1 .. i + 1 - 1 : ~Brings(q[k])
  <2>1. 1 \in 1 .. i + 1 - 1 /\ \A k \in 1 .. i - 1 : k + 1 \in 1 .. i + 1 - 1
    OBVIOUS
  <2>2. w = s
    BY <1>3, <2>1, Zenon
  <2>3. \A k \in 1 .. i - 1 : ~Brings(p[k])
    BY <1>1, <1>3, <2>1, Zenon
  <2> QED BY <2>2, <2>3, Zenon DEF ShownIn
<1> QED BY <1>2, <1>3 DEF ShownIn

\* What a step does to the notices: it leaves them alone, handles the first, ...
NoticesKept == UNCHANGED <<notices, svc, link, drops, exited>> /\ d'.vpn = d.vpn

NoticeHandled ==
  /\ notices # <<>> /\ notices' = Tail(notices) /\ UNCHANGED <<svc, link, drops, exited>>
  /\ d'.vpn = IF Brings(Head(notices)) THEN AsShown(Head(notices).vpn) ELSE d.vpn

\* ... or announces what gpservice does
Announced(n) ==
  /\ UNCHANGED <<d, link, drops, exited>>
  /\ IF link THEN notices' = Append(notices, n) ELSE UNCHANGED notices
  /\ \/ n.kind \in {"resume", "rejected"} /\ svc' = svc
     \/ /\ n.kind = "state" /\ n.vpn = svc'.vpn
        /\ n.vpn = "Disconnecting" => svc.vpn \in {"Connecting", "Connected"}

LEMMA MoveAnnounces ==
  ASSUME TypeOK, NEW s \in VpnStates \cup {"Failed"}, MoveTo(s), UNCHANGED <<d, link, drops, exited>>,
         s = "Disconnecting" => svc.vpn \in {"Connecting", "Connected"}
  PROVE  \E n \in Notice : Announced(n)
<1> DEFINE n == [kind |-> "state", vpn |-> s, attempt |-> svc.attempt]
<1>1. svc'.vpn = s /\ svc.attempt \in 0 .. MaxAttempts
  BY Zenon DEF MoveTo, TypeOK
<1>2. n \in Notice /\ n.kind = "state" /\ n.vpn = s
  BY <1>1, StateNotice, Zenon
<1>3. IF link THEN notices' = Append(notices, n) ELSE UNCHANGED notices
  BY Zenon DEF MoveTo, Announce
<1> HIDE DEF n
<1> QED BY <1>1, <1>2, <1>3, Zenon DEF Announced

LEMMA NoticeFrame ==
  ASSUME TypeOK, [Next]_vars
  PROVE  \/ NoticesKept \/ NoticeHandled \/ (\E n \in Notice : Announced(n))
         \/ LinkLost \/ LinkBack \/ ProcessEnds
<1> DEFINE Goal == \/ NoticesKept \/ NoticeHandled \/ (\E n \in Notice : Announced(n))
                   \/ LinkLost \/ LinkBack \/ ProcessEnds
<1> SUFFICES Goal OBVIOUS
<1> USE DEF service, channels
<1>1. CASE Commands
  <2>1. CASE CommandConnect
    BY <2>1, StartFacts, Zenon DEF CommandConnect, NoticesKept, TypeOK
  <2>2. CASE CommandDisconnect
    BY <2>2, Zenon DEF CommandDisconnect, Disconnect, CancelFlow, NoticesKept, TypeOK, Daemon
  <2>3. CASE CommandSubmitOtp
    BY <2>3, Zenon DEF CommandSubmitOtp, NoticesKept, TypeOK, Daemon
  <2>4. CASE CommandQuit
    BY <2>4, Zenon DEF CommandQuit, NoticesKept, TypeOK, Daemon
  <2> HIDE DEF Goal
  <2> QED BY <1>1, <2>1, <2>2, <2>3, <2>4, Zenon DEF Commands, CommandToggle
<1>2. CASE Notified
  <2> DEFINE n == Head(notices)
  <2>0. notices # <<>> => n \in Notice /\ (Brings(n) => n.vpn \in VpnStates \cup {"Failed"})
    BY TailFacts, NoticeFacts, Zenon DEF TypeOK
  <2> HIDE DEF n
  <2>1. CASE HandleVpnEnv
    <3> DEFINE r == [ApplyVpnState(d, n.vpn) EXCEPT !.env = TRUE]
    <3>1. /\ notices # <<>> /\ n.kind = "env" /\ notices' = Tail(notices)
          /\ StartConnectFlow(r) \/ (d' = r /\ UNCHANGED flows)
      BY <2>1, Zenon DEF HandleVpnEnv, TakeNotice, n
    <3>2. ApplyVpnState(d, n.vpn) \in Daemon /\ ApplyVpnState(d, n.vpn).vpn = AsShown(n.vpn)
      BY <2>0, <3>1, ApplyFacts, Zenon DEF TypeOK, Brings
    <3>3. r \in Daemon /\ r.vpn = AsShown(n.vpn)
      BY <3>2, Zenon DEF Daemon
    <3> HIDE DEF r
    <3>4. d'.vpn = AsShown(n.vpn)
      BY <3>1, <3>3, StartFacts, Zenon
    <3> QED BY <2>1, <3>1, <3>4, Zenon DEF HandleVpnEnv, NoticeHandled, Brings, n
  <2>2. CASE HandleProgress
    <3>1. notices # <<>> /\ n.kind = "state" /\ notices' = Tail(notices)
          /\ d' = ApplyVpnState(Progressing(d), n.vpn)
      BY <2>2, Zenon DEF HandleProgress, TakeNotice, n
    <3>2. d'.vpn = AsShown(n.vpn)
      BY <2>0, <3>1, ApplyFacts, ProgressFacts, Zenon DEF TypeOK, Brings
    <3> QED BY <2>2, <3>1, <3>2, Zenon DEF HandleProgress, NoticeHandled, Brings, n
  <2>3. CASE HandleReconnectRequired
    <3> DEFINE r == ApplyVpnState(Progressing(d), "ReconnectRequired")
    <3>1. /\ notices # <<>> /\ n.kind = "state" /\ n.vpn = "ReconnectRequired" /\ notices' = Tail(notices)
          /\ RestartSubmitted(r, n.attempt)
      BY <2>3, Zenon DEF HandleReconnectRequired, TakeNotice, n
    <3>2. r \in Daemon /\ r.vpn = AsShown(n.vpn)
      <4>1. Progressing(d) \in Daemon /\ "ReconnectRequired" \in VpnStates \cup {"Failed"}
        BY ProgressFacts, Zenon DEF TypeOK, VpnStates
      <4>2. r \in Daemon /\ r.vpn = AsShown("ReconnectRequired")
        BY <4>1, ApplyFacts, Zenon
      <4> QED BY <3>1, <4>2, Zenon
    <3> HIDE DEF r
    <3>3. d'.vpn = AsShown(n.vpn)
      BY <3>1, <3>2, Zenon DEF RestartSubmitted, Daemon
    <3> QED BY <2>3, <3>1, <3>3, Zenon DEF HandleReconnectRequired, NoticeHandled, Brings, n
  <2>4. CASE HandleEnded /\ ~ProcessEnds
    <3>1. /\ notices # <<>> /\ n.kind = "state" /\ notices' = Tail(notices)
          /\ d' = [ApplyVpnState(d, n.vpn) EXCEPT !.disconnectRequested = FALSE]
          /\ UNCHANGED <<svc, link, drops, exited>>
      BY <2>4, Zenon DEF HandleEnded, n
    <3>2. ApplyVpnState(d, n.vpn) \in Daemon /\ ApplyVpnState(d, n.vpn).vpn = AsShown(n.vpn)
      BY <2>0, <3>1, ApplyFacts, Zenon DEF TypeOK, Brings
    <3>3. d'.vpn = AsShown(n.vpn)
      BY <3>1, <3>2, Zenon DEF Daemon
    <3> QED BY <3>1, <3>3, Zenon DEF NoticeHandled, Brings, n
  <2>5. CASE HandleDisconnecting
    <3>1. /\ notices # <<>> /\ n.kind = "state" /\ n.vpn = "Disconnecting" /\ notices' = Tail(notices)
          /\ d' = ApplyVpnState(d, "Disconnecting")
      BY <2>5, Zenon DEF HandleDisconnecting, TakeNotice, n
    <3>2. d'.vpn = AsShown(n.vpn)
      BY <3>1, ApplyFacts, Zenon DEF TypeOK, VpnStates
    <3> QED BY <2>5, <3>1, <3>2, Zenon DEF HandleDisconnecting, NoticeHandled, Brings, n
  <2>6. CASE HandleResume
    <3>1. notices # <<>> /\ n.kind = "resume" /\ notices' = Tail(notices)
          /\ (StartConnectFlow(d) \/ UNCHANGED d)
      BY <2>6, Zenon DEF HandleResume, TakeNotice, n
    <3>2. d'.vpn = d.vpn
      BY <3>1, StartFacts, Zenon DEF TypeOK
    <3> QED BY <2>6, <3>1, <3>2, Zenon DEF HandleResume, NoticeHandled, Brings, n
  <2>7. CASE HandleRejection
    <3>1. notices # <<>> /\ n.kind = "rejected" /\ notices' = Tail(notices) /\ d'.vpn = d.vpn
      BY <2>7, Zenon DEF HandleRejection, TakeNotice, n, TypeOK, Daemon
    <3> QED BY <2>7, <3>1, Zenon DEF HandleRejection, NoticeHandled, Brings, n
  <2> QED BY <1>2, <2>1, <2>2, <2>3, <2>4, <2>5, <2>6, <2>7, Zenon DEF Notified
<1>3. CASE FlowMessages
  BY <1>3, Zenon DEF FlowMessages, HandleOtpPrompt, HandleSubmitted, HandleFailed, NoticesKept, TypeOK, Daemon
<1>4. CASE TimerFires
  BY <1>4, Zenon DEF TimerFires, HandleWatchdog, HandleQuitTimeout, NoticesKept, TypeOK, Daemon
<1>5. CASE FlowSteps
  BY <1>5, Zenon DEF FlowSteps, FlowPrompt, FlowAuthenticated, FlowEnds, FlowCancelled, FlowFails,
     FlowSendConnect, FlowSubmitted, FlowUnchanged, NoticesKept
<1>6. CASE ServiceTakes
  <2> DEFINE q == Head(requests)
  <2>0. UNCHANGED <<d, link, drops, exited>> /\ link
    BY <1>6, Zenon DEF ServiceTakes, ServiceUnchanged
  <2>1. ASSUME svc' = [vpn |-> "Connecting", attempt |-> svc.attempt + 1, flow |-> q.flow],
               Announce([kind |-> "state", vpn |-> "Connecting", attempt |-> svc'.attempt])
        PROVE  Goal
    <3> DEFINE n == [kind |-> "state", vpn |-> "Connecting", attempt |-> svc'.attempt]
    <3>1. svc'.attempt \in 0 .. MaxAttempts /\ svc'.vpn = "Connecting"
      BY <1>6, <2>1, ServiceTypes, Zenon DEF ServiceSteps, TypeOK
    <3>2. n \in Notice /\ n.kind = "state" /\ n.vpn = "Connecting" /\ notices' = Append(notices, n)
      BY <2>0, <2>1, <3>1, StateNotice, Zenon DEF VpnStates, Announce
    <3> HIDE DEF n
    <3> QED BY <2>0, <3>1, <3>2, Zenon DEF Announced
  <2>2. ASSUME Announce([kind |-> "rejected"]), UNCHANGED svc PROVE Goal
    <3> DEFINE n == [kind |-> "rejected"]
    <3>1. n \in Notice /\ n.kind = "rejected" /\ notices' = Append(notices, n)
      BY <2>0, <2>2, Zenon DEF Notice, Announce
    <3> HIDE DEF n
    <3> QED BY <2>0, <2>2, <3>1, Zenon DEF Announced
  <2>3. ASSUME svc.vpn \in {"Connecting", "Connected"}, MoveTo("Disconnecting") PROVE Goal
    BY <2>0, <2>3, MoveAnnounces, Zenon DEF VpnStates
  <2>4. ASSUME MoveTo("Disconnected") PROVE Goal
    BY <2>0, <2>4, MoveAnnounces, Zenon DEF VpnStates
  <2>5. ASSUME UNCHANGED <<svc, notices>> PROVE Goal
    BY <2>0, <2>5, Zenon DEF NoticesKept
  <2> HIDE DEF Goal
  <2> QED BY <1>6, <2>1, <2>2, <2>3, <2>4, <2>5, Zenon DEF ServiceTakes
<1>7. CASE ServiceMoves
  <2>1. UNCHANGED <<d, link, drops, exited>>
    BY <1>7, Zenon DEF ServiceMoves, ServiceUnchanged
  <2>2. PICK s \in (VpnStates \cup {"Failed"}) \ {"Disconnecting"} : MoveTo(s)
    BY <1>7, Zenon DEF ServiceMoves, VpnStates
  <2> QED BY <2>1, <2>2, MoveAnnounces, Zenon
<1>8. CASE ServiceResumes
  <2> DEFINE n == [kind |-> "resume"]
  <2>1. /\ n \in Notice /\ n.kind = "resume" /\ notices' = Append(notices, n)
        /\ UNCHANGED <<d, link, drops, exited, svc>> /\ link
    BY <1>8, Zenon DEF Notice, Announce, ServiceResumes, ServiceUnchanged
  <2> HIDE DEF n
  <2> QED BY <2>1, Zenon DEF Announced
<1>9. ASSUME NEW q \in spawned, SpawnedSend(q) PROVE Goal
  BY <1>9, Zenon DEF SpawnedSend, NoticesKept
<1>10. CASE UNCHANGED vars
  BY <1>10, Zenon DEF vars, NoticesKept
<1> HIDE DEF Goal
<1>11. CASE ServiceSteps
  BY <1>6, <1>7, <1>8, <1>11, Zenon DEF ServiceSteps, Goal
<1>12. CASE Terminate
  BY <1>12, Zenon DEF Terminate, Goal
<1> QED BY <1>1, <1>2, <1>3, <1>4, <1>5, <1>9, <1>10, <1>11, <1>12, Zenon DEF Next

Follows(q, v) ==
  \A i \in 1 .. Len(q) : q[i].kind = "state" /\ q[i].vpn = "Disconnecting" =>
    \E s \in VpnStates \ {"Disconnected"} : ShownIn(q, v, i, s)

LEMMA FollowsAppend ==
  ASSUME NEW q \in Seq(Notice), NEW v, NEW n \in Notice, Follows(q, v),
         n.kind = "state" /\ n.vpn = "Disconnecting" =>
           \E s \in VpnStates \ {"Disconnected"} : ShownIn(q, v, Len(q) + 1, s)
  PROVE  Follows(Append(q, n), v)
<1> DEFINE p == Append(q, n)
<1> SUFFICES ASSUME NEW i \in 1 .. Len(p), p[i].kind = "state", p[i].vpn = "Disconnecting"
             PROVE  \E s \in VpnStates \ {"Disconnected"} : ShownIn(p, v, i, s)
  BY Zenon DEF Follows
<1>1. \/ i \in 1 .. Len(q) /\ p[i] = q[i]
      \/ i = Len(q) + 1 /\ p[i] = n
  OBVIOUS
<1>2. i \in Nat /\ \A k \in 1 .. i - 1 : p[k] = q[k]
  OBVIOUS
<1> HIDE DEF p
<1>3. PICK s \in VpnStates \ {"Disconnected"} : ShownIn(q, v, i, s)
  BY <1>1, Zenon DEF Follows
<1> QED BY <1>2, <1>3, PrefixShown, Zenon

LEMMA FollowsTail ==
  ASSUME NEW q \in Seq(Notice), NEW v, q # <<>>, Follows(q, v)
  PROVE  Follows(Tail(q), IF Brings(q[1]) THEN AsShown(q[1].vpn) ELSE v)
<1> DEFINE p == Tail(q)
           w == IF Brings(q[1]) THEN AsShown(q[1].vpn) ELSE v
<1>1. \A i \in 1 .. Len(p) : p[i] = q[i + 1] /\ i + 1 \in 1 .. Len(q) /\ i \in 1 .. Len(q)
  OBVIOUS
<1> HIDE DEF p
<1> SUFFICES ASSUME NEW i \in 1 .. Len(p), p[i].kind = "state", p[i].vpn = "Disconnecting"
             PROVE  \E s \in VpnStates \ {"Disconnected"} : ShownIn(p, w, i, s)
  BY Zenon DEF Follows, p
<1>2. PICK s \in VpnStates \ {"Disconnected"} : ShownIn(q, v, i + 1, s)
  BY <1>1, Zenon DEF Follows
<1> QED BY <1>1, <1>2, TailShown, Zenon DEF p

LEMMA FollowsPrefix ==
  ASSUME NEW q \in Seq(Notice), NEW v, NEW m \in 0 .. Len(q), Follows(q, v)
  PROVE  Follows(SubSeq(q, 1, m), v)
<1> DEFINE p == SubSeq(q, 1, m)
<1>1. \A i \in 1 .. Len(p) : i \in 1 .. Len(q) /\ i \in Nat /\ p[i] = q[i] /\ \A k \in 1 .. i - 1 : p[k] = q[k]
  OBVIOUS
<1> HIDE DEF p
<1>2. ASSUME NEW i \in 1 .. Len(p), p[i].kind = "state", p[i].vpn = "Disconnecting"
      PROVE  \E s \in VpnStates \ {"Disconnected"} : ShownIn(p, v, i, s)
  BY <1>1, <1>2, PrefixShown, Zenon DEF Follows
<1> QED BY <1>2, Zenon DEF Follows, p

NoticesInv == ShowsService /\ DisconnectingFollows /\ FirstEnv

\* What is shown follows gpservice through every step
LEMMA NoticesStep ==
  ASSUME TypeOK, TypeOK', NoticesInv, [Next]_vars
  PROVE  NoticesInv'
<1> USE DEF NoticesInv
<1>1. notices \in Seq(Notice) /\ Len(notices) \in Nat /\ d \in Daemon
  BY DEF TypeOK
<1>2. (link => ShownIn(notices, d.vpn, Len(notices) + 1, AsShown(svc.vpn))) /\ Follows(notices, d.vpn)
  BY Zenon DEF ShowsService, DisconnectingFollows, Shown, ShownIn, Follows
<1>3. ASSUME link' => ShownIn(notices', d'.vpn, Len(notices') + 1, AsShown(svc'.vpn)),
             Follows(notices', d'.vpn), FirstEnv'
      PROVE  NoticesInv'
  BY <1>3, Zenon DEF ShowsService, DisconnectingFollows, Shown, ShownIn, Follows
<1>4. CASE NoticesKept
  <2>1. UNCHANGED <<notices, svc, link, drops, exited>> /\ d'.vpn = d.vpn
    BY <1>4, Zenon DEF NoticesKept
  <2> QED BY <1>2, <1>3, <2>1, Zenon DEF FirstEnv
<1>5. CASE NoticeHandled
  <2>1. /\ notices # <<>> /\ notices' = Tail(notices) /\ UNCHANGED <<svc, link, drops, exited>>
        /\ d'.vpn = IF Brings(notices[1]) THEN AsShown(notices[1].vpn) ELSE d.vpn
    <3>1. notices # <<>> => Head(notices) = notices[1]
      BY <1>1
    <3> QED BY <1>5, <3>1, Zenon DEF NoticeHandled
  <2>2. Follows(notices', d'.vpn)
    BY <1>1, <1>2, <2>1, FollowsTail, Zenon
  <2>3. Len(notices) \in 1 .. Len(notices) /\ Len(Tail(notices)) + 1 = Len(notices)
    BY <1>1, <2>1
  <2>4. link => ShownIn(notices', d'.vpn, Len(notices), AsShown(svc.vpn))
    BY <1>1, <1>2, <2>1, <2>3, TailShown, Zenon
  <2>5. FirstEnv'
    <3>1. \A i \in 1 .. Len(Tail(notices)) :
            Tail(notices)[i] = notices[i + 1] /\ i + 1 \in 1 .. Len(notices) /\ i + 1 # 1
      BY <1>1, <2>1
    <3> QED BY <2>1, <3>1, Zenon DEF FirstEnv
  <2> QED BY <1>3, <2>1, <2>2, <2>3, <2>4, <2>5, Zenon
<1>6. ASSUME NEW n \in Notice, Announced(n) PROVE NoticesInv'
  <2>1. UNCHANGED <<d, link, drops, exited>>
    BY <1>6, Zenon DEF Announced
  <2>2. CASE ~link
    <3>1. UNCHANGED notices
      BY <1>6, <2>2 DEF Announced
    <3>2. ~link' /\ d' = d
      BY <2>1, <2>2, Zenon
    <3>3. Follows(notices', d'.vpn) /\ FirstEnv'
      BY <1>2, <2>1, <3>1, <3>2, Zenon DEF FirstEnv
    <3> QED BY <1>3, <3>2, <3>3, Zenon
  <2>3. CASE link
    <3>1. notices' = Append(notices, n)
      BY <1>6, <2>3, Zenon DEF Announced
    <3>2. n.kind \in {"state", "resume", "rejected"}
      BY <1>6, Zenon DEF Announced
    <3>5. FirstEnv'
      <4>1. \A i \in 1 .. Len(Append(notices, n)) :
              \/ i \in 1 .. Len(notices) /\ Append(notices, n)[i] = notices[i]
              \/ Append(notices, n)[i] = n
        BY <1>1
      <4> QED BY <2>1, <3>1, <3>2, <4>1, Zenon DEF FirstEnv
    <3>3. CASE n.kind = "state" /\ n.vpn = svc'.vpn
      <4>1. ShownIn(notices', d.vpn, Len(notices') + 1, AsShown(svc'.vpn))
        <5>1. Brings(n)
          BY <3>3, Zenon DEF Brings
        <5>2. ShownIn(Append(notices, n), d.vpn, Len(Append(notices, n)) + 1, AsShown(n.vpn))
          BY <1>1, <5>1, AppendShown, Zenon
        <5> QED BY <3>1, <3>3, <5>2, Zenon
      <4>2. ASSUME n.vpn = "Disconnecting"
            PROVE  \E s \in VpnStates \ {"Disconnected"} : ShownIn(notices, d.vpn, Len(notices) + 1, s)
        <5>1. svc.vpn \in {"Connecting", "Connected"}
          BY <1>6, <3>3, <4>2, Zenon DEF Announced
        <5>2. AsShown(svc.vpn) \in VpnStates \ {"Disconnected"}
          BY <5>1, Zenon DEF AsShown, VpnStates
        <5> QED BY <1>2, <2>3, <5>2, Zenon
      <4>3. Follows(notices', d.vpn)
        BY <1>1, <1>2, <3>1, <4>2, FollowsAppend, Zenon
      <4> QED BY <1>3, <2>1, <3>5, <4>1, <4>3, Zenon
    <3>4. CASE n.kind \in {"resume", "rejected"} /\ svc' = svc
      <4>1. ShownIn(notices', d.vpn, Len(notices') + 1, AsShown(svc'.vpn))
        BY <1>1, <1>2, <2>3, <3>1, <3>4, AppendSilent, Zenon DEF Brings
      <4>2. Follows(notices', d.vpn)
        BY <1>1, <1>2, <3>1, <3>4, FollowsAppend, Zenon
      <4> QED BY <1>3, <2>1, <3>5, <4>1, <4>2, Zenon
    <3> QED BY <1>6, <3>3, <3>4, Zenon DEF Announced
  <2> QED BY <2>2, <2>3
<1>7. CASE LinkLost
  <2>1. PICK m \in 0 .. Len(notices) : notices' = SubSeq(notices, 1, m)
    BY <1>7, Zenon DEF LinkLost
  <2>2. ~link' /\ d' = d /\ drops' # 0
    BY <1>7 DEF LinkLost, TypeOK
  <2>3. Follows(notices', d'.vpn)
    BY <1>1, <1>2, <2>1, <2>2, FollowsPrefix, Zenon
  <2> QED BY <1>3, <2>2, <2>3, Zenon DEF FirstEnv
<1>8. CASE LinkBack
  <2> DEFINE n == [kind |-> "env", vpn |-> svc.vpn, attempt |-> svc.attempt]
  <2>1. /\ ~link /\ UNCHANGED <<d, svc, drops, exited>> /\ notices' = Append(notices, n)
    BY <1>8, Zenon DEF LinkBack
  <2>2. n.kind = "env" /\ n.vpn = svc.vpn /\ n \in Notice
    <3>1. svc.vpn \in VpnStates \cup {"Failed"} /\ svc.attempt \in 0 .. MaxAttempts
      BY Zenon DEF TypeOK
    <3> QED BY <3>1, Zenon DEF Notice
  <2> HIDE DEF n
  <2>3. ShownIn(notices', d.vpn, Len(notices') + 1, AsShown(svc.vpn))
    <3>1. Brings(n)
      BY <2>2, Zenon DEF Brings
    <3>2. ShownIn(Append(notices, n), d.vpn, Len(Append(notices, n)) + 1, AsShown(n.vpn))
      BY <1>1, <2>2, <3>1, AppendShown, Zenon
    <3> QED BY <2>1, <2>2, <3>2, Zenon
  <2>4. Follows(notices', d.vpn)
    BY <1>1, <1>2, <2>1, <2>2, FollowsAppend, Zenon
  <2>5. FirstEnv'
    BY <2>1, Zenon DEF FirstEnv
  <2> QED BY <1>3, <2>1, <2>3, <2>4, <2>5, Zenon
<1>9. CASE ProcessEnds
  <2>1. ~link' /\ exited' /\ notices' = <<>>
    BY <1>9, Zenon DEF ProcessEnds
  <2>2. \A i \in 1 .. Len(notices') : FALSE
    BY <2>1
  <2> QED BY <1>3, <2>1, <2>2, Zenon DEF FirstEnv, Follows
<1> QED BY <1>4, <1>5, <1>6, <1>7, <1>8, <1>9, NoticeFrame, Zenon
-----------------------------------------------------------------------------
(* The disconnect that was asked for *)

LEMMA QueuedAppend ==
  ASSUME NEW T, NEW q \in Seq(T), NEW e \in T, NEW S, Queued(S, q) \/ e \in S
  PROVE  Queued(S, Append(q, e))
<1>1. CASE Queued(S, q)
  <2>1. PICK i \in 1 .. Len(q) : q[i] \in S
    BY <1>1, Zenon DEF Queued
  <2>2. i \in 1 .. Len(Append(q, e)) /\ Append(q, e)[i] = q[i]
    OBVIOUS
  <2> QED BY <2>1, <2>2, Zenon DEF Queued
<1>2. CASE e \in S
  <2>1. Len(q) + 1 \in 1 .. Len(Append(q, e)) /\ Append(q, e)[Len(q) + 1] = e
    OBVIOUS
  <2> QED BY <1>2, <2>1, Zenon DEF Queued
<1> QED BY <1>1, <1>2

LEMMA QueuedTail ==
  ASSUME NEW T, NEW q \in Seq(T), q # <<>>, NEW S, Queued(S, q), Head(q) \notin S
  PROVE  Queued(S, Tail(q))
<1>1. PICK i \in 1 .. Len(q) : q[i] \in S
  BY Zenon DEF Queued
<1>2. i # 1
  BY <1>1
<1>3. i - 1 \in 1 .. Len(Tail(q)) /\ Tail(q)[i - 1] = q[i]
  BY <1>2
<1> QED BY <1>1, <1>3, Zenon DEF Queued

Pending ==
  \/ DisconnectRequest \in spawned
  \/ Queued({DisconnectRequest}, requests)
  \/ svc.vpn = "Disconnecting"
  \/ Queued(StateNotices(Idle), notices)

\* An idle gpservice that the daemon does not show yet has announced its end
LEMMA EndIsAnnounced ==
  ASSUME TypeOK, NoticesInv, drops = 0, ~exited, svc.vpn \in Idle, d.vpn # "Disconnected"
  PROVE  Queued(StateNotices(Idle), notices)
<1>1. notices \in Seq(Notice) /\ link
  BY Zenon DEF TypeOK, NoticesInv, FirstEnv
<1>2. Shown(Len(notices) + 1, "Disconnected")
  BY <1>1, Zenon DEF NoticesInv, ShowsService, AsShown, Idle
<1>3. PICK j \in 1 .. Len(notices) + 1 - 1 : Brings(notices[j]) /\ AsShown(notices[j].vpn) = "Disconnected"
  BY <1>2 DEF Shown
<1>4. j \in 1 .. Len(notices) /\ notices[j] \in Notice
  BY <1>1
<1>5. notices[j].kind = "state"
  BY <1>1, <1>3, <1>4, Zenon DEF NoticesInv, FirstEnv, Brings
<1>6. notices[j].vpn \in Idle
  BY <1>3, Zenon DEF AsShown, Idle
<1>7. notices[j] \in StateNotices(Idle)
  BY <1>4, <1>5, <1>6 DEF Notice, StateNotices
<1> QED BY <1>4, <1>7, Zenon DEF Queued

IntentInv == IntentShown /\ IntentIsPending

LEMMA IntentStep ==
  ASSUME TypeOK, TypeOK', NoticesInv, IntentInv, [Next]_vars
  PROVE  IntentInv'
<1> USE DEF service, channels
<1> DEFINE Asked == drops = 0 /\ d.disconnectRequested
<1>1. Asked => d.vpn # "Disconnected" /\ Pending
  BY Zenon DEF IntentInv, IntentShown, IntentIsPending, Pending
<1>2. ASSUME Asked' => d'.vpn # "Disconnected" /\ Pending' PROVE IntentInv'
  BY <1>2, Zenon DEF IntentInv, IntentShown, IntentIsPending, Pending
<1>3. requests \in Seq(Request) /\ notices \in Seq(Notice) /\ spawned \subseteq Request
  BY Zenon DEF TypeOK
<1>4. CASE ProcessEnds
  BY <1>2, <1>4, Zenon DEF ProcessEnds, NewDaemon
<1>5. ASSUME d'.disconnectRequested => d.disconnectRequested, d'.vpn = d.vpn,
             spawned \subseteq spawned', UNCHANGED <<svc, notices, drops>>,
             UNCHANGED requests \/ \E q \in Request : SendRequest(q)
      PROVE  IntentInv'
  <2>1. Queued({DisconnectRequest}, requests) => Queued({DisconnectRequest}, requests')
    BY <1>3, <1>5, QueuedAppend, Zenon DEF SendRequest
  <2>2. Pending => Pending'
    BY <1>5, <2>1, Zenon DEF Pending
  <2> QED BY <1>1, <1>2, <1>5, <2>2, Zenon
<1>6. CASE CommandDisconnect
  <2>1. UNCHANGED <<requests, svc, notices, drops>> /\ Disconnect
    BY <1>6, Zenon DEF CommandDisconnect
  <2>2. CASE d.connectCancel = None /\ d.vpn \in {"Connecting", "Connected", "ReconnectRequired"}
    <3>1. d' = [d EXCEPT !.disconnectRequested = TRUE, !.submitted = None] /\ DisconnectRequest \in spawned'
      BY <2>1, <2>2, Zenon DEF Disconnect
    <3>2. d'.vpn = d.vpn
      BY <3>1, Zenon DEF TypeOK, Daemon
    <3> QED BY <1>2, <2>2, <3>1, <3>2, Zenon DEF Pending
  <2>3. CASE d.connectCancel # None
    <3>1. CancelFlow(d) /\ UNCHANGED spawned
      BY <2>1, <2>3, Zenon DEF Disconnect
    <3>2. d'.vpn = d.vpn /\ d'.disconnectRequested = d.disconnectRequested
      BY <3>1, Zenon DEF CancelFlow, TypeOK, Daemon
    <3> QED BY <1>5, <2>1, <3>1, <3>2, Zenon
  <2>4. CASE d.connectCancel = None /\ d.vpn \notin {"Connecting", "Connected", "ReconnectRequired"}
    BY <1>5, <2>1, <2>4, Zenon DEF Disconnect
  <2> QED BY <2>2, <2>3, <2>4
<1>7. CASE CommandQuit /\ ~ProcessEnds
  <2>1. /\ d.vpn \in {"Connecting", "Connected"}
        /\ d' = [d EXCEPT !.connectCancel = None, !.quitting = TRUE, !.disconnectRequested = TRUE]
        /\ requests' = Append(requests, DisconnectRequest)
    BY <1>7, Zenon DEF CommandQuit, SendRequest
  <2>2. d'.vpn = d.vpn
    BY <2>1, Zenon DEF TypeOK, Daemon
  <2>3. Queued({DisconnectRequest}, requests')
    BY <1>3, <2>1, DisconnectTyped, QueuedAppend, Zenon
  <2> QED BY <1>2, <2>1, <2>2, <2>3, Zenon DEF Pending
<1>8. CASE CommandConnect \/ CommandSubmitOtp
  <2>1. d'.vpn = d.vpn /\ d'.disconnectRequested = d.disconnectRequested
    BY <1>8, StartFacts, Zenon DEF CommandConnect, CommandSubmitOtp, TypeOK, Daemon
  <2> QED BY <1>5, <1>8, <2>1, Zenon DEF CommandConnect, CommandSubmitOtp
<1>9. CASE Commands
  BY <1>4, <1>6, <1>7, <1>8, <1>9, Zenon DEF Commands, CommandToggle
<1>10. CASE FlowMessages \/ TimerFires
  <2>1. ProcessEnds \/ (d'.vpn = d.vpn /\ d'.disconnectRequested = d.disconnectRequested)
    BY <1>10, ZenonT(40) DEF FlowMessages, HandleOtpPrompt, HandleSubmitted, HandleFailed, TimerFires,
       HandleWatchdog, HandleQuitTimeout, TypeOK, Daemon
  <2>2. ProcessEnds \/ UNCHANGED <<spawned, requests, notices, svc, drops>>
    BY <1>10, Zenon DEF FlowMessages, HandleOtpPrompt, HandleSubmitted, HandleFailed, TimerFires,
       HandleWatchdog, HandleQuitTimeout
  <2> QED BY <1>4, <1>5, <2>1, <2>2, Zenon
<1>11. CASE FlowSteps
  <2>1. PICK f \in Flows : FlowPrompt(f) \/ FlowAuthenticated(f) \/ FlowEnds(f)
    BY <1>11, Zenon DEF FlowSteps
  <2>2. UNCHANGED requests \/ SendRequest(ConnectFrom(f))
    BY <2>1, Zenon DEF FlowPrompt, FlowAuthenticated, FlowEnds, FlowCancelled, FlowFails,
       FlowSendConnect, FlowSubmitted
  <2>3. UNCHANGED <<d, spawned, notices, svc, drops>>
    BY <2>1, Zenon DEF FlowPrompt, FlowAuthenticated, FlowEnds, FlowCancelled, FlowFails,
       FlowSendConnect, FlowSubmitted, FlowUnchanged
  <2>4. 0 \in 0 .. MaxAttempts
    BY BoundsAssumption
  <2>5. ConnectFrom(f) \in Request
    BY <2>4, Zenon DEF ConnectFrom, Request
  <2> QED BY <1>5, <2>2, <2>3, <2>5, Zenon
<1>12. ASSUME NEW q \in spawned, SpawnedSend(q) PROVE IntentInv'
  <2>1. /\ UNCHANGED <<d, notices, svc, drops>> /\ spawned' = spawned \ {q}
        /\ requests' = Append(requests, q)
    BY <1>12, Zenon DEF SpawnedSend, SendRequest
  <2>2. DisconnectRequest \in spawned => DisconnectRequest \in spawned' \/ Queued({DisconnectRequest}, requests')
    BY <1>3, <2>1, QueuedAppend, Zenon
  <2>3. Queued({DisconnectRequest}, requests) => Queued({DisconnectRequest}, requests')
    BY <1>3, <2>1, QueuedAppend, Zenon
  <2> QED BY <1>1, <1>2, <2>1, <2>2, <2>3, Zenon DEF Pending
<1>13. CASE UNCHANGED vars
  BY <1>5, <1>13, Zenon DEF vars
<1>14. ASSUME notices # <<>>, notices' = Tail(notices), Head(notices) \notin StateNotices(Idle),
              d'.disconnectRequested => d.disconnectRequested, spawned \subseteq spawned',
              UNCHANGED <<requests, svc, drops>>,
              Asked => d'.vpn # "Disconnected"
       PROVE  IntentInv'
  <2>1. Queued(StateNotices(Idle), notices) => Queued(StateNotices(Idle), notices')
    BY <1>3, <1>14, QueuedTail, Zenon
  <2>2. Pending => Pending'
    BY <1>14, <2>1, Zenon DEF Pending
  <2> QED BY <1>1, <1>2, <1>14, <2>2, Zenon
<1>15. CASE Notified /\ ~exited
  <2> DEFINE n == Head(notices)
  <2>0. /\ notices # <<>> => n \in Notice /\ (Brings(n) => n.vpn \in VpnStates \cup {"Failed"}) /\ n = notices[1]
        /\ notices # <<>> => 1 \in 1 .. Len(notices)
    <3>1. notices # <<>> => n = notices[1] /\ 1 \in 1 .. Len(notices)
      BY <1>3
    <3> QED BY <1>3, <3>1, TailFacts, NoticeFacts, Zenon
  <2>1. n.vpn \notin Idle \/ n.kind # "state" => n \notin StateNotices(Idle)
    BY Zenon DEF StateNotices
  <2> HIDE DEF n
  <2>2. CASE HandleVpnEnv
    <3>1. /\ notices # <<>> /\ n.kind = "env" /\ notices' = Tail(notices)
          /\ UNCHANGED <<spawned, requests, svc, drops>>
      BY <2>2, Zenon DEF HandleVpnEnv, TakeNotice, n
    <3>2. Asked => d.vpn = "Disconnected"
      BY <1>15, <2>0, <3>1, Zenon DEF NoticesInv, FirstEnv
    <3> DEFINE r == [ApplyVpnState(d, n.vpn) EXCEPT !.env = TRUE]
    <3>3. StartConnectFlow(r) \/ (d' = r /\ UNCHANGED flows)
      BY <2>2, Zenon DEF HandleVpnEnv, n
    <3>4. ApplyVpnState(d, n.vpn) \in Daemon
          /\ ApplyVpnState(d, n.vpn).disconnectRequested = d.disconnectRequested
      BY <2>0, <3>1, ApplyFacts, Zenon DEF TypeOK, Brings
    <3>5. r \in Daemon /\ r.disconnectRequested = d.disconnectRequested
      BY <3>4, Zenon DEF Daemon
    <3> HIDE DEF r
    <3>6. d'.disconnectRequested = d.disconnectRequested
      BY <3>3, <3>5, StartFacts, Zenon
    <3> QED BY <1>1, <1>2, <3>1, <3>2, <3>6, Zenon
  <2>3. CASE HandleProgress
    <3>1. /\ notices # <<>> /\ n.kind = "state" /\ n.vpn \in {"Connecting", "Connected"}
          /\ notices' = Tail(notices) /\ d' = ApplyVpnState(Progressing(d), n.vpn)
          /\ UNCHANGED <<spawned, requests, svc, drops>>
      BY <2>3, Zenon DEF HandleProgress, TakeNotice, n
    <3>2. d'.vpn = AsShown(n.vpn) /\ d'.disconnectRequested = d.disconnectRequested
      <4>1. /\ Progressing(d) \in Daemon /\ n.vpn \in VpnStates \cup {"Failed"}
            /\ Progressing(d).disconnectRequested = d.disconnectRequested
        BY <2>0, <3>1, ProgressFacts, Zenon DEF TypeOK, Brings
      <4> QED BY <3>1, <4>1, ApplyFacts, Zenon
    <3>3. n.vpn \notin Idle /\ d'.vpn # "Disconnected"
      BY <3>1, <3>2, Zenon DEF AsShown, Idle
    <3> QED BY <1>14, <2>1, <3>1, <3>2, <3>3, Zenon DEF n
  <2>4. CASE HandleReconnectRequired
    <3> DEFINE r == ApplyVpnState(Progressing(d), "ReconnectRequired")
    <3>1. /\ notices # <<>> /\ n.kind = "state" /\ n.vpn = "ReconnectRequired"
          /\ notices' = Tail(notices) /\ RestartSubmitted(r, n.attempt)
          /\ UNCHANGED <<requests, svc, drops>>
      BY <2>4, Zenon DEF HandleReconnectRequired, TakeNotice, n
    <3>2. /\ r \in Daemon /\ r.vpn = AsShown("ReconnectRequired")
          /\ r.disconnectRequested = d.disconnectRequested
      <4>1. /\ Progressing(d) \in Daemon /\ "ReconnectRequired" \in VpnStates \cup {"Failed"}
            /\ Progressing(d).disconnectRequested = d.disconnectRequested
        BY ProgressFacts, Zenon DEF TypeOK, VpnStates
      <4> QED BY <4>1, ApplyFacts, Zenon
    <3> HIDE DEF r
    <3>3. /\ d'.vpn = r.vpn /\ d'.disconnectRequested = r.disconnectRequested
          /\ spawned \subseteq spawned'
      BY <3>1, <3>2, Zenon DEF RestartSubmitted, Daemon
    <3>4. n.vpn \notin Idle /\ d'.vpn # "Disconnected"
      BY <3>1, <3>2, <3>3, Zenon DEF AsShown, Idle
    <3> QED BY <1>14, <2>1, <3>1, <3>2, <3>3, <3>4, Zenon DEF n
  <2>5. CASE HandleEnded /\ ~ProcessEnds
    <3>1. /\ notices # <<>> /\ n.kind = "state"
          /\ d' = [ApplyVpnState(d, n.vpn) EXCEPT !.disconnectRequested = FALSE]
      BY <2>5, Zenon DEF HandleEnded, n
    <3>2. ApplyVpnState(d, n.vpn) \in Daemon
      BY <2>0, <3>1, ApplyFacts, Zenon DEF TypeOK, Brings
    <3>3. ~d'.disconnectRequested
      BY <3>1, <3>2, Zenon DEF Daemon
    <3> QED BY <1>2, <3>3, Zenon
  <2>6. CASE HandleDisconnecting
    <3>1. /\ notices # <<>> /\ n.vpn = "Disconnecting" /\ notices' = Tail(notices)
          /\ d' = ApplyVpnState(d, "Disconnecting") /\ UNCHANGED <<spawned, requests, svc, drops>>
      BY <2>6, Zenon DEF HandleDisconnecting, TakeNotice, n
    <3>2. d'.vpn = AsShown("Disconnecting") /\ d'.disconnectRequested = d.disconnectRequested
      BY <3>1, ApplyFacts, Zenon DEF TypeOK, VpnStates
    <3>3. n.vpn \notin Idle /\ d'.vpn # "Disconnected"
      BY <3>1, <3>2, Zenon DEF AsShown, Idle
    <3> QED BY <1>14, <2>1, <3>1, <3>2, <3>3, Zenon DEF n
  <2>7. CASE HandleResume \/ HandleRejection
    <3>1. /\ notices # <<>> /\ n.kind # "state" /\ notices' = Tail(notices)
          /\ UNCHANGED <<spawned, requests, svc, drops>>
      BY <2>7, Zenon DEF HandleResume, HandleRejection, TakeNotice, n
    <3>2. d'.vpn = d.vpn /\ d'.disconnectRequested = d.disconnectRequested
      BY <2>7, StartFacts, ZenonT(40) DEF HandleResume, HandleRejection, TypeOK, Daemon
    <3> QED BY <1>1, <1>14, <2>1, <3>1, <3>2, Zenon DEF n
  <2> QED BY <1>4, <1>15, <2>2, <2>3, <2>4, <2>5, <2>6, <2>7, Zenon DEF Notified
<1>16. ASSUME NEW n \in Notice, Announce(n), Queued(StateNotices(Idle), notices)
       PROVE  Queued(StateNotices(Idle), notices')
  BY <1>3, <1>16, QueuedAppend, Zenon DEF Announce
<1>17. ASSUME NEW s \in VpnStates \cup {"Failed"}, MoveTo(s)
       PROVE  /\ svc'.vpn = s
              /\ Queued(StateNotices(Idle), notices) \/ (link /\ s \in Idle) =>
                   Queued(StateNotices(Idle), notices')
  <2> DEFINE n == [kind |-> "state", vpn |-> s, attempt |-> svc.attempt]
  <2>1. svc'.vpn = s /\ svc.attempt \in 0 .. MaxAttempts /\ Announce(n)
    BY <1>17, Zenon DEF MoveTo, TypeOK
  <2>2. n \in Notice /\ (s \in Idle => n \in StateNotices(Idle))
    BY <2>1, StateNotice, Zenon DEF StateNotices
  <2> HIDE DEF n
  <2>3. link /\ s \in Idle => Queued(StateNotices(Idle), notices')
    BY <1>3, <2>1, <2>2, QueuedAppend, Zenon DEF Announce
  <2> QED BY <1>16, <2>1, <2>2, <2>3, Zenon
<1>18. CASE ServiceTakes /\ ~exited
  <2> DEFINE q == Head(requests)
  <2>1. /\ UNCHANGED <<d, spawned, drops>> /\ link /\ requests # <<>> /\ requests' = Tail(requests)
    BY <1>18, Zenon DEF ServiceTakes, ServiceUnchanged
  <2>2. q.kind # "disconnect" => q # DisconnectRequest
    <3>1. DisconnectRequest.kind = "disconnect"
      BY DEF DisconnectRequest
    <3> QED BY <3>1, Zenon
  <2>3. q # DisconnectRequest /\ Queued({DisconnectRequest}, requests) => Queued({DisconnectRequest}, requests')
    BY <1>3, <2>1, QueuedTail, Zenon
  <2> HIDE DEF q
  <2>4. ASSUME q.kind # "disconnect", svc.vpn \in Idle \/ svc.vpn = "ReconnectRequired",
               Announce([kind |-> "state", vpn |-> "Connecting", attempt |-> svc'.attempt])
        PROVE  IntentInv'
    <3>1. svc'.attempt \in 0 .. MaxAttempts
      BY Zenon DEF TypeOK
    <3>2. [kind |-> "state", vpn |-> "Connecting", attempt |-> svc'.attempt] \in Notice
      BY <3>1, StateNotice, Zenon DEF VpnStates
    <3>3. Queued(StateNotices(Idle), notices) => Queued(StateNotices(Idle), notices')
      BY <1>16, <2>4, <3>2, Zenon
    <3>4. Pending => Pending'
      BY <2>1, <2>2, <2>3, <2>4, <3>3, Zenon DEF Pending, Idle
    <3> QED BY <1>1, <1>2, <2>1, <3>4, Zenon
  <2>5. ASSUME q.kind # "disconnect", Announce([kind |-> "rejected"]), UNCHANGED svc PROVE IntentInv'
    <3>1. [kind |-> "rejected"] \in Notice
      BY Zenon DEF Notice
    <3>2. Queued(StateNotices(Idle), notices) => Queued(StateNotices(Idle), notices')
      BY <1>16, <2>5, <3>1, Zenon
    <3>3. Pending => Pending'
      BY <2>1, <2>2, <2>3, <2>5, <3>2, Zenon DEF Pending
    <3> QED BY <1>1, <1>2, <2>1, <3>3, Zenon
  <2>6. ASSUME MoveTo("Disconnecting") PROVE IntentInv'
    BY <1>1, <1>2, <1>17, <2>1, <2>6, Zenon DEF Pending, VpnStates
  <2>7. ASSUME MoveTo("Disconnected") PROVE IntentInv'
    BY <1>1, <1>2, <1>17, <2>1, <2>7, Zenon DEF Pending, VpnStates, Idle
  <2>8. ASSUME svc.vpn \in Idle \cup {"Disconnecting"}, UNCHANGED <<svc, notices>> PROVE IntentInv'
    BY <1>1, <1>2, <1>18, <2>1, <2>8, EndIsAnnounced, Zenon DEF Pending
  <2> QED BY <1>18, <2>4, <2>5, <2>6, <2>7, <2>8, Zenon DEF ServiceTakes, q
<1>19. CASE ServiceMoves /\ ~exited
  <2>1. UNCHANGED <<d, spawned, requests, drops>>
    BY <1>19, Zenon DEF ServiceMoves, ServiceUnchanged
  <2>2. PICK s \in VpnStates \cup {"Failed"} :
           MoveTo(s) /\ (svc.vpn = "Disconnecting" => s = "Disconnected")
    BY <1>19, Zenon DEF ServiceMoves, VpnStates
  <2>3. Asked => link
    BY <1>19, Zenon DEF NoticesInv, FirstEnv
  <2>4. Asked /\ Pending => Pending'
    BY <1>17, <2>1, <2>2, <2>3, Zenon DEF Pending, Idle
  <2> QED BY <1>1, <1>2, <2>1, <2>4, Zenon
<1>20. CASE ServiceResumes
  <2>1. UNCHANGED <<d, spawned, requests, drops, svc>> /\ Announce([kind |-> "resume"])
    BY <1>20, Zenon DEF ServiceResumes, ServiceUnchanged
  <2>2. [kind |-> "resume"] \in Notice
    BY Zenon DEF Notice
  <2>3. Pending => Pending'
    BY <1>16, <2>1, <2>2, Zenon DEF Pending
  <2> QED BY <1>1, <1>2, <2>1, <2>3, Zenon
<1>21. CASE LinkLost
  <2>1. drops' # 0
    BY <1>21 DEF LinkLost, TypeOK
  <2> QED BY <1>2, <2>1, Zenon
<1>22. CASE LinkBack /\ ~exited
  <2>1. drops' # 0
    BY <1>22, Zenon DEF LinkBack, NoticesInv, FirstEnv
  <2> QED BY <1>2, <2>1, Zenon
<1>23. CASE ServiceSteps /\ ~exited
  BY <1>18, <1>19, <1>20, <1>21, <1>22, <1>23, Zenon DEF ServiceSteps
<1> QED BY <1>4, <1>9, <1>10, <1>11, <1>12, <1>13, <1>15, <1>23, Zenon DEF Next, Terminate
-----------------------------------------------------------------------------
(* "Authenticating" *)

FlowInv == TokenOfFlow /\ AuthenticatingShown /\ AuthenticatingIsBacked
Ends == [kind : {"submitted", "failed", "cancelled"}, flow : Flows]

LEMMA EndsOf ==
  ASSUME NEW f \in Flows
  PROVE  EndOf(f) \subseteq Ends
  BY DEF EndOf, Ends

LEMMA TokenHasFlow ==
  ASSUME TypeOK, TokenOfFlow, d.connectCancel # None
  PROVE  (\E f \in DOMAIN flows : Live(f)) \/ Queued(Ends, flowMsgs)
<1>1. d.connectCancel \in Flows /\ DOMAIN flows = Flows
  BY Zenon DEF TypeOK, Daemon
<1> QED BY <1>1, EndsOf, Zenon DEF TokenOfFlow, Queued

LEMMA FlowMoved ==
  ASSUME TypeOK, NEW f \in Flows, NEW st, FlowTo(f, st)
  PROVE  flows'[f].st = st /\ \A g \in Flows : g # f => flows'[g].st = flows[g].st
<1>1. [flows[f] EXCEPT !.st = st].st = st
  BY Zenon DEF TypeOK, Flow
<1> QED BY <1>1, Zenon DEF TypeOK, FlowTo

LEMMA FlowStep ==
  ASSUME TypeOK, TypeOK', NoticesInv, FlowInv, [Next]_vars
  PROVE  FlowInv'
<1> USE DEF service, channels
<1>1. /\ DOMAIN flows = Flows /\ DOMAIN flows' = Flows /\ d \in Daemon /\ d' \in Daemon
      /\ flowMsgs \in Seq(FlowMsg)
  BY Zenon DEF TypeOK
<1>2. d.connectCancel \in Flows \cup {None} /\ d'.connectCancel \in Flows \cup {None}
  BY <1>1, Zenon DEF Daemon
\* A step that takes nothing away from what stands behind the flag
<1>3. ASSUME \A f \in Flows : Live(f) => Live(f)',
             \A S \in SUBSET Ends : Queued(S, flowMsgs) => Queued(S, flowMsgs'),
             timers \subseteq timers', d'.connectCancel \in {None, d.connectCancel},
             d'.authenticating => d.authenticating /\ d'.watchdog = d.watchdog,
             drops' = 0 => drops = 0,
             drops' = 0 /\ d'.vpn # "Disconnected" => ~d'.authenticating \/ d.vpn # "Disconnected"
      PROVE  FlowInv'
  <2>1. TokenOfFlow'
    <3> SUFFICES ASSUME d'.connectCancel # None
                 PROVE  (Live(d.connectCancel) \/ Queued(EndOf(d.connectCancel), flowMsgs))'
      BY Zenon DEF TokenOfFlow
    <3>1. d'.connectCancel = d.connectCancel /\ d.connectCancel \in Flows
      BY <1>2, <1>3, Zenon
    <3>2. Live(d.connectCancel) \/ Queued(EndOf(d.connectCancel), flowMsgs)
      BY <3>1, Zenon DEF FlowInv, TokenOfFlow
    <3>3. /\ Live(d.connectCancel) => flows'[d.connectCancel].st \in {"auth", "otp", "sending", "sent"}
          /\ Queued(EndOf(d.connectCancel), flowMsgs) => Queued(EndOf(d.connectCancel), flowMsgs')
      BY <1>3, <3>1, EndsOf, Zenon DEF Live
    <3>4. EndOf(d.connectCancel)' = EndOf(d.connectCancel)
      BY <3>1, Zenon DEF EndOf
    <3> QED BY <3>1, <3>2, <3>3, <3>4, Zenon DEF Live, Queued
  <2>2. AuthenticatingShown'
    BY <1>3, Zenon DEF FlowInv, AuthenticatingShown
  <2>3. AuthenticatingIsBacked'
    <3> SUFFICES ASSUME drops' = 0, d'.vpn = "Disconnected", d'.authenticating
                 PROVE  \/ \E f \in Flows : Live(f)'
                        \/ Queued(Ends, flowMsgs')
                        \/ [kind |-> "watchdog", gen |-> d'.watchdog] \in timers'
      BY <1>1, Zenon DEF AuthenticatingIsBacked, Ends, Live
    <3>1. drops = 0 /\ d.authenticating /\ d.vpn = "Disconnected"
      BY <1>3, Zenon DEF FlowInv, AuthenticatingShown
    <3>2. \/ \E f \in Flows : Live(f)
          \/ Queued(Ends, flowMsgs)
          \/ [kind |-> "watchdog", gen |-> d.watchdog] \in timers
      BY <1>1, <3>1, Zenon DEF FlowInv, AuthenticatingIsBacked, Ends
    <3> QED BY <1>3, <3>2, Zenon
  <2> QED BY <2>1, <2>2, <2>3, Zenon DEF FlowInv
\* A flow was started
<1>4. ASSUME d'.connectCancel \in Flows, flows'[d'.connectCancel].st = "auth", d'.vpn = "Disconnected"
      PROVE  FlowInv'
  BY <1>1, <1>4, Zenon DEF FlowInv, TokenOfFlow, AuthenticatingShown, AuthenticatingIsBacked, Live
<1>5. CASE ProcessEnds
  <2>1. d'.connectCancel = None /\ ~d'.authenticating
    BY <1>5, Zenon DEF ProcessEnds, NewDaemon
  <2> QED BY <2>1, Zenon DEF FlowInv, TokenOfFlow, AuthenticatingShown, AuthenticatingIsBacked
\* A step that leaves flows, their messages and the timers alone
<1>6. ASSUME \A f \in Flows : flows'[f].st = flows[f].st, UNCHANGED flowMsgs, timers \subseteq timers',
             d'.connectCancel \in {None, d.connectCancel},
             d'.authenticating => d.authenticating /\ d'.watchdog = d.watchdog,
             drops' = 0 => drops = 0,
             drops' = 0 /\ d'.vpn # "Disconnected" => ~d'.authenticating \/ d.vpn # "Disconnected"
      PROVE  FlowInv'
  <2>1. \A f \in Flows : Live(f) => Live(f)'
    BY <1>6, Zenon DEF Live
  <2> QED BY <1>3, <1>6, <2>1, Zenon
<1>7. ASSUME StartConnectFlow(d), UNCHANGED <<flowMsgs, timers, drops>> PROVE FlowInv'
  <2>1. CASE d' = d /\ UNCHANGED flows
    BY <1>6, <1>7, <2>1, Zenon
  <2>2. CASE ~(d' = d /\ UNCHANGED flows)
    <3>1. /\ d'.vpn = d.vpn /\ d.vpn = "Disconnected" /\ d'.connectCancel \in Flows
          /\ flows'[d'.connectCancel].st = "auth"
      BY <1>1, <1>7, <2>2, StartFacts, Zenon
    <3> QED BY <1>4, <3>1, Zenon
  <2> QED BY <2>1, <2>2
<1>8. CASE CommandConnect
  BY <1>7, <1>8, Zenon DEF CommandConnect
<1>9. CASE CommandDisconnect
  <2>1. UNCHANGED <<flowMsgs, timers, drops>> /\ Disconnect
    BY <1>9, Zenon DEF CommandDisconnect
  <2>2. /\ d'.vpn = d.vpn /\ d'.authenticating = d.authenticating /\ d'.watchdog = d.watchdog
        /\ d'.connectCancel \in {None, d.connectCancel}
    BY <1>1, <2>1, Zenon DEF Disconnect, CancelFlow, Daemon
  <2>3. \A f \in Flows : flows'[f].st = flows[f].st
    <3>1. CASE d.connectCancel # None
      BY <1>2, <2>1, <3>1, FlowCancels, Zenon DEF Disconnect, CancelFlow
    <3>2. CASE d.connectCancel = None
      BY <2>1, <3>2, Zenon DEF Disconnect
    <3> QED BY <3>1, <3>2
  <2> QED BY <1>6, <2>1, <2>2, <2>3, Zenon
<1>10. CASE CommandSubmitOtp
  <2>1. /\ UNCHANGED <<flowMsgs, timers, drops>> /\ d.pendingOtp # None
        /\ d' = [d EXCEPT !.pendingOtp = None]
        /\ UNCHANGED flows \/ flows' = [flows EXCEPT ![d.pendingOtp].st = "auth"]
    BY <1>10, Zenon DEF CommandSubmitOtp
  <2>2. /\ d'.vpn = d.vpn /\ d'.authenticating = d.authenticating /\ d'.watchdog = d.watchdog
        /\ d'.connectCancel = d.connectCancel /\ d.pendingOtp \in Flows
    BY <1>1, <2>1, Zenon DEF Daemon
  <2>3. \A f \in Flows : Live(f) => Live(f)'
    <3>1. CASE UNCHANGED flows
      BY <3>1, Zenon DEF Live
    <3>2. CASE flows' = [flows EXCEPT ![d.pendingOtp].st = "auth"]
      <4>1. "auth" \in {"new", "auth", "otp", "sending", "sent", "done"}
        OBVIOUS
      <4>2. /\ flows'[d.pendingOtp].st = "auth"
            /\ \A g \in Flows : g # d.pendingOtp => flows'[g].st = flows[g].st
        BY <2>2, <3>2, <4>1, FlowUpdates, ZenonT(40)
      <4> QED BY <4>2, Zenon DEF Live
    <3> QED BY <2>1, <3>1, <3>2
  <2> QED BY <1>3, <2>1, <2>2, <2>3, Zenon
<1>11. CASE CommandQuit /\ ~ProcessEnds
  <2>1. /\ d' = [d EXCEPT !.connectCancel = None, !.quitting = TRUE, !.disconnectRequested = TRUE]
        /\ UNCHANGED <<flowMsgs, drops>> /\ timers \subseteq timers'
    BY <1>11, Zenon DEF CommandQuit
  <2>2. /\ d'.vpn = d.vpn /\ d'.authenticating = d.authenticating /\ d'.watchdog = d.watchdog
        /\ d'.connectCancel = None
    BY <1>1, <2>1, Zenon DEF Daemon
  <2>3. \A f \in Flows : flows'[f].st = flows[f].st
    <3>1. CASE d.connectCancel # None
      <4>1. flows' = [flows EXCEPT ![d.connectCancel].cancelled = TRUE] /\ d.connectCancel \in Flows
        BY <1>2, <1>11, <3>1, Zenon DEF CommandQuit
      <4> QED BY <4>1, FlowCancels, Zenon
    <3>2. CASE d.connectCancel = None
      BY <1>11, <3>2, Zenon DEF CommandQuit
    <3> QED BY <3>1, <3>2
  <2> QED BY <1>6, <2>1, <2>2, <2>3, Zenon
<1>12. CASE Commands
  BY <1>5, <1>8, <1>9, <1>10, <1>11, <1>12, Zenon DEF Commands, CommandToggle
<1>13. CASE Notified /\ ~exited
  <2> DEFINE n == Head(notices)
  <2>0. notices # <<>> => /\ n \in Notice /\ (Brings(n) => n.vpn \in VpnStates \cup {"Failed"})
                          /\ n = notices[1] /\ 1 \in 1 .. Len(notices)
    <3>1. notices \in Seq(Notice)
      BY Zenon DEF TypeOK
    <3>2. notices # <<>> => n = notices[1] /\ 1 \in 1 .. Len(notices)
      BY <3>1
    <3> QED BY <3>1, <3>2, TailFacts, NoticeFacts, Zenon
  <2> HIDE DEF n
  <2>1. CASE HandleVpnEnv
    <3> DEFINE r == [ApplyVpnState(d, n.vpn) EXCEPT !.env = TRUE]
    <3>1. /\ notices # <<>> /\ n.kind = "env" /\ UNCHANGED <<flowMsgs, timers, drops>>
          /\ StartConnectFlow(r) \/ (d' = r /\ UNCHANGED flows)
      BY <2>1, Zenon DEF HandleVpnEnv, TakeNotice, n
    <3>2. LET a == ApplyVpnState(d, n.vpn)
          IN /\ a \in Daemon /\ a.vpn = AsShown(n.vpn) /\ a.authenticating = d.authenticating
             /\ a.connectCancel = d.connectCancel /\ a.watchdog = d.watchdog
      BY <1>1, <2>0, <3>1, ApplyFacts, Zenon DEF Brings
    <3>3. /\ r \in Daemon /\ r.vpn = AsShown(n.vpn) /\ r.authenticating = d.authenticating
          /\ r.connectCancel = d.connectCancel /\ r.watchdog = d.watchdog
      BY <3>2, Zenon DEF Daemon
    <3>4. drops = 0 => AsShown(n.vpn) = "Disconnected"
      BY <1>13, <2>0, <3>1, Zenon DEF NoticesInv, FirstEnv, AsShown
    <3> HIDE DEF r
    <3>5. CASE d' = r /\ UNCHANGED flows
      BY <1>6, <3>1, <3>3, <3>4, <3>5, Zenon
    <3>6. CASE ~(d' = r /\ UNCHANGED flows)
      <4>1. /\ d'.vpn = r.vpn /\ r.vpn = "Disconnected" /\ d'.connectCancel \in Flows
            /\ flows'[d'.connectCancel].st = "auth"
        BY <3>1, <3>3, <3>6, StartFacts, Zenon
      <4> QED BY <1>4, <4>1, Zenon
    <3> QED BY <3>5, <3>6
  <2>2. CASE HandleProgress
    <3>1. /\ notices # <<>> /\ n.kind = "state" /\ UNCHANGED <<flows, flowMsgs, timers, drops>>
          /\ d' = ApplyVpnState(Progressing(d), n.vpn)
      BY <2>2, Zenon DEF HandleProgress, TakeNotice, n
    <3>2. /\ Progressing(d) \in Daemon /\ n.vpn \in VpnStates \cup {"Failed"}
          /\ ~Progressing(d).authenticating /\ Progressing(d).connectCancel = d.connectCancel
      BY <1>1, <2>0, <3>1, ProgressFacts, Zenon DEF Brings
    <3>3. ~d'.authenticating /\ d'.connectCancel = d.connectCancel
      BY <3>1, <3>2, ApplyFacts, Zenon
    <3> QED BY <1>6, <3>1, <3>3, Zenon
  <2>3. CASE HandleReconnectRequired
    <3> DEFINE r == ApplyVpnState(Progressing(d), "ReconnectRequired")
    <3>1. RestartSubmitted(r, n.attempt) /\ UNCHANGED <<flows, flowMsgs, timers, drops>>
      BY <2>3, Zenon DEF HandleReconnectRequired, n
    <3>2. /\ Progressing(d) \in Daemon /\ "ReconnectRequired" \in VpnStates \cup {"Failed"}
          /\ ~Progressing(d).authenticating /\ Progressing(d).connectCancel = d.connectCancel
      BY <1>1, ProgressFacts, Zenon DEF VpnStates
    <3>3. r \in Daemon /\ ~r.authenticating /\ r.connectCancel = d.connectCancel
      BY <3>2, ApplyFacts, Zenon
    <3> HIDE DEF r
    <3>4. ~d'.authenticating /\ d'.connectCancel = d.connectCancel
      BY <3>1, <3>3, Zenon DEF RestartSubmitted, Daemon
    <3> QED BY <1>6, <3>1, <3>4, Zenon
  <2>4. CASE HandleEnded /\ ~ProcessEnds
    <3>1. /\ notices # <<>> /\ n.kind = "state" /\ UNCHANGED <<flows, flowMsgs, timers, drops>>
          /\ d' = [ApplyVpnState(d, n.vpn) EXCEPT !.disconnectRequested = FALSE] /\ n.vpn \in Idle
      BY <2>4, Zenon DEF HandleEnded, n
    <3>2. LET a == ApplyVpnState(d, n.vpn)
          IN /\ a \in Daemon /\ a.vpn = AsShown(n.vpn) /\ a.authenticating = d.authenticating
             /\ a.connectCancel = d.connectCancel /\ a.watchdog = d.watchdog
      BY <1>1, <2>0, <3>1, ApplyFacts, Zenon DEF Brings
    <3>3. /\ d'.vpn = AsShown(n.vpn) /\ d'.authenticating = d.authenticating
          /\ d'.connectCancel = d.connectCancel /\ d'.watchdog = d.watchdog
      BY <3>1, <3>2, Zenon DEF Daemon
    <3>4. AsShown(n.vpn) = "Disconnected"
      BY <3>1, Zenon DEF AsShown, Idle
    <3> QED BY <1>6, <3>1, <3>3, <3>4, Zenon
  <2>5. CASE HandleDisconnecting
    <3>1. /\ notices # <<>> /\ n.kind = "state" /\ n.vpn = "Disconnecting"
          /\ UNCHANGED <<flows, flowMsgs, timers, drops>> /\ d' = ApplyVpnState(d, "Disconnecting")
      BY <2>5, Zenon DEF HandleDisconnecting, TakeNotice, n
    <3>2. /\ d'.authenticating = d.authenticating /\ d'.connectCancel = d.connectCancel
          /\ d'.watchdog = d.watchdog
      BY <1>1, <3>1, ApplyFacts, Zenon DEF VpnStates
    <3>3. \E s \in VpnStates \ {"Disconnected"} : Shown(1, s)
      BY <2>0, <3>1, Zenon DEF NoticesInv, DisconnectingFollows
    <3>4. d.vpn # "Disconnected"
      BY <3>3 DEF Shown
    <3> QED BY <1>6, <3>1, <3>2, <3>4, Zenon
  <2>6. CASE HandleResume
    <3>1. UNCHANGED <<flowMsgs, timers, drops>>
      BY <2>6, Zenon DEF HandleResume
    <3>2. CASE StartConnectFlow(d)
      BY <1>7, <3>1, <3>2, Zenon
    <3>3. CASE UNCHANGED <<d, flows>>
      BY <1>6, <3>1, <3>3, Zenon
    <3> QED BY <2>6, <3>2, <3>3, Zenon DEF HandleResume
  <2>7. CASE HandleRejection
    <3>1. /\ ~d'.authenticating /\ d'.connectCancel = d.connectCancel
          /\ UNCHANGED <<flows, flowMsgs, timers, drops>>
      BY <1>1, <2>7, Zenon DEF HandleRejection, Daemon
    <3> QED BY <1>6, <3>1, Zenon
  <2> QED BY <1>5, <1>13, <2>1, <2>2, <2>3, <2>4, <2>5, <2>6, <2>7, Zenon DEF Notified
<1>14. CASE HandleOtpPrompt
  <2>1. /\ UNCHANGED <<flows, timers, drops>> /\ flowMsgs # <<>> /\ flowMsgs' = Tail(flowMsgs)
        /\ Head(flowMsgs).kind = "otp" /\ d' = [d EXCEPT !.pendingOtp = Head(flowMsgs).flow]
    BY <1>14, Zenon DEF HandleOtpPrompt, TakeFlowMsg
  <2>2. /\ d'.vpn = d.vpn /\ d'.authenticating = d.authenticating /\ d'.watchdog = d.watchdog
        /\ d'.connectCancel = d.connectCancel
    BY <1>1, <2>1, Zenon DEF Daemon
  <2>3. Head(flowMsgs) \notin Ends
    BY <2>1, Zenon DEF Ends
  <2>4. \A S \in SUBSET Ends : Queued(S, flowMsgs) => Queued(S, flowMsgs')
    BY <1>1, <2>1, <2>3, QueuedTail, Zenon
  <2>5. \A f \in Flows : Live(f) => Live(f)'
    BY <2>1, Zenon DEF Live
  <2> QED BY <1>3, <2>1, <2>2, <2>4, <2>5, Zenon
<1>15. CASE HandleSubmitted
  <2>1. /\ UNCHANGED <<flows, drops>>
        /\ timers' = timers \cup {[kind |-> "watchdog", gen |-> d'.watchdog]}
        /\ d' = [d EXCEPT !.connectCancel = None, !.resumeGateway = TRUE,
                          !.submitted = Head(flowMsgs).flow, !.watchdog = @ + 1]
    BY <1>15, Zenon DEF HandleSubmitted
  <2>2. d'.vpn = d.vpn /\ d'.authenticating = d.authenticating /\ d'.connectCancel = None
    BY <1>1, <2>1, Zenon DEF Daemon
  <2>3. [kind |-> "watchdog", gen |-> d'.watchdog] \in timers'
    BY <2>1
  <2> QED BY <2>1, <2>2, <2>3, Zenon DEF FlowInv, TokenOfFlow, AuthenticatingShown, AuthenticatingIsBacked
<1>16. CASE HandleFailed
  <2>1. ~d'.authenticating /\ d'.connectCancel = None
    BY <1>1, <1>16, Zenon DEF HandleFailed, Daemon
  <2> QED BY <2>1, Zenon DEF FlowInv, TokenOfFlow, AuthenticatingShown, AuthenticatingIsBacked
<1>17. ASSUME NEW t \in timers, HandleWatchdog(t) PROVE FlowInv'
  <2>1. UNCHANGED <<flows, flowMsgs, drops>> /\ timers' = timers \ {t}
    BY <1>17, Zenon DEF HandleWatchdog
  <2>2. d'.connectCancel = d.connectCancel /\ d'.vpn = d.vpn /\ (d'.authenticating => d' = d)
    BY <1>1, <1>17, Zenon DEF HandleWatchdog, Daemon
  <2>3. TokenOfFlow'
    BY <2>1, <2>2, Zenon DEF FlowInv, TokenOfFlow, Live, EndOf
  <2>4. AuthenticatingShown'
    BY <2>1, <2>2, Zenon DEF FlowInv, AuthenticatingShown
  <2>5. ASSUME drops = 0, d.vpn = "Disconnected", d'.authenticating
        PROVE  \/ \E f \in Flows : Live(f)
               \/ Queued(Ends, flowMsgs)
               \/ [kind |-> "watchdog", gen |-> d.watchdog] \in timers'
    <3>1. CASE d.connectCancel # None
      BY <1>1, <3>1, TokenHasFlow, Zenon DEF FlowInv
    <3>2. CASE d.connectCancel = None
      <4>1. t.gen # d.watchdog
        <5>1. ASSUME t.gen = d.watchdog PROVE FALSE
          <6>1. d' = [d EXCEPT !.authenticating = FALSE, !.error = TRUE]
            BY <1>17, <2>5, <3>2, <5>1, Zenon DEF HandleWatchdog
          <6> QED BY <1>1, <2>5, <6>1, Zenon DEF Daemon
        <5> QED BY <5>1, Zenon
      <4>2. [kind |-> "watchdog", gen |-> d.watchdog] # t
        <5>1. [kind |-> "watchdog", gen |-> d.watchdog].gen = d.watchdog
          OBVIOUS
        <5> QED BY <4>1, <5>1, Zenon
      <4>3. d.authenticating
        BY <2>2, <2>5, Zenon
      <4>4. \/ \E f \in Flows : Live(f)
            \/ Queued(Ends, flowMsgs)
            \/ [kind |-> "watchdog", gen |-> d.watchdog] \in timers
        BY <1>1, <2>5, <4>3, Zenon DEF FlowInv, AuthenticatingIsBacked, Ends
      <4> QED BY <2>1, <4>2, <4>4, Zenon
    <3> QED BY <3>1, <3>2
  <2>6. AuthenticatingIsBacked'
    BY <1>1, <2>1, <2>2, <2>5, Zenon DEF AuthenticatingIsBacked, Live, Ends
  <2> QED BY <2>3, <2>4, <2>6, Zenon DEF FlowInv
<1>18. ASSUME NEW t \in timers, HandleQuitTimeout(t) PROVE FlowInv'
  BY <1>5, <1>18, Zenon DEF HandleQuitTimeout
<1>19. ASSUME NEW f \in Flows, NEW s \in {"otp", "sending", "sent"}, FlowTo(f, s),
              UNCHANGED flowMsgs \/ Report(f, "otp"), UNCHANGED <<d, timers, drops>>
       PROVE  FlowInv'
  <2>2. flows'[f].st = s /\ \A g \in Flows : g # f => flows'[g].st = flows[g].st
    BY <1>19, FlowMoved, Zenon
  <2>3. \A g \in Flows : Live(g) => Live(g)'
    BY <1>19, <2>2, Zenon DEF Live
  <2>4. [kind |-> "otp", flow |-> f] \in FlowMsg
    BY DEF FlowMsg
  <2>5. \A S \in SUBSET Ends : Queued(S, flowMsgs) => Queued(S, flowMsgs')
    BY <1>1, <1>19, <2>4, QueuedAppend, Zenon DEF Report
  <2> QED BY <1>3, <1>19, <2>3, <2>5, Zenon
<1>20. ASSUME NEW f \in Flows, NEW k \in {"submitted", "failed", "cancelled"}, FlowTo(f, "done"),
              Report(f, k), UNCHANGED <<d, timers, drops>>
       PROVE  FlowInv'
  <2> DEFINE m == [kind |-> k, flow |-> f]
  <2>1. "done" \in {"new", "auth", "otp", "sending", "sent", "done"}
    OBVIOUS
  <2>2. \A g \in Flows : g # f => flows'[g].st = flows[g].st
    BY <1>20, <2>1, FlowUpdates, Zenon DEF FlowTo
  <2>3. m \in FlowMsg /\ m \in EndOf(f) /\ m \in Ends
    BY DEF FlowMsg, EndOf, Ends
  <2>4. flowMsgs' = Append(flowMsgs, m)
    BY <1>20, Zenon DEF Report
  <2> HIDE DEF m
  <2>5. Queued(EndOf(f), flowMsgs') /\ Queued(Ends, flowMsgs')
    BY <1>1, <2>3, <2>4, QueuedAppend, Zenon
  <2>6. \A S \in SUBSET Ends : Queued(S, flowMsgs) => Queued(S, flowMsgs')
    BY <1>1, <2>3, <2>4, QueuedAppend, Zenon
  <2>7. TokenOfFlow'
    <3> SUFFICES ASSUME d.connectCancel # None
                 PROVE  Live(d.connectCancel)' \/ Queued(EndOf(d.connectCancel), flowMsgs')
      BY <1>20, Zenon DEF TokenOfFlow, EndOf, Live
    <3>1. d.connectCancel \in Flows /\ (Live(d.connectCancel) \/ Queued(EndOf(d.connectCancel), flowMsgs))
      BY <1>2, Zenon DEF FlowInv, TokenOfFlow
    <3>2. CASE d.connectCancel = f
      BY <2>5, <3>2, Zenon
    <3>3. CASE d.connectCancel # f
      BY <1>20, <2>2, <2>6, <3>1, <3>3, EndsOf, Zenon DEF Live
    <3> QED BY <3>2, <3>3
  <2>8. AuthenticatingShown'
    BY <1>20, Zenon DEF FlowInv, AuthenticatingShown
  <2>9. AuthenticatingIsBacked'
    BY <2>5, Zenon DEF AuthenticatingIsBacked, Ends
  <2> QED BY <2>7, <2>8, <2>9, Zenon DEF FlowInv
<1>21. CASE FlowSteps
  <2>1. PICK f \in Flows : FlowPrompt(f) \/ FlowAuthenticated(f) \/ FlowEnds(f)
    BY <1>21, Zenon DEF FlowSteps
  <2>2. UNCHANGED <<d, timers, drops>>
    BY <2>1, Zenon DEF FlowPrompt, FlowAuthenticated, FlowEnds, FlowCancelled, FlowFails,
       FlowSendConnect, FlowSubmitted, FlowUnchanged
  <2>3. CASE FlowPrompt(f) \/ FlowAuthenticated(f) \/ FlowSendConnect(f)
    BY <1>19, <2>2, <2>3, Zenon DEF FlowPrompt, FlowAuthenticated, FlowSendConnect
  <2>4. CASE FlowCancelled(f) \/ FlowFails(f) \/ FlowSubmitted(f)
    BY <1>20, <2>2, <2>4, Zenon DEF FlowCancelled, FlowFails, FlowSubmitted
  <2> QED BY <2>1, <2>3, <2>4, Zenon DEF FlowEnds
<1>22. CASE ServiceSteps
  <2>1. UNCHANGED <<d, flows, flowMsgs, timers>>
    BY <1>22, Zenon DEF ServiceSteps, ServiceTakes, ServiceMoves, ServiceResumes, ServiceUnchanged,
       LinkLost, LinkBack
  <2>2. UNCHANGED drops \/ LinkLost
    BY <1>22, Zenon DEF ServiceSteps, ServiceTakes, ServiceMoves, ServiceResumes, ServiceUnchanged,
       LinkBack
  <2>3. LinkLost => drops' # 0
    BY DEF LinkLost, TypeOK
  <2> QED BY <1>6, <2>1, <2>2, <2>3, Zenon
<1>23. CASE (\E q \in spawned : SpawnedSend(q)) \/ UNCHANGED vars
  BY <1>6, <1>23, Zenon DEF SpawnedSend, vars
<1> QED BY <1>5, <1>12, <1>13, <1>14, <1>15, <1>16, <1>17, <1>18, <1>21, <1>22, <1>23,
           Zenon DEF Next, Terminate, FlowMessages, TimerFires
-----------------------------------------------------------------------------
(* The theorems *)

LEMMA InitInv == Init => TypeOK /\ WidgetInv
<1> SUFFICES ASSUME Init PROVE TypeOK /\ WidgetInv
  OBVIOUS
<1>1. TypeOK
  <2>1. d \in Daemon
    BY Zenon DEF Init, NewDaemon, Daemon, VpnStates
  <2>2. flows \in [Flows -> Flow]
    BY Zenon DEF Init, Flow
  <2>3. 0 \in 0 .. MaxAttempts /\ 0 \in 0 .. MaxDrops
    BY BoundsAssumption
  <2>4. svc \in [vpn : VpnStates \cup {"Failed"}, attempt : 0 .. MaxAttempts, flow : Flows \cup {None}]
    BY <2>3, Zenon DEF Init, VpnStates
  <2>5. [kind |-> "env", vpn |-> "Disconnected", attempt |-> 0] \in Notice
    BY <2>3, Zenon DEF Notice, VpnStates
  <2>6. notices \in Seq(Notice) /\ Len(notices) = 1
    BY <2>5 DEF Init
  <2>7. flowMsgs \in Seq(FlowMsg) /\ requests \in Seq(Request) /\ Len(requests) = 0
    BY DEF Init
  <2>8. timers = {} /\ spawned = {} /\ link \in BOOLEAN /\ drops \in 0 .. MaxDrops /\ exited \in BOOLEAN
    BY <2>3, Zenon DEF Init
  <2> QED BY <2>1, <2>2, <2>4, <2>6, <2>7, <2>8, BoundsAssumption DEF TypeOK
<1>2. /\ d.vpn = "Disconnected" /\ ~d.authenticating /\ ~d.disconnectRequested /\ d.connectCancel = None
  BY Zenon DEF Init, NewDaemon
<1>3. /\ Len(notices) = 1 /\ notices[1].kind = "env" /\ notices[1].vpn = "Disconnected"
      /\ svc.vpn = "Disconnected" /\ link
  BY DEF Init
<1>4. Shown(Len(notices) + 1, AsShown(svc.vpn))
  <2>1. Brings(notices[1]) /\ AsShown(notices[1].vpn) = AsShown(svc.vpn)
    BY <1>3, Zenon DEF Brings
  <2>2. 1 \in 1 .. (Len(notices) + 1) - 1 /\ 1 + 1 .. (Len(notices) + 1) - 1 = {}
    BY <1>3
  <2> QED BY <2>1, <2>2, Zenon DEF Shown
<1>5. ShowsService /\ DisconnectingFollows /\ FirstEnv
  <2>1. 1 .. Len(notices) = {1}
    BY <1>3
  <2> QED BY <1>2, <1>3, <1>4, <2>1, Zenon DEF ShowsService, DisconnectingFollows, FirstEnv
<1> QED BY <1>1, <1>2, <1>5, Zenon
        DEF WidgetInv, IntentShown, AuthenticatingShown, TokenOfFlow, IntentIsPending, AuthenticatingIsBacked

LEMMA InvStep == TypeOK /\ WidgetInv /\ [Next]_vars => TypeOK' /\ WidgetInv'
<1> SUFFICES ASSUME TypeOK, WidgetInv, [Next]_vars PROVE TypeOK' /\ WidgetInv'
  OBVIOUS
<1>1. NoticesInv /\ IntentInv /\ FlowInv
  BY Zenon DEF WidgetInv, NoticesInv, IntentInv, FlowInv
<1>2. TypeOK'
  BY TypeStep, Zenon
<1>3. NoticesInv' /\ IntentInv' /\ FlowInv'
  BY <1>1, <1>2, NoticesStep, IntentStep, FlowStep, Zenon
<1> QED BY <1>2, <1>3, Zenon DEF WidgetInv, NoticesInv, IntentInv, FlowInv

\* The inductive invariant of the daemon's loop (daemon/mod.rs of the
\* widget), its flows, timers and channels, and of gpservice's answers to it.
THEOREM WidgetInvariant == Spec => [](TypeOK /\ WidgetInv)
  BY InitInv, InvStep, PTL DEF Spec

\* disconnect_requested is set only while the state it excuses is to come.
THEOREM IntentHasCause == Spec => []IntentIsPending
<1>1. WidgetInv => IntentIsPending
  BY Zenon DEF WidgetInv
<1> QED BY <1>1, WidgetInvariant, PTL

\* "Authenticating" has a flow, a message of one or the watchdog behind it.
THEOREM AuthenticatingHasCause == Spec => []AuthenticatingIsBacked
<1>1. WidgetInv => AuthenticatingIsBacked
  BY Zenon DEF WidgetInv
<1> QED BY <1>1, WidgetInvariant, PTL

\* Whatever links were lost, an attached daemon that has handled its notices
\* shows the state gpservice is in.
THEOREM DaemonFollowsService == Spec => [](link /\ notices = <<>> => d.vpn = AsShown(svc.vpn))
<1>1. TypeOK /\ WidgetInv => (link /\ notices = <<>> => d.vpn = AsShown(svc.vpn))
  <2> SUFFICES ASSUME WidgetInv, link, notices = <<>> PROVE d.vpn = AsShown(svc.vpn)
    OBVIOUS
  <2>1. Shown(Len(notices) + 1, AsShown(svc.vpn))
    BY Zenon DEF WidgetInv, ShowsService
  <2>2. 1 .. (Len(notices) + 1) - 1 = {}
    OBVIOUS
  <2> QED BY <2>1, <2>2, Zenon DEF Shown
<1> QED BY <1>1, WidgetInvariant, PTL
=============================================================================
