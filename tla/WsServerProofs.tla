--------------------------- MODULE WsServerProofs ---------------------------
(***************************************************************************)
(* The WebSocket server, for every number of sessions and connections,     *)
(* queue length and last revision: it implements the session registry, its *)
(* statistics follow the binding, and the stream of every connection is    *)
(* contiguous.                                                             *)
(***************************************************************************)
EXTENDS WsServer, SessionRegistryProofs
-----------------------------------------------------------------------------
(* The server implements the registry *)

\* The answer to a request leaves the registry alone or ends the loop
LEMMA AnswerRefines ==
  ASSUME NEW c \in Conns, NEW m, task[c] = "running", Answer(c, m)
  PROVE  Leave(c) \/ UNCHANGED vars
  BY Zenon DEF Answer, Leave, vars, recordVars, taskVars, attemptVars

\* An event closes connections that were prepared and whose permit is not
\* dropped, which CloseSlow allows; the others were closed before
LEMMA EventRefines ==
  ASSUME TypeOK, ServerTypes, ListedInv, NEW e, NEW snap, SendEvent(e, snap)
  PROVE  \E cs \in SUBSET Conns : CloseSlow(cs)
<1>1. PICK gone \in SUBSET connections : closed' = [c \in Conns |-> closed[c] \/ c \in gone]
  <2> DEFINE kept == IF revision = MaxRevision THEN {} ELSE Keeping
  <2>1. closed' = [c \in Conns |-> closed[c] \/ c \in connections \ kept]
    BY Zenon DEF SendEvent
  <2> QED BY <2>1, Zenon
<1> DEFINE cs == {c \in gone : ~closed[c]}
<1>2. cs \in SUBSET Conns /\ \A c \in cs : task[c] \in {"prepared", "failed"} \cup Serving
  BY Zenon DEF ServerTypes, ListedInv
<1>3. closed' = [c \in Conns |-> closed[c] \/ c \in cs]
  <2>1. ASSUME NEW c \in Conns
        PROVE  (closed[c] \/ c \in gone) = (closed[c] \/ c \in cs)
    BY Zenon DEF TypeOK
  <2> QED BY <1>1, <2>1, Zenon
<1>4. UNCHANGED <<recordVars, task, session, observed, joined, replaced, revoking,
                  attemptVars>>
  BY Zenon DEF SendEvent
<1>5. CloseSlow(cs)
  BY <1>2, <1>3, <1>4, Zenon DEF CloseSlow
<1> QED BY <1>2, <1>5, Zenon

\* Every step of the server is a step of the registry, or none
LEMMA ServerRefines ==
  ASSUME TypeOK, ServerTypes, WorkInv, ListedInv, [WsNext]_wsVars
  PROVE  [Next]_vars
<1>1. CASE RegistryStep
  BY <1>1, Zenon DEF RegistryStep, Next
<1>2. ASSUME NEW c \in Conns, SendSnapshot(c) \/ CheckStatistics(c) \/ SetStatistics(c)
      PROVE  [Next]_vars
  <2>1. work[c] # "none" \/ UNCHANGED vars
    BY <1>2, RegistryAssumption, Zenon DEF SendSnapshot, CheckStatistics, SetStatistics, WorkInv
  <2>2. UNCHANGED vars \/ \E m : Answer(c, m)
    BY <1>2, Zenon DEF SendSnapshot, CheckStatistics, SetStatistics
  <2> QED BY <2>1, <2>2, AnswerRefines, Zenon DEF WorkInv, Next
<1>3. ASSUME NEW c \in Conns, TaskProgress(c),
             ~(SendSnapshot(c) \/ CheckStatistics(c) \/ SetStatistics(c))
      PROVE  [Next]_vars
  BY <1>3, Zenon DEF TaskProgress, PrepareConnection, Deliver, CommitServed, CloseOld,
     Disconnect, RemoveConnection, RemoveClosed, DropTask, Next, TaskStep
<1>4. ASSUME NEW c \in Conns,
             \/ AbandonConnection(c) \/ HandshakeEnds(c) \/ LeaveLoop(c)
             \/ SilenceRevoked(c) \/ CloseRevokedConnection(c)
             \/ \E w \in Requests : Receive(c, w)
      PROVE  [Next]_vars
  BY <1>4, Zenon DEF AbandonConnection, HandshakeEnds, LeaveLoop, SilenceRevoked,
     CloseRevokedConnection, Receive, Next
<1>5. CASE SendVpnState \/ SendTunnelState
  BY <1>5, EventRefines, Zenon DEF SendVpnState, SendTunnelState, Next
<1>6. CASE \/ WatchVpnState \/ VpnStateChanges \/ BindingChanges
           \/ \E b \in Bindings : MonitorUpdates(b)
  BY <1>6, Zenon DEF WatchVpnState, VpnStateChanges, BindingChanges, MonitorUpdates
<1>7. CASE WatchTunnel
  BY <1>5, <1>7, Zenon DEF WatchTunnel, TakeBinding, BindTunnel, PublishSample, SelectBinding,
     SelectUpdate, PublishTunnel
<1>8. CASE UNCHANGED wsVars
  BY <1>8, Zenon DEF wsVars
<1> QED BY <1>1, <1>2, <1>3, <1>4, <1>5, <1>6, <1>7, <1>8, Zenon DEF WsNext
-----------------------------------------------------------------------------
(* Types *)

LEMMA ObserveType ==
  ASSUME WatchTypes, NEW b \in Bindings
  PROVE  Observe(b) \in Tunnels \cup {NoTunnel}
  BY Zenon DEF WatchTypes, Observe, Tunnels

LEMMA SnapshotType ==
  ASSUME ServerTypes, WatchTypes, NEW k \in {"attached", "snapshot"}
  PROVE  /\ Snapshot(k) \in Messages /\ Snapshot(k).rev = revision
         /\ Snapshot(k).kind = k
<1>1. Observe(binding) \in Tunnels \cup {NoTunnel}
  BY ObserveType, Zenon DEF ServerTypes
<1>2. snapshot.vpn \in 0 .. MaxVpn /\ snapshot.tunnel \in Tunnels \cup {NoTunnel}
  BY DEF ServerTypes
<1> QED BY <1>1, <1>2 DEF Snapshot, Messages, ServerTypes

LEMMA ReplyType == Reply \in Messages /\ Reply.rev = None /\ Reply.kind = "reply"
  BY DEF Reply, Messages

LEMMA ApplyType ==
  ASSUME NEW v \in Views, NEW m \in Messages
  PROVE  /\ Apply(v, m) \in Views
         /\ Apply(v, m).rev = IF m.rev = None THEN v.rev ELSE m.rev
  BY DEF Apply, Views, Messages

LEMMA PushType ==
  ASSUME queue \in [Conns -> Seq(Messages)], NEW c \in Conns, NEW m \in Messages, Push(c, m)
  PROVE  queue' \in [Conns -> Seq(Messages)]
  BY DEF Push

LEMMA SilenceType ==
  ASSUME ConnTypes, NEW cs, Silence(cs)
  PROVE  /\ enabled' \in [Conns -> BOOLEAN] /\ statistics' \in [Conns -> Bindings \cup {None}]
  BY Zenon DEF ConnTypes, Silence

LEMMA DemandType ==
  ASSUME ServerTypes, UNCHANGED binding, RefreshDemand
  PROVE  demand' \in [Bindings -> BOOLEAN]
<1> DEFINE want == \E c \in connections' : enabled'[c] /\ ~closed'[c]
<1>1. want \in BOOLEAN
  BY Zenon
<1>2. demand' = IF Monitored(binding') THEN [demand EXCEPT ![binding'] = want] ELSE demand
  BY Zenon DEF RefreshDemand
<1> HIDE DEF want
<1> QED BY <1>1, <1>2, Zenon DEF ServerTypes

LEMMA AnswerType ==
  ASSUME ConnTypes, NEW c \in Conns, NEW m \in Messages, Answer(c, m)
  PROVE  /\ work' \in [Conns -> Requests \cup {"none"}]
         /\ queue' \in [Conns -> Seq(Messages)]
  BY PushType, Zenon DEF ConnTypes, Answer

LEMMA EventType ==
  ASSUME ServerTypes, ConnTypes, WatchTypes, NEW snap, NEW e \in Messages, SendEvent(e, snap),
         snap \in [vpn : 0 .. MaxVpn, tunnel : Tunnels \cup {NoTunnel}]
  PROVE  ServerTypes' /\ ConnTypes'
<1> DEFINE kept == IF revision = MaxRevision THEN {} ELSE Keeping
           sent == kept \cap {c \in Conns : Sendable(c)}
<1>1. /\ snapshot' = snap
      /\ revision' = IF revision = MaxRevision THEN revision ELSE revision + 1
      /\ connections' = kept
      /\ queue' = [c \in Conns |-> IF c \in sent
             THEN Append(queue[c], [e EXCEPT !.rev = revision']) ELSE queue[c]]
      /\ Silence(connections \ kept)
      /\ UNCHANGED binding /\ RefreshDemand
      /\ UNCHANGED <<lock, work, view, cleanup, committed, disabling>>
  BY Zenon DEF SendEvent
<1>2. kept \subseteq connections
  BY Zenon DEF Keeping
<1>3. revision' \in 0 .. MaxRevision
  BY <1>1, ServerAssumption DEF ServerTypes
<1>4. [e EXCEPT !.rev = revision'] \in Messages
  BY <1>3 DEF Messages
<1> HIDE DEF kept, sent
<1>5. queue' \in [Conns -> Seq(Messages)]
  BY <1>1, <1>4 DEF ConnTypes
<1>6. demand' \in [Bindings -> BOOLEAN]
  BY <1>1, DemandType, Zenon
<1>7. ServerTypes'
  BY <1>1, <1>2, <1>3, <1>6, Zenon DEF ServerTypes
<1>8. ConnTypes'
  BY <1>1, <1>5, SilenceType, Zenon DEF ConnTypes
<1> QED BY <1>7, <1>8, Zenon

\* The steps of a connection's task keep the types
LEMMA TaskTypes ==
  ASSUME WsTypeOK, NEW c \in Conns, TaskProgress(c)
  PROVE  WsTypeOK'
<1> USE DEF WsTypeOK
<1>1. CASE PrepareConnection(c)
  <2>1. queue' \in [Conns -> Seq(Messages)] /\ connections' \subseteq Conns
    BY <1>1, PushType, SnapshotType, Zenon DEF PrepareConnection, ServerTypes, ConnTypes
  <2> QED BY <1>1, <2>1, Zenon DEF PrepareConnection, ServerTypes, ConnTypes, WatchTypes, watchVars
<1>2. CASE Deliver(c)
  <2>1. /\ view' = [view EXCEPT ![c] = Apply(@, Head(queue[c]))]
        /\ queue' = [queue EXCEPT ![c] = Tail(@)] /\ queue[c] # <<>>
        /\ queue[c] \in Seq(Messages) /\ view[c] \in Views
    BY <1>2, Zenon DEF Deliver, ConnTypes
  <2>2. Head(queue[c]) \in Messages /\ Tail(queue[c]) \in Seq(Messages)
    BY <2>1
  <2>3. Apply(view[c], Head(queue[c])) \in Views
    BY <2>1, <2>2, ApplyType, Zenon
  <2>4. queue' \in [Conns -> Seq(Messages)] /\ view' \in [Conns -> Views]
    BY <2>1, <2>2, <2>3, Zenon DEF ConnTypes
  <2> QED BY <1>2, <2>4, Zenon DEF Deliver, ServerTypes, ConnTypes, WatchTypes, serverVars, watchVars
<1>3. CASE CommitServed(c)
  <2>1. /\ \E x : committed' = [committed EXCEPT ![c] = @ \/ x]
        /\ \E gone : connections' = connections \ gone
        /\ \E cs : Silence(cs)
        /\ UNCHANGED binding
        /\ UNCHANGED demand \/ RefreshDemand
        /\ UNCHANGED <<lock, revision, snapshot, queue, work, view, cleanup, disabling, watchVars>>
    BY <1>3, Zenon DEF CommitServed
  <2>2. committed' \in [Conns -> BOOLEAN]
    BY <2>1, Zenon DEF ConnTypes
  <2>3. demand' \in [Bindings -> BOOLEAN]
    BY <2>1, DemandType, Zenon DEF ServerTypes
  <2>4. enabled' \in [Conns -> BOOLEAN] /\ statistics' \in [Conns -> Bindings \cup {None}]
    BY <2>1, SilenceType, Zenon
  <2> QED BY <2>1, <2>2, <2>3, <2>4, Zenon DEF ServerTypes, ConnTypes, WatchTypes, watchVars
<1>4. CASE CloseOld(c)
  BY <1>4, SilenceType, ZenonT(40) DEF CloseOld, ServerTypes, ConnTypes, WatchTypes, serverVars, watchVars
<1>5. CASE Disconnect(c)
  BY <1>5, Zenon DEF Disconnect, ServerTypes, ConnTypes, WatchTypes, serverVars, watchVars
<1>6. CASE RemoveConnection(c) \/ RemoveClosed(c)
  <2>1. demand' \in [Bindings -> BOOLEAN]
    BY <1>6, DemandType, Zenon DEF RemoveConnection, RemoveClosed
  <2> QED BY <1>6, <2>1, Zenon DEF RemoveConnection, RemoveClosed, ServerTypes, ConnTypes,
             WatchTypes, watchVars
<1>7. CASE DropTask(c)
  BY <1>7, ZenonT(40) DEF DropTask, ServerTypes, ConnTypes, WatchTypes, serverVars, connVars, watchVars
<1>8. CASE SendSnapshot(c)
  BY <1>8, AnswerType, SnapshotType, ZenonT(40) DEF SendSnapshot, ServerTypes, ConnTypes, WatchTypes,
     serverVars, watchVars
<1>9. CASE CheckStatistics(c)
  <2>1. queue' \in [Conns -> Seq(Messages)] /\ work' \in [Conns -> Requests \cup {"none"}]
    BY <1>9, AnswerType, ReplyType, Zenon DEF CheckStatistics, ConnTypes
  <2> QED BY <1>9, <2>1, Zenon DEF CheckStatistics, ServerTypes, ConnTypes, WatchTypes, watchVars
<1>10. CASE SetStatistics(c)
  <2>1. queue' \in [Conns -> Seq(Messages)] /\ work' \in [Conns -> Requests \cup {"none"}]
    BY <1>10, AnswerType, ReplyType, Zenon DEF SetStatistics
  <2>2. demand' \in [Bindings -> BOOLEAN]
    BY <1>10, DemandType, Zenon DEF SetStatistics
  <2>3. enabled' \in [Conns -> BOOLEAN] /\ statistics' \in [Conns -> Bindings \cup {None}]
    BY <1>10, Zenon DEF SetStatistics, ConnTypes
  <2> QED BY <1>10, <2>1, <2>2, <2>3, Zenon DEF SetStatistics, ServerTypes, ConnTypes, WatchTypes,
             watchVars
<1> QED BY <1>1, <1>2, <1>3, <1>4, <1>5, <1>6, <1>7, <1>8, <1>9, <1>10, Zenon DEF TaskProgress

\* ... and so do the watchers'
LEMMA WatchersTypes ==
  ASSUME WsTypeOK,
         \/ WatchVpnState \/ SendVpnState \/ WatchTunnel
         \/ VpnStateChanges \/ BindingChanges
         \/ \E b \in Bindings : MonitorUpdates(b)
  PROVE  WsTypeOK'
<1> USE DEF WsTypeOK
<1>1. CASE WatchVpnState
  BY <1>1, Zenon DEF WatchVpnState, ServerTypes, ConnTypes, WatchTypes, serverVars, connVars
<1>2. CASE SendVpnState
  <2>1. vpnTaken \in 0 .. MaxVpn
    BY <1>2, Zenon DEF SendVpnState, WatchTypes
  <2>2. /\ [kind |-> "vpn", rev |-> None, vpn |-> vpnTaken, tunnel |-> None] \in Messages
        /\ [snapshot EXCEPT !.vpn = vpnTaken] \in [vpn : 0 .. MaxVpn, tunnel : Tunnels \cup {NoTunnel}]
    BY <2>1 DEF Messages, ServerTypes
  <2>3. ServerTypes' /\ ConnTypes'
    BY <1>2, <2>2, EventType, Zenon DEF SendVpnState
  <2> QED BY <1>2, <2>3, Zenon DEF SendVpnState, WatchTypes
<1>3. CASE SendTunnelState
  <2>1. /\ [kind |-> "tunnel", rev |-> None, vpn |-> None, tunnel |-> current] \in Messages
        /\ [snapshot EXCEPT !.tunnel = current] \in [vpn : 0 .. MaxVpn, tunnel : Tunnels \cup {NoTunnel}]
    BY DEF Messages, ServerTypes, WatchTypes
  <2>2. ServerTypes' /\ ConnTypes'
    BY <1>3, <2>1, EventType, Zenon DEF SendTunnelState
  <2> QED BY <1>3, <2>2, Zenon DEF SendTunnelState, WatchTypes, Watch
<1>4. CASE BindTunnel
  <2>1. Observe(taken) \in Tunnels \cup {NoTunnel}
    BY ObserveType, Zenon DEF WatchTypes
  <2>2. /\ SwitchDemand(\E c \in connections : enabled[c] /\ ~closed[c]) /\ ClearSamples
        /\ binding' = taken /\ current' = Observe(taken) /\ watcher' = "announce"
        /\ UNCHANGED <<lock, connections, revision, snapshot, queue, work, view, cleanup,
             committed, enabled, disabling, vpn, vpnChanged, vpnTaken, bound, boundChanged,
             tunnelState, tunnelChanged, taken>>
    BY <1>4, Zenon DEF BindTunnel, Watch
  <2>3. demand' \in [Bindings -> BOOLEAN]
    <3> DEFINE want == \E c \in connections : enabled[c] /\ ~closed[c]
    <3>1. want \in BOOLEAN /\ SwitchDemand(want)
      BY <2>2, Zenon
    <3> HIDE DEF want
    <3> QED BY <3>1, Zenon DEF SwitchDemand, ServerTypes
  <2>4. statistics' \in [Conns -> Bindings \cup {None}]
    BY <2>2, Zenon DEF ClearSamples, ConnTypes
  <2> QED BY <2>1, <2>2, <2>3, <2>4, Zenon DEF ServerTypes, ConnTypes, WatchTypes
<1>5. CASE PublishSample
  <2>1. statistics' \in [Conns -> Bindings \cup {None}]
    BY <1>5, Zenon DEF PublishSample, Publish, ConnTypes, ServerTypes
  <2> QED BY <1>5, <2>1, Zenon DEF PublishSample, ServerTypes, ConnTypes, WatchTypes, serverVars, Watch
<1>6. CASE TakeBinding \/ SelectBinding \/ SelectUpdate
  BY <1>6, Zenon DEF TakeBinding, SelectBinding, SelectUpdate, ServerTypes, ConnTypes, WatchTypes,
     serverVars, connVars, Watch
<1>7. CASE PublishTunnel
  <2>1. Observe(binding) \in Tunnels \cup {NoTunnel}
    BY ObserveType, Zenon DEF ServerTypes
  <2> QED BY <1>7, <2>1, Zenon DEF PublishTunnel, ServerTypes, ConnTypes, WatchTypes,
     serverVars, connVars, Watch
<1>8. CASE VpnStateChanges
  <2>1. vpn' \in 0 .. MaxVpn
    BY <1>8, ServerAssumption DEF VpnStateChanges, WatchTypes
  <2> QED BY <1>8, <2>1, Zenon DEF VpnStateChanges, ServerTypes, ConnTypes, WatchTypes, serverVars, connVars
<1>9. CASE BindingChanges
  <2>1. bound' \in Bindings
    BY <1>9, ServerAssumption DEF BindingChanges, WatchTypes, Bindings
  <2> QED BY <1>9, <2>1, Zenon DEF BindingChanges, ServerTypes, ConnTypes, WatchTypes, serverVars, connVars
<1>10. ASSUME NEW b \in Bindings, MonitorUpdates(b) PROVE WsTypeOK'
  <2>1. tunnelState' \in [Bindings -> 0 .. MaxTunnel]
    <3>1. CASE UNCHANGED tunnelState
      BY <3>1, Zenon DEF WatchTypes
    <3>2. CASE tunnelState[b] < MaxTunnel /\ tunnelState' = [tunnelState EXCEPT ![b] = @ + 1]
      <4>1. tunnelState[b] + 1 \in 0 .. MaxTunnel
        BY <3>2, ServerAssumption DEF WatchTypes
      <4> QED BY <3>2, <4>1, Zenon DEF WatchTypes
    <3> QED BY <1>10, <3>1, <3>2, Zenon DEF MonitorUpdates
  <2>2. tunnelChanged' \in BOOLEAN
    BY <1>10, Zenon DEF MonitorUpdates
  <2> QED BY <1>10, <2>1, <2>2, Zenon DEF MonitorUpdates, ServerTypes, ConnTypes, WatchTypes, serverVars, connVars
<1> QED BY <1>1, <1>2, <1>3, <1>4, <1>5, <1>6, <1>7, <1>8, <1>9, <1>10, Zenon DEF WatchTunnel

LEMMA TypesStep ==
  ASSUME WsTypeOK, [WsNext]_wsVars
  PROVE  WsTypeOK'
<1>1. ASSUME NEW c \in Conns,
             \/ AbandonConnection(c) \/ HandshakeEnds(c) \/ LeaveLoop(c)
             \/ SilenceRevoked(c) \/ CloseRevokedConnection(c)
      PROVE  WsTypeOK'
  <2>1. CASE AbandonConnection(c)
    <3>1. demand' \in [Bindings -> BOOLEAN]
      BY <2>1, DemandType, Zenon DEF AbandonConnection, WsTypeOK
    <3> QED BY <2>1, <3>1, ZenonT(40) DEF AbandonConnection, WsTypeOK, ServerTypes, ConnTypes, WatchTypes,
               watchVars
  <2>2. CASE SilenceRevoked(c)
    BY <2>2, SilenceType, ZenonT(40) DEF SilenceRevoked, WsTypeOK, ServerTypes, ConnTypes, WatchTypes,
       serverVars, watchVars
  <2> QED BY <1>1, <2>1, <2>2, ZenonT(40) DEF HandshakeEnds, LeaveLoop, CloseRevokedConnection, WsTypeOK,
         ServerTypes, ConnTypes, WatchTypes, serverVars, connVars, watchVars
<1>2. ASSUME NEW c \in Conns, NEW w \in Requests, Receive(c, w) PROVE WsTypeOK'
  BY <1>2, Zenon DEF Receive, WsTypeOK, ServerTypes, ConnTypes, WatchTypes, serverVars, watchVars
<1>3. CASE RegistryStep \/ UNCHANGED wsVars
  BY <1>3, Zenon DEF RegistryStep, wsVars, WsTypeOK, ServerTypes, ConnTypes, WatchTypes, serverVars,
     connVars, watchVars
<1> QED BY <1>1, <1>2, <1>3, TaskTypes, WatchersTypes, Zenon DEF WsNext
-----------------------------------------------------------------------------
(* The server, its connection tasks and the statistics *)

\* How the answer to a request changes the task
LEMMA AnswerFacts ==
  ASSUME TypeOK, ConnTypes, NEW c \in Conns, NEW m, Answer(c, m), work[c] # "none", WorkInv
  PROVE  /\ task[c] = "running" /\ work' = [work EXCEPT ![c] = "none"]
         /\ \A d \in Conns : d # c => task'[d] = task[d]
         /\ task'[c] \in {"running", "leaving"}
         /\ UNCHANGED closed
  BY ZenonT(40) DEF Answer, WorkInv, ConnTypes, TypeOK

\* Which steps change the task of a connection: its own, and no other task moves
\* while it handles a message
LEMMA WorkStep ==
  ASSUME TypeOK, WsTypeOK, WorkInv, [WsNext]_wsVars
  PROVE  WorkInv'
<1> USE RegistryAssumption DEF WsTypeOK
<1>1. ASSUME NEW c \in Conns, SendSnapshot(c) \/ CheckStatistics(c) \/ SetStatistics(c)
      PROVE  WorkInv'
  <2>1. work[c] # "none"
    BY <1>1, Zenon DEF SendSnapshot, CheckStatistics, SetStatistics, WorkInv
  <2>2. CASE \E m : Answer(c, m)
    <3>1. lock' = None
      BY <1>1, <2>2, Zenon DEF SendSnapshot, CheckStatistics, SetStatistics, serverVars, Unlocked,
         Answer, ConnTypes
    <3> QED BY <2>1, <2>2, <3>1, AnswerFacts, Zenon DEF WorkInv, ConnTypes
  <2>3. CASE lock' = c /\ UNCHANGED <<vars, queue, work>>
    BY <2>1, <2>3, Zenon DEF WorkInv, vars, taskVars
  <2> QED BY <1>1, <2>2, <2>3, Zenon DEF SendSnapshot, CheckStatistics, SetStatistics
<1>2. ASSUME NEW c \in Conns,
             \/ PrepareConnection(c) \/ CommitServed(c) \/ CloseOld(c)
             \/ Disconnect(c) \/ DropTask(c) \/ AbandonConnection(c) \/ HandshakeEnds(c)
             \/ LeaveLoop(c)
      PROVE  WorkInv'
  <2>1. /\ UNCHANGED <<lock, work>> /\ work[c] = "none"
        /\ \A d \in Conns : d # c => task'[d] = task[d]
    BY <1>2, Zenon DEF PrepareConnection, CommitServed, CloseOld, Disconnect, DropTask,
       AbandonConnection, HandshakeEnds, LeaveLoop, PrepareAttach, CommitAttach, CloseReplaced,
       DisconnectIfCurrent, DropPermit, HandshakeFails, Leave, serverVars, connVars, WorkInv, TypeOK
  <2> QED BY <2>1, Zenon DEF WorkInv
<1>3. ASSUME NEW c \in Conns, NEW w \in Requests, Receive(c, w) PROVE WorkInv'
  BY <1>3, Zenon DEF Receive, WorkInv, vars, taskVars, serverVars, ConnTypes, ServerTypes
<1>4. ASSUME NEW c \in Conns,
             \/ Deliver(c) \/ RemoveConnection(c) \/ RemoveClosed(c) \/ SilenceRevoked(c)
             \/ CloseRevokedConnection(c)
      PROVE  UNCHANGED <<lock, work, task>>
  BY <1>4, Zenon DEF Deliver, RemoveConnection, RemoveClosed, SilenceRevoked, CloseRevokedConnection,
     CloseRevoked, vars, taskVars, serverVars, connVars
<1>5. ASSUME NEW c \in Conns, NEW s \in Sessions, BeginHandshake(c, s), UNCHANGED <<lock, work>>
      PROVE  WorkInv'
  BY <1>5, Zenon DEF BeginHandshake, WorkInv, TypeOK
<1>6. CASE RegistryStep
  <2>1. UNCHANGED <<lock, work>>
    BY <1>6, Zenon DEF RegistryStep, serverVars, connVars
  <2>2. UNCHANGED task \/ \E c \in Conns, s \in Sessions : BeginHandshake(c, s)
    BY <1>6, Zenon DEF RegistryStep, Issue, Deadline, Revoke, DropStale, taskVars
  <2> QED BY <1>5, <2>1, <2>2, Zenon DEF WorkInv
<1>7. ASSUME \/ WatchVpnState \/ SendVpnState \/ WatchTunnel \/ VpnStateChanges \/ BindingChanges
             \/ \E b \in Bindings : MonitorUpdates(b)
      PROVE  UNCHANGED <<lock, work, task>>
  BY <1>7, Zenon DEF WatchVpnState, SendVpnState, SendEvent, WatchTunnel, TakeBinding, BindTunnel,
     SendTunnelState, PublishSample, SelectBinding, SelectUpdate, PublishTunnel, VpnStateChanges,
     BindingChanges, MonitorUpdates, wsVars, vars, taskVars, serverVars, connVars
<1>8. CASE UNCHANGED <<lock, work, task>>
  BY <1>8, Zenon DEF WorkInv
<1>9. CASE UNCHANGED wsVars
  BY <1>8, <1>9, Zenon DEF wsVars, vars, taskVars, serverVars, connVars
<1> QED BY <1>1, <1>2, <1>3, <1>4, <1>6, <1>7, <1>8, <1>9, Zenon DEF WsNext, TaskProgress

Fresh == {"idle", "begun"}
Prepared == {"prepared", "failed"} \cup Serving

\* How a registry step moves tasks: none becomes new again, a prepared one stays
\* until its permit is dropped, and a close is final
LEMMA RegistryMoves ==
  ASSUME TypeOK, [Next]_vars, NEW d \in Conns
  PROVE  /\ closed[d] => closed'[d]
         /\ task[d] \in Prepared => task'[d] \in Prepared \/ closed'[d]
         /\ task'[d] \in Fresh => task[d] \in Fresh
<1> DEFINE Goal == /\ closed[d] => closed'[d]
                   /\ task[d] \in Prepared => task'[d] \in Prepared \/ closed'[d]
                   /\ task'[d] \in Fresh => task[d] \in Fresh
<1> USE DEF Fresh, Prepared, Serving
<1>1. CASE UNCHANGED <<task, closed>>
  BY <1>1, Zenon
<1>2. ASSUME NEW s \in Sessions, Issue(s) \/ Deadline(s) \/ Revoke(s) PROVE Goal
  BY <1>1, <1>2, Zenon DEF Issue, Deadline, Revoke, taskVars
<1>3. CASE DropStale \/ UNCHANGED vars
  BY <1>1, <1>3, Zenon DEF DropStale, vars, taskVars
<1>4. ASSUME NEW c \in Conns,
             PrepareAttach(c) \/ CommitAttach(c) \/ DisconnectIfCurrent(c) \/ HandshakeFails(c)
               \/ Leave(c)
      PROVE  Goal
  BY <1>4, Zenon DEF PrepareAttach, CommitAttach, DisconnectIfCurrent, HandshakeFails, Leave, TypeOK
<1>5. ASSUME NEW c \in Conns, CloseReplaced(c) \/ DropPermit(c) \/ CloseRevoked(c) PROVE Goal
  BY <1>5, Zenon DEF CloseReplaced, DropPermit, CloseRevoked, TypeOK
<1>6. ASSUME NEW c \in Conns, NEW s \in Sessions, BeginHandshake(c, s) PROVE Goal
  BY <1>6, Zenon DEF BeginHandshake, TypeOK
<1>7. ASSUME NEW c \in Conns,
             \/ \E t \in BOOLEAN, a \in Attempts : ReserveConnection(c, t, a)
             \/ \E e \in Conns : StopNonTunnelAttachment(c, e)
      PROVE  Goal
  BY <1>1, <1>7, Zenon DEF ReserveConnection, StopNonTunnelAttachment, taskVars
<1>8. ASSUME NEW cs \in SUBSET Conns, CloseSlow(cs) PROVE Goal
  BY <1>8, Zenon DEF CloseSlow, TypeOK
<1>9. ASSUME NEW a \in Attempts, AttemptStep(a) \/ CommitConnection(a) \/ AttemptEnds(a) PROVE Goal
  BY <1>1, <1>9, Zenon DEF AttemptStep, ReleaseSlot, SignalCompletion, CommitConnection, AttemptEnds,
     taskVars
<1> QED BY <1>2, <1>3, <1>4, <1>5, <1>6, <1>7, <1>8, <1>9, Zenon DEF Next, TaskStep

\* What a step of the server does to a connection that is still new: nothing. A
\* connection is listed by prepare_connection only.
LEMMA ConnectionFrame ==
  ASSUME TypeOK, WsTypeOK, WorkInv, FreshInv, [WsNext]_wsVars, NEW d \in Conns,
         task'[d] \in Fresh => task[d] \in Fresh
  PROVE  /\ d \in connections' => d \in connections \/ (task[d] = "begun" /\ task'[d] = "prepared")
         /\ task'[d] \in Fresh =>
              /\ queue'[d] = queue[d] /\ view'[d] = view[d]
              /\ enabled'[d] => enabled[d]
              /\ statistics'[d] \in {None, statistics[d]}
<1> DEFINE Goal ==
             /\ d \in connections' => d \in connections \/ (task[d] = "begun" /\ task'[d] = "prepared")
             /\ task'[d] \in Fresh =>
                  /\ queue'[d] = queue[d] /\ view'[d] = view[d]
                  /\ enabled'[d] => enabled[d]
                  /\ statistics'[d] \in {None, statistics[d]}
<1> SUFFICES Goal OBVIOUS
<1> USE DEF WsTypeOK, Fresh
<1>1. CASE UNCHANGED <<connections, queue, view, enabled, statistics>>
  BY <1>1, Zenon
<1>2. ASSUME NEW c \in Conns, PrepareConnection(c) PROVE Goal
  <2>1. UNCHANGED <<view, enabled, statistics>> /\ task[c] = "begun"
    BY <1>2, Zenon DEF PrepareConnection, PrepareAttach
  <2>2. CASE Valid(c)
    <3>1. /\ task' = [task EXCEPT ![c] = "prepared"]
          /\ connections' = connections \cup {c} /\ Push(c, Snapshot("attached"))
      BY <1>2, <2>2, Zenon DEF PrepareConnection, PrepareAttach
    <3>2. d # c => queue'[d] = queue[d]
      BY <3>1, Zenon DEF Push, ConnTypes
    <3>3. task'[c] = "prepared"
      BY <3>1, Zenon DEF TypeOK
    <3> QED BY <2>1, <3>1, <3>2, <3>3, Zenon
  <2>3. CASE ~Valid(c)
    BY <1>1, <1>2, <2>1, <2>3, Zenon DEF PrepareConnection
  <2> QED BY <2>2, <2>3, Zenon
<1>3. ASSUME NEW c \in Conns, Deliver(c) PROVE Goal
  BY <1>3, Zenon DEF Deliver, ConnTypes, serverVars
<1>4. ASSUME NEW c \in Conns, CommitServed(c) PROVE Goal
  <2>1. /\ \E gone : connections' = connections \ gone
        /\ \E cs : Silence(cs)
        /\ UNCHANGED <<queue, view>>
    BY <1>4, Zenon DEF CommitServed
  <2> QED BY <2>1, Zenon DEF Silence
<1>5. ASSUME NEW c \in Conns, CloseOld(c) \/ SilenceRevoked(c) PROVE Goal
  BY <1>5, Zenon DEF CloseOld, SilenceRevoked, Silence, serverVars
<1>6. ASSUME NEW c \in Conns, RemoveConnection(c) \/ RemoveClosed(c) \/ AbandonConnection(c)
      PROVE  Goal
  BY <1>6, Zenon DEF RemoveConnection, RemoveClosed, AbandonConnection
<1>7. ASSUME NEW c \in Conns,
             \/ Disconnect(c) \/ DropTask(c) \/ HandshakeEnds(c) \/ LeaveLoop(c)
             \/ CloseRevokedConnection(c) \/ \E w \in Requests : Receive(c, w)
      PROVE  Goal
  BY <1>1, <1>7, Zenon DEF Disconnect, DropTask, HandshakeEnds, LeaveLoop, CloseRevokedConnection,
     Receive, serverVars, connVars
<1>8. ASSUME NEW c \in Conns, SendSnapshot(c) \/ CheckStatistics(c) \/ SetStatistics(c) PROVE Goal
  <2>1. work[c] # "none"
    BY <1>8, RegistryAssumption, Zenon DEF SendSnapshot, CheckStatistics, SetStatistics, WorkInv
  <2>2. task[c] = "running"
    BY <2>1, Zenon DEF WorkInv
  <2>3. UNCHANGED <<connections, view>>
    BY <1>8, Zenon DEF SendSnapshot, CheckStatistics, SetStatistics, serverVars
  <2>4. d # c => queue'[d] = queue[d]
    BY <1>8, Zenon DEF SendSnapshot, CheckStatistics, SetStatistics, Answer, Push, ConnTypes
  <2>5. d # c => enabled'[d] = enabled[d] /\ statistics'[d] = statistics[d]
    BY <1>8, Zenon DEF SendSnapshot, CheckStatistics, SetStatistics, ConnTypes
  <2> QED BY <2>2, <2>3, <2>4, <2>5, Zenon
<1>9. ASSUME NEW e, NEW snap, SendEvent(e, snap) PROVE Goal
  <2>1. PICK kept \in SUBSET connections, gone \in SUBSET Conns :
          /\ connections' = kept /\ Silence(gone) /\ UNCHANGED view
          /\ \A c \in Conns : c \notin kept => queue'[c] = queue[c]
    <3> DEFINE k == IF revision = MaxRevision THEN {} ELSE Keeping
    <3>1. k \in SUBSET connections
      BY Zenon DEF Keeping
    <3>2. connections' = k /\ Silence(connections \ k) /\ UNCHANGED view
      BY <1>9, Zenon DEF SendEvent
    <3>3. \A c \in Conns : c \notin k => queue'[c] = queue[c]
      BY <1>9, Zenon DEF SendEvent
    <3>4. connections \ k \in SUBSET Conns
      BY Zenon DEF ServerTypes
    <3> HIDE DEF k
    <3> QED BY <3>1, <3>2, <3>3, <3>4, Zenon
  <2> QED BY <2>1, Zenon DEF Silence, FreshInv
<1>10. CASE SendVpnState \/ SendTunnelState
  BY <1>9, <1>10, Zenon DEF SendVpnState, SendTunnelState
<1>11. CASE BindTunnel \/ PublishSample
  BY <1>11, Zenon DEF BindTunnel, PublishSample, ClearSamples, Publish, serverVars, FreshInv
<1>12. CASE \/ WatchVpnState \/ TakeBinding \/ SelectBinding \/ SelectUpdate \/ PublishTunnel
            \/ VpnStateChanges \/ BindingChanges \/ \E b \in Bindings : MonitorUpdates(b)
  BY <1>1, <1>12, Zenon DEF WatchVpnState, TakeBinding, SelectBinding, SelectUpdate, PublishTunnel,
     VpnStateChanges, BindingChanges, MonitorUpdates, serverVars, connVars
<1>13. CASE RegistryStep \/ UNCHANGED wsVars
  BY <1>1, <1>13, Zenon DEF RegistryStep, wsVars, serverVars, connVars
<1> HIDE DEF Goal
<1>14. ASSUME NEW c \in Conns, TaskProgress(c) PROVE Goal
  BY <1>2, <1>3, <1>4, <1>5, <1>6, <1>7, <1>8, <1>14, Zenon DEF TaskProgress
<1>15. CASE WatchTunnel
  BY <1>10, <1>11, <1>12, <1>15, Zenon DEF WatchTunnel
<1> QED BY <1>5, <1>6, <1>7, <1>10, <1>12, <1>13, <1>14, <1>15, Zenon DEF WsNext

\* Except for bind_tunnel, a step keeps the binding; it refreshes the demand at
\* its end or adds nobody who wants statistics; only publish_statistics stores
\* samples
LEMMA StatisticsFrame ==
  ASSUME WsTypeOK, [WsNext]_wsVars, ~BindTunnel
  PROVE  /\ UNCHANGED binding
         /\ \/ RefreshDemand
            \/ UNCHANGED demand /\ \A c \in Conns : enabled'[c] => enabled[c]
         /\ PublishSample \/ \A c \in Conns : statistics'[c] \in {None, statistics[c]}
<1> DEFINE Goal ==
             /\ UNCHANGED binding
             /\ \/ RefreshDemand
                \/ UNCHANGED demand /\ \A c \in Conns : enabled'[c] => enabled[c]
             /\ PublishSample \/ \A c \in Conns : statistics'[c] \in {None, statistics[c]}
<1> SUFFICES Goal OBVIOUS
<1>1. CASE UNCHANGED <<binding, demand, enabled, statistics>>
  BY <1>1, Zenon
<1>2. ASSUME NEW cs, Silence(cs)
      PROVE  /\ \A c \in Conns : enabled'[c] => enabled[c]
             /\ \A c \in Conns : statistics'[c] \in {None, statistics[c]}
  BY <1>2, Zenon DEF Silence
<1>3. ASSUME NEW c \in Conns, PrepareConnection(c) \/ Deliver(c) \/ Disconnect(c) \/ DropTask(c)
               \/ SendSnapshot(c) \/ CheckStatistics(c) \/ HandshakeEnds(c) \/ LeaveLoop(c)
               \/ CloseRevokedConnection(c) \/ \E w \in Requests : Receive(c, w)
      PROVE  Goal
  BY <1>1, <1>3, Zenon DEF PrepareConnection, Deliver, Disconnect, DropTask, SendSnapshot,
     CheckStatistics, HandshakeEnds, LeaveLoop, CloseRevokedConnection, Receive, serverVars, connVars
<1>4. ASSUME NEW c \in Conns, CommitServed(c) PROVE Goal
  <2>1. /\ UNCHANGED binding /\ (UNCHANGED demand \/ RefreshDemand)
        /\ \E cs : Silence(cs)
    BY <1>4, Zenon DEF CommitServed
  <2> QED BY <1>2, <2>1, Zenon
<1>5. ASSUME NEW c \in Conns, CloseOld(c) \/ SilenceRevoked(c) PROVE Goal
  <2>1. UNCHANGED <<binding, demand>> /\ \E cs : Silence(cs)
    BY <1>5, Zenon DEF CloseOld, SilenceRevoked, serverVars
  <2> QED BY <1>2, <2>1, Zenon
<1>6. ASSUME NEW c \in Conns, RemoveConnection(c) \/ RemoveClosed(c) \/ AbandonConnection(c)
      PROVE  Goal
  BY <1>6, Zenon DEF RemoveConnection, RemoveClosed, AbandonConnection
<1>7. ASSUME NEW c \in Conns, SetStatistics(c) PROVE Goal
  <2>1. UNCHANGED binding /\ RefreshDemand
    BY <1>7, Zenon DEF SetStatistics
  <2>2. statistics' = statistics \/ statistics' = [statistics EXCEPT ![c] = None]
    BY <1>7, Zenon DEF SetStatistics
  <2> QED BY <2>1, <2>2, Zenon DEF WsTypeOK, ConnTypes
<1>8. CASE SendVpnState \/ SendTunnelState
  <2>1. /\ UNCHANGED binding /\ RefreshDemand
        /\ \E cs : Silence(cs)
    BY <1>8, Zenon DEF SendVpnState, SendTunnelState, SendEvent
  <2> QED BY <1>2, <2>1, Zenon
<1>9. CASE PublishSample
  BY <1>9, Zenon DEF PublishSample, serverVars
<1>10. CASE \/ WatchVpnState \/ TakeBinding \/ SelectBinding \/ SelectUpdate \/ PublishTunnel
            \/ VpnStateChanges \/ BindingChanges \/ \E b \in Bindings : MonitorUpdates(b)
  BY <1>1, <1>10, Zenon DEF WatchVpnState, TakeBinding, SelectBinding, SelectUpdate, PublishTunnel,
     VpnStateChanges, BindingChanges, MonitorUpdates, serverVars, connVars
<1>11. CASE RegistryStep \/ UNCHANGED wsVars
  BY <1>1, <1>11, Zenon DEF RegistryStep, wsVars, serverVars, connVars
<1> HIDE DEF Goal
<1>12. ASSUME NEW c \in Conns, TaskProgress(c) PROVE Goal
  BY <1>3, <1>4, <1>5, <1>6, <1>7, <1>12, Zenon DEF TaskProgress
<1>13. CASE WatchTunnel
  BY <1>8, <1>9, <1>10, <1>13, Zenon DEF WatchTunnel
<1> QED BY <1>3, <1>5, <1>6, <1>8, <1>10, <1>11, <1>12, <1>13, Zenon DEF WsNext

\* The server's bookkeeping is inductive
LEMMA ServerStep ==
  ASSUME TypeOK, WsTypeOK, ServerInv, [WsNext]_wsVars
  PROVE  ServerInv'
<1> USE DEF ServerInv, WsTypeOK
<1>1. [Next]_vars
  BY ServerRefines, Zenon
<1>2. ASSUME NEW d \in Conns
      PROVE  /\ closed[d] => closed'[d]
             /\ task[d] \in Prepared => task'[d] \in Prepared \/ closed'[d]
             /\ task'[d] \in Fresh => task[d] \in Fresh
  BY <1>1, RegistryMoves, Zenon
<1>3. ASSUME NEW d \in Conns
      PROVE  /\ d \in connections' => d \in connections \/ (task[d] = "begun" /\ task'[d] = "prepared")
             /\ task'[d] \in Fresh =>
                  /\ queue'[d] = queue[d] /\ view'[d] = view[d]
                  /\ enabled'[d] => enabled[d]
                  /\ statistics'[d] \in {None, statistics[d]}
  BY <1>2, ConnectionFrame, Zenon
<1>4. connections \subseteq Conns /\ connections' \subseteq Conns
  BY TypesStep, Zenon DEF ServerTypes
<1>5. WorkInv'
  BY WorkStep, Zenon
<1>6. ListedInv'
  BY <1>2, <1>3, <1>4, Zenon DEF ListedInv, Prepared
<1>7. FreshInv'
  <2> SUFFICES ASSUME NEW c \in Conns, task'[c] \in Fresh
               PROVE  /\ queue'[c] = <<>> /\ view'[c] = NoView
                      /\ c \notin connections' /\ ~enabled'[c] /\ statistics'[c] = None
    BY Zenon DEF FreshInv, Fresh, NoView
  <2>1. /\ queue[c] = <<>> /\ view[c] = NoView
        /\ c \notin connections /\ ~enabled[c] /\ statistics[c] = None
    BY <1>2, Zenon DEF FreshInv, Fresh
  <2>2. "prepared" \notin Fresh
    BY Zenon DEF Fresh
  <2> QED BY <1>3, <2>1, <2>2, Zenon
<1>8. SamplesAreCurrent'
  <2>1. CASE BindTunnel
    BY <1>4, <2>1, Zenon DEF BindTunnel, ClearSamples, SamplesAreCurrent
  <2>2. CASE PublishSample
    BY <1>4, <2>2, Zenon DEF PublishSample, Publish, SamplesAreCurrent, serverVars
  <2>3. CASE ~BindTunnel /\ ~PublishSample
    <3>1. UNCHANGED binding /\ \A c \in Conns : statistics'[c] \in {None, statistics[c]}
      BY <2>3, StatisticsFrame, Zenon
    <3> SUFFICES ASSUME NEW c \in connections' PROVE statistics[c] \in {None, binding}
      BY <1>4, <3>1, Zenon DEF SamplesAreCurrent
    <3>2. c \in connections \/ task[c] = "begun"
      BY <1>3, <1>4, Zenon
    <3> QED BY <1>4, <3>2, Zenon DEF SamplesAreCurrent, FreshInv
  <2> QED BY <2>1, <2>2, <2>3, Zenon
<1>9. DemandFollowsBinding'
  <2> DEFINE Want == \E c \in connections : enabled[c] /\ ~closed[c]
  <2>1. CASE BindTunnel
    <3>1. /\ binding' = taken /\ taken \in Bindings
          /\ SwitchDemand(Want) /\ Want' = Want
      BY <2>1, Zenon DEF BindTunnel, vars, taskVars, WatchTypes
    <3>2. \A b \in Bindings : demand'[b] => b = binding'
      BY <3>1, Zenon DEF SwitchDemand, DemandFollowsBinding
    <3>3. Monitored(binding') /\ Want' => demand'[binding']
      BY <3>1, Zenon DEF SwitchDemand
    <3> QED BY <3>2, <3>3, Zenon DEF DemandFollowsBinding, Monitored
  <2>2. CASE UNCHANGED binding /\ RefreshDemand
    <3>1. /\ demand' = IF Monitored(binding') THEN [demand EXCEPT ![binding'] = Want'] ELSE demand
          /\ binding' \in Bindings /\ demand \in [Bindings -> BOOLEAN]
      BY <2>2, Zenon DEF RefreshDemand, ServerTypes
    <3> HIDE DEF Want
    <3>2. \A b \in Bindings : demand'[b] => b = binding'
      BY <2>2, <3>1, Zenon DEF DemandFollowsBinding
    <3>3. Monitored(binding') /\ Want' => demand'[binding']
      BY <3>1, Zenon
    <3> QED BY <3>2, <3>3, Zenon DEF DemandFollowsBinding, Want, Monitored
  <2>3. CASE UNCHANGED <<binding, demand>> /\ \A c \in Conns : enabled'[c] => enabled[c]
    <3>1. ASSUME NEW c \in connections', enabled'[c], ~closed'[c] PROVE Want
      BY <1>2, <1>3, <1>4, <2>3, <3>1, Zenon DEF FreshInv
    <3> QED BY <2>3, <3>1, Zenon DEF DemandFollowsBinding, Monitored
  <2> QED BY <2>1, <2>2, <2>3, StatisticsFrame, Zenon
<1> QED BY <1>5, <1>6, <1>7, <1>8, <1>9, Zenon
-----------------------------------------------------------------------------
(* Streams: what was written to a client, then what its queue holds *)

Revisions == 0 .. MaxRevision \cup {None}

\* At for a queue and the revision that was written last
Reaches(q, v, i, r) ==
  \/ \E j \in 1 .. i - 1 : /\ q[j].rev # None /\ q[j].rev = r
                           /\ \A k \in j + 1 .. i - 1 : q[k].rev = None
  \/ v = r /\ \A k \in 1 .. i - 1 : q[k].rev = None

Follows(q, v, i) ==
  \/ q[i].kind = "reply"
  \/ q[i].kind = "attached" /\ i = 1 /\ Reaches(q, v, i, None)
  \/ q[i].kind = "snapshot" /\ \E r \in 0 .. q[i].rev : Reaches(q, v, i, r)
  \/ q[i].kind \in {"vpn", "tunnel"} /\ Reaches(q, v, i, q[i].rev - 1)

\* What StreamInv says of one connection, n being the server's revision
Stream(q, v, n, listed) ==
  /\ v = None /\ q # <<>> => q[1].rev # None
  /\ Len(q) <= QueueCap
  /\ q # <<>> \/ v # None => \E r \in 0 .. n : Reaches(q, v, Len(q) + 1, r)
  /\ listed => Reaches(q, v, Len(q) + 1, n)
  /\ \A i \in 1 .. Len(q) : Follows(q, v, i)

\* A message that is appended changes nothing before it
LEMMA AppendReaches ==
  ASSUME NEW q \in Seq(Messages), NEW m \in Messages, NEW v,
         NEW i \in 1 .. Len(q) + 1, NEW r, Reaches(q, v, i, r)
  PROVE  Reaches(Append(q, m), v, i, r)
<1>1. \A k \in 1 .. i - 1 : k \in 1 .. Len(q) /\ Append(q, m)[k] = q[k]
  OBVIOUS
<1>2. ASSUME NEW j \in 1 .. i - 1, NEW k \in j + 1 .. i - 1 PROVE k \in 1 .. i - 1
  OBVIOUS
<1> QED BY <1>1, <1>2 DEF Reaches

LEMMA AppendFollows ==
  ASSUME NEW q \in Seq(Messages), NEW m \in Messages, NEW v,
         NEW i \in 1 .. Len(q), Follows(q, v, i)
  PROVE  Follows(Append(q, m), v, i)
<1>1. Append(q, m)[i] = q[i] /\ i \in 1 .. Len(q) + 1
  OBVIOUS
<1> QED BY <1>1, AppendReaches, Zenon DEF Follows

\* The stream ends at the revision of a message that carries one, ...
LEMMA AppendCarries ==
  ASSUME NEW q \in Seq(Messages), NEW m \in Messages, NEW v, m.rev # None
  PROVE  Reaches(Append(q, m), v, Len(Append(q, m)) + 1, m.rev)
<1> DEFINE p == Append(q, m)
<1>1. Len(p) = Len(q) + 1 /\ p[Len(p)] = m /\ Len(p) \in 1 .. Len(p) + 1 - 1
  OBVIOUS
<1>2. \A k \in Len(p) + 1 .. Len(p) + 1 - 1 : FALSE
  BY <1>1
<1> QED BY <1>1, <1>2 DEF Reaches

\* ... and where it ended before if the message carries none
LEMMA AppendSkips ==
  ASSUME NEW q \in Seq(Messages), NEW m \in Messages, NEW v, NEW r,
         m.rev = None, Reaches(q, v, Len(q) + 1, r)
  PROVE  Reaches(Append(q, m), v, Len(Append(q, m)) + 1, r)
<1> DEFINE p == Append(q, m)
<1>1. Len(p) = Len(q) + 1
  OBVIOUS
<1>2. \A k \in 1 .. Len(p) + 1 - 1 : k \in 1 .. Len(q) + 1 - 1 \/ p[k].rev = None
  BY <1>1
<1>3. \A k \in 1 .. Len(q) + 1 - 1 : p[k] = q[k] /\ k \in 1 .. Len(p) + 1 - 1
  BY <1>1
<1>4. ASSUME NEW j \in 1 .. Len(q) + 1 - 1, NEW k \in j + 1 .. Len(p) + 1 - 1
      PROVE  k \in j + 1 .. Len(q) + 1 - 1 \/ p[k].rev = None
  BY <1>1
<1>5. ASSUME NEW j \in 1 .. Len(q) + 1 - 1, NEW k \in j + 1 .. Len(q) + 1 - 1
      PROVE  p[k] = q[k]
  OBVIOUS
<1> HIDE DEF p
<1>6. Reaches(p, v, Len(p) + 1, r)
  BY <1>2, <1>3, <1>4, <1>5 DEF Reaches
<1> QED BY <1>6 DEF p

\* Appending a message that follows keeps a stream sound: one that carries the
\* server's new revision, or a reply to a client that knows a revision
LEMMA AppendStream ==
  ASSUME NEW q \in Seq(Messages), NEW m \in Messages, NEW v \in Revisions,
         NEW n \in 0 .. MaxRevision, NEW l, NEW listed,
         Stream(q, v, n, l), Len(q) < QueueCap,
         Follows(Append(q, m), v, Len(q) + 1),
         \/ m.rev \in 0 .. MaxRevision
         \/ m.rev = None /\ v # None /\ (listed => l)
  PROVE  Stream(Append(q, m), v, IF m.rev = None THEN n ELSE m.rev, listed)
<1> DEFINE p == Append(q, m)
           w == IF m.rev = None THEN n ELSE m.rev
<1>1. p \in Seq(Messages) /\ Len(p) = Len(q) + 1 /\ p # <<>>
  OBVIOUS
<1>2. v = None => p[1].rev # None
  <2>1. CASE q = <<>>
    BY <2>1, ServerAssumption DEF Revisions
  <2>2. CASE q # <<>>
    BY <2>2 DEF Stream
  <2> QED BY <2>1, <2>2
<1>3. Len(p) <= QueueCap
  BY <1>1, ServerAssumption DEF Stream
<1>4. /\ \E r \in 0 .. w : Reaches(p, v, Len(p) + 1, r)
      /\ listed => Reaches(p, v, Len(p) + 1, w)
  <2>1. CASE m.rev \in 0 .. MaxRevision
    <3>1. m.rev # None /\ m.rev \in 0 .. m.rev
      BY <2>1, ServerAssumption
    <3> QED BY <3>1, AppendCarries
  <2>2. CASE m.rev = None /\ v # None /\ (listed => l)
    BY <2>2, AppendSkips, Zenon DEF Stream
  <2> QED BY <2>1, <2>2
<1>5. \A i \in 1 .. Len(p) : Follows(p, v, i)
  <2> SUFFICES ASSUME NEW i \in 1 .. Len(p) PROVE Follows(p, v, i)
    OBVIOUS
  <2>1. i \in 1 .. Len(q) \/ i = Len(q) + 1
    BY <1>1
  <2> QED BY <2>1, AppendFollows, Zenon DEF Stream
<1> HIDE DEF p, w
<1>6. Stream(p, v, w, listed)
  BY <1>1, <1>2, <1>3, <1>4, <1>5, Zenon DEF Stream
<1> QED BY <1>6 DEF p, w

\* Writing the head of the queue moves no later message in the stream
LEMMA TailReaches ==
  ASSUME NEW q \in Seq(Messages), q # <<>>, NEW v, NEW r, NEW i \in 1 .. Len(q),
         Reaches(q, v, i + 1, r)
  PROVE  Reaches(Tail(q), IF q[1].rev = None THEN v ELSE q[1].rev, i, r)
<1> DEFINE p == Tail(q)
           w == IF q[1].rev = None THEN v ELSE q[1].rev
<1>1. \A k \in 1 .. i - 1 : k + 1 \in 2 .. i + 1 - 1 /\ p[k] = q[k + 1]
  OBVIOUS
<1>2. CASE \E j \in 1 .. i + 1 - 1 : /\ q[j].rev # None /\ q[j].rev = r
                                     /\ \A k \in j + 1 .. i + 1 - 1 : q[k].rev = None
  <2>1. PICK j \in 1 .. i + 1 - 1 : /\ q[j].rev # None /\ q[j].rev = r
                                    /\ \A k \in j + 1 .. i + 1 - 1 : q[k].rev = None
    BY <1>2
  <2>2. CASE j = 1
    <3>1. w = r
      BY <2>1, <2>2
    <3>2. \A k \in 1 .. i - 1 : p[k].rev = None
      BY <1>1, <2>1, <2>2
    <3> QED BY <3>1, <3>2, Zenon DEF Reaches
  <2>3. CASE j # 1
    <3>1. j - 1 \in 1 .. i - 1 /\ p[j - 1] = q[j]
      BY <1>1, <2>3
    <3>2. \A k \in (j - 1) + 1 .. i - 1 : p[k].rev = None
      BY <1>1, <2>1, <2>3
    <3> QED BY <2>1, <3>1, <3>2, Zenon DEF Reaches
  <2> QED BY <2>2, <2>3
<1>3. CASE v = r /\ \A k \in 1 .. i + 1 - 1 : q[k].rev = None
  <2>1. w = r
    BY <1>3
  <2>2. \A k \in 1 .. i - 1 : p[k].rev = None
    BY <1>1, <1>3
  <2> QED BY <2>1, <2>2, Zenon DEF Reaches
<1> QED BY <1>2, <1>3 DEF Reaches

\* Writing the head of the queue keeps a stream sound
LEMMA TailStream ==
  ASSUME NEW q \in Seq(Messages), q # <<>>, NEW v \in Revisions,
         NEW n \in 0 .. MaxRevision, NEW listed, Stream(q, v, n, listed)
  PROVE  LET w == IF q[1].rev = None THEN v ELSE q[1].rev
         IN Stream(Tail(q), w, n, listed) /\ w # None
<1> DEFINE p == Tail(q)
           w == IF q[1].rev = None THEN v ELSE q[1].rev
<1>1. /\ p \in Seq(Messages) /\ Len(p) = Len(q) - 1 /\ Len(q) \in 1 .. Len(q)
      /\ \A i \in 1 .. Len(p) : p[i] = q[i + 1] /\ i + 1 \in 1 .. Len(q) /\ i \in 1 .. Len(q)
                                /\ i + 1 # 1
  OBVIOUS
<1>2. w # None
  BY DEF Stream
<1>3. Len(p) <= QueueCap
  BY <1>1, ServerAssumption DEF Stream
<1>4. ASSUME NEW r, Reaches(q, v, Len(q) + 1, r) PROVE Reaches(p, w, Len(p) + 1, r)
  <2>1. Reaches(p, w, Len(q), r)
    BY <1>1, <1>4, TailReaches
  <2> QED BY <1>1, <2>1
<1>5. (\E r \in 0 .. n : Reaches(p, w, Len(p) + 1, r)) /\ (listed => Reaches(p, w, Len(p) + 1, n))
  BY <1>4, Zenon DEF Stream
<1>6. ASSUME NEW i \in 1 .. Len(p) PROVE Follows(p, w, i)
  <2>1. Follows(q, v, i + 1) /\ p[i] = q[i + 1] /\ i \in 1 .. Len(q) /\ i + 1 # 1
    BY <1>1, Zenon DEF Stream
  <2>2. ASSUME NEW r, Reaches(q, v, i + 1, r) PROVE Reaches(p, w, i, r)
    BY <2>1, <2>2, TailReaches, Zenon
  <2> HIDE DEF p, w
  <2> QED BY <2>1, <2>2, Zenon DEF Follows
<1> HIDE DEF p, w
<1>7. Stream(p, w, n, listed) /\ w # None
  BY <1>2, <1>3, <1>5, <1>6, Zenon DEF Stream
<1> QED BY <1>7 DEF p, w

\* What a step does to the stream of one connection: it leaves it alone, ...
Kept(d) ==
  /\ queue'[d] = queue[d] /\ view'[d] = view[d]
  /\ revision' \in {revision, revision + 1}
  /\ d \in connections' => d \in connections /\ revision' = revision

\* ... writes the head of its queue, ...
Wrote(d) ==
  /\ queue[d] # <<>> /\ queue'[d] = Tail(queue[d])
  /\ view'[d] = Apply(view[d], Head(queue[d]))
  /\ UNCHANGED <<revision, connections>>

\* ... or queues an answer, the first snapshot or an event
Enqueued(d, m) ==
  /\ Len(queue[d]) < QueueCap /\ queue'[d] = Append(queue[d], m) /\ view'[d] = view[d]
  /\ \/ /\ m = Reply \/ m = Snapshot("snapshot")
        /\ task[d] = "running" /\ UNCHANGED <<revision, connections>>
     \/ m = Snapshot("attached") /\ task[d] = "begun" /\ UNCHANGED revision
     \/ /\ m.kind \in {"vpn", "tunnel"} /\ m.rev = revision + 1
        /\ revision' = revision + 1 /\ revision' <= MaxRevision /\ d \in connections

StreamMove(d) == Kept(d) \/ Wrote(d) \/ \E m \in Messages : Enqueued(d, m)

LEMMA AnswerMoves ==
  ASSUME ConnTypes, NEW c \in Conns, NEW d \in Conns, NEW m \in Messages, Answer(c, m),
         m = Reply \/ m = Snapshot("snapshot"),
         task[c] = "running", UNCHANGED <<revision, connections, view>>
  PROVE  StreamMove(d)
<1>1. CASE Sendable(c) /\ d = c
  <2>1. Len(queue[c]) < QueueCap /\ queue'[c] = Append(queue[c], m)
    BY <1>1, Zenon DEF Answer, Push, Sendable, ConnTypes
  <2> QED BY <1>1, <2>1, Zenon DEF StreamMove, Enqueued
<1>2. CASE ~(Sendable(c) /\ d = c)
  BY <1>2, Zenon DEF Answer, Push, StreamMove, Kept, ConnTypes
<1> QED BY <1>1, <1>2, Zenon

LEMMA EventMoves ==
  ASSUME ServerTypes, ConnTypes, NEW d \in Conns, NEW e \in Messages, NEW snap,
         e.kind \in {"vpn", "tunnel"}, SendEvent(e, snap)
  PROVE  StreamMove(d)
<1>1. UNCHANGED view
  BY Zenon DEF SendEvent
<1>2. CASE revision = MaxRevision
  <2>1. connections' = {} /\ revision' = revision /\ queue'[d] = queue[d]
    BY <1>2, Zenon DEF SendEvent
  <2> QED BY <1>1, <2>1, Zenon DEF StreamMove, Kept
<1>3. CASE revision # MaxRevision
  <2> DEFINE m == [e EXCEPT !.rev = revision']
  <2>1. revision' = revision + 1 /\ revision' \in 0 .. MaxRevision
    BY <1>3, ServerAssumption DEF SendEvent, ServerTypes
  <2>2. m \in Messages /\ m.kind = e.kind /\ m.rev = revision + 1
    BY <2>1 DEF Messages
  <2> HIDE DEF m
  <2>3. /\ connections' = Keeping
        /\ queue'[d] = IF d \in Keeping /\ Sendable(d) THEN Append(queue[d], m) ELSE queue[d]
    BY <1>3, Zenon DEF SendEvent, m
  <2>4. CASE d \in Keeping
    <3>1. Len(queue[d]) < QueueCap /\ queue'[d] = Append(queue[d], m) /\ d \in connections
      BY <2>3, <2>4, Zenon DEF Keeping, Sendable
    <3>2. revision' <= MaxRevision
      BY <2>1, ServerAssumption
    <3> QED BY <1>1, <2>1, <2>2, <3>1, <3>2, Zenon DEF StreamMove, Enqueued
  <2>5. CASE d \notin Keeping
    BY <1>1, <2>1, <2>3, <2>5, Zenon DEF StreamMove, Kept
  <2> QED BY <2>4, <2>5
<1> QED BY <1>2, <1>3

LEMMA StreamFrame ==
  ASSUME TypeOK, WsTypeOK, WorkInv, FreshInv, [WsNext]_wsVars, NEW d \in Conns
  PROVE  StreamMove(d)
<1> USE DEF WsTypeOK
<1>1. ASSUME UNCHANGED <<queue, view, revision>>, connections' \subseteq connections
      PROVE  StreamMove(d)
  BY <1>1, Zenon DEF StreamMove, Kept
<1>2. ASSUME NEW c \in Conns, PrepareConnection(c) PROVE StreamMove(d)
  <2>1. UNCHANGED <<view, revision>> /\ task[c] = "begun"
    BY <1>2, Zenon DEF PrepareConnection, PrepareAttach
  <2>2. CASE Valid(c)
    <3>1. connections' = connections \cup {c} /\ Push(c, Snapshot("attached"))
      BY <1>2, <2>2, Zenon DEF PrepareConnection
    <3>2. CASE d = c
      <4>1. queue[c] = <<>> /\ queue'[c] = Append(queue[c], Snapshot("attached"))
        BY <2>1, <3>1, Zenon DEF FreshInv, Push, ConnTypes
      <4>2. Len(queue[c]) < QueueCap
        BY <4>1, ServerAssumption
      <4>3. Snapshot("attached") \in Messages
        BY SnapshotType, Zenon
      <4> QED BY <2>1, <3>2, <4>1, <4>2, <4>3, Zenon DEF StreamMove, Enqueued
    <3>3. CASE d # c
      BY <2>1, <3>1, <3>3, Zenon DEF Push, ConnTypes, StreamMove, Kept
    <3> QED BY <3>2, <3>3, Zenon
  <2>3. CASE ~Valid(c)
    BY <1>1, <1>2, <2>3, Zenon DEF PrepareConnection
  <2> QED BY <2>2, <2>3, Zenon
<1>3. ASSUME NEW c \in Conns, Deliver(c) PROVE StreamMove(d)
  <2>1. UNCHANGED <<revision, connections>>
    BY <1>3, Zenon DEF Deliver, serverVars
  <2>2. CASE d = c
    BY <1>3, <2>1, <2>2, Zenon DEF Deliver, StreamMove, Wrote, ConnTypes
  <2>3. CASE d # c
    BY <1>3, <2>1, <2>3, Zenon DEF Deliver, StreamMove, Kept, ConnTypes
  <2> QED BY <2>2, <2>3, Zenon
<1>4. ASSUME NEW c \in Conns, SendSnapshot(c) PROVE StreamMove(d)
  <2>1. /\ work[c] # "none" /\ Answer(c, Snapshot("snapshot"))
        /\ UNCHANGED <<revision, connections, view>>
    BY <1>4, Zenon DEF SendSnapshot, serverVars
  <2> QED BY <2>1, AnswerMoves, SnapshotType, Zenon DEF WorkInv
<1>5. ASSUME NEW c \in Conns, CheckStatistics(c) PROVE StreamMove(d)
  <2>1. work[c] # "none" /\ UNCHANGED <<revision, connections, view>>
    BY <1>5, Zenon DEF CheckStatistics
  <2>2. Answer(c, Reply) \/ UNCHANGED queue
    BY <1>5, Zenon DEF CheckStatistics
  <2> QED BY <1>1, <2>1, <2>2, AnswerMoves, ReplyType, Zenon DEF WorkInv
<1>6. ASSUME NEW c \in Conns, SetStatistics(c) PROVE StreamMove(d)
  <2>1. /\ lock = c /\ Answer(c, Reply) /\ UNCHANGED <<revision, connections, view>>
    BY <1>6, Zenon DEF SetStatistics
  <2>2. task[c] = "running"
    BY <2>1, RegistryAssumption, Zenon DEF WorkInv
  <2> QED BY <2>1, <2>2, AnswerMoves, ReplyType, Zenon
<1>7. ASSUME NEW c \in Conns, CommitServed(c) \/ AbandonConnection(c) \/ RemoveClosed(c)
               \/ RemoveConnection(c)
      PROVE  StreamMove(d)
  <2>1. UNCHANGED <<queue, view, revision>>
    BY <1>7, Zenon DEF CommitServed, AbandonConnection, RemoveClosed, RemoveConnection
  <2>2. connections' \subseteq connections
    BY <1>7, Zenon DEF CommitServed, AbandonConnection, RemoveClosed, RemoveConnection
  <2> QED BY <1>1, <2>1, <2>2, Zenon
<1>8. ASSUME NEW c \in Conns, HandshakeEnds(c) \/ LeaveLoop(c) \/ Disconnect(c) \/ DropTask(c)
               \/ CloseOld(c) \/ SilenceRevoked(c) \/ CloseRevokedConnection(c)
               \/ \E w \in Requests : Receive(c, w)
      PROVE  StreamMove(d)
  BY <1>1, <1>8, Zenon DEF HandshakeEnds, LeaveLoop, Disconnect, DropTask, CloseOld, SilenceRevoked,
     CloseRevokedConnection, Receive, serverVars, connVars
<1>9. CASE SendVpnState
  <2> DEFINE e == [kind |-> "vpn", rev |-> None, vpn |-> vpnTaken, tunnel |-> None]
  <2>1. e \in Messages /\ e.kind \in {"vpn", "tunnel"}
    BY DEF Messages, WatchTypes
  <2>2. PICK snap : SendEvent(e, snap)
    BY <1>9, Zenon DEF SendVpnState
  <2> HIDE DEF e
  <2> QED BY <2>1, <2>2, EventMoves
<1>10. CASE SendTunnelState
  <2> DEFINE e == [kind |-> "tunnel", rev |-> None, vpn |-> None, tunnel |-> current]
  <2>1. e \in Messages /\ e.kind \in {"vpn", "tunnel"}
    BY DEF Messages, WatchTypes
  <2>2. PICK snap : SendEvent(e, snap)
    BY <1>10, Zenon DEF SendTunnelState
  <2> HIDE DEF e
  <2> QED BY <2>1, <2>2, EventMoves
<1>11. CASE \/ WatchVpnState \/ TakeBinding \/ BindTunnel \/ PublishSample \/ SelectBinding
            \/ SelectUpdate \/ PublishTunnel \/ VpnStateChanges \/ BindingChanges
            \/ \E b \in Bindings : MonitorUpdates(b)
            \/ RegistryStep \/ UNCHANGED wsVars
  BY <1>1, <1>11, Zenon DEF WatchVpnState, TakeBinding, BindTunnel, PublishSample, SelectBinding,
     SelectUpdate, PublishTunnel, VpnStateChanges, BindingChanges, MonitorUpdates, RegistryStep,
     wsVars, serverVars, connVars
<1>12. ASSUME NEW c \in Conns, TaskProgress(c) PROVE StreamMove(d)
  BY <1>2, <1>3, <1>4, <1>5, <1>6, <1>7, <1>8, <1>12, Zenon DEF TaskProgress
<1>13. CASE WatchTunnel
  BY <1>10, <1>11, <1>13, Zenon DEF WatchTunnel
<1> QED BY <1>7, <1>8, <1>9, <1>11, <1>12, <1>13, Zenon DEF WsNext

\* A connection is served only once Attached was written to it
LEMMA ServingFrame ==
  ASSUME TypeOK, WsTypeOK, WorkInv, [WsNext]_wsVars, NEW d \in Conns,
         task'[d] \in Serving, task[d] \notin Serving
  PROVE  view[d] # NoView /\ UNCHANGED view
<1> DEFINE Goal == view[d] # NoView /\ UNCHANGED view
<1> SUFFICES Goal OBVIOUS
<1> USE DEF WsTypeOK, Serving
<1>1. ASSUME UNCHANGED task PROVE FALSE
  BY <1>1, Zenon
<1>2. ASSUME NEW c \in Conns, PrepareConnection(c) \/ AbandonConnection(c) \/ HandshakeEnds(c)
               \/ LeaveLoop(c) \/ Disconnect(c) \/ DropTask(c) \/ CloseOld(c)
      PROVE  FALSE
  <2>1. PrepareAttach(c) \/ HandshakeFails(c) \/ Leave(c) \/ DisconnectIfCurrent(c) \/ DropPermit(c)
          \/ CloseReplaced(c)
    BY <1>2, Zenon DEF PrepareConnection, AbandonConnection, HandshakeEnds, LeaveLoop, Disconnect,
       DropTask, CloseOld
  <2> QED BY <2>1, Zenon DEF PrepareAttach, HandshakeFails, Leave, DisconnectIfCurrent, DropPermit,
             CloseReplaced, TypeOK
<1>3. ASSUME NEW c \in Conns, CommitServed(c) PROVE Goal
  <2>1. view[c] # NoView /\ UNCHANGED view
    BY <1>3, Zenon DEF CommitServed
  <2>2. c = d
    BY <1>3, Zenon DEF CommitServed, CommitAttach, TypeOK
  <2> QED BY <2>1, <2>2, Zenon
<1>4. ASSUME NEW c \in Conns, NEW m, Answer(c, m), work[c] # "none" PROVE FALSE
  BY <1>4, Zenon DEF Answer, WorkInv, TypeOK
<1>5. ASSUME NEW c \in Conns, SendSnapshot(c) \/ CheckStatistics(c) PROVE FALSE
  BY <1>1, <1>4, <1>5, Zenon DEF SendSnapshot, CheckStatistics, vars, taskVars
<1>6. ASSUME NEW c \in Conns, SetStatistics(c) PROVE FALSE
  BY <1>4, <1>6, RegistryAssumption, Zenon DEF SetStatistics, WorkInv
<1>7. ASSUME NEW c \in Conns, \/ Deliver(c) \/ RemoveConnection(c) \/ RemoveClosed(c)
                              \/ SilenceRevoked(c) \/ CloseRevokedConnection(c)
                              \/ \E w \in Requests : Receive(c, w)
      PROVE  FALSE
  BY <1>1, <1>7, Zenon DEF Deliver, RemoveConnection, RemoveClosed, SilenceRevoked,
     CloseRevokedConnection, CloseRevoked, Receive, vars, taskVars
<1>8. CASE RegistryStep
  BY <1>1, <1>8, Zenon DEF RegistryStep, Issue, Deadline, Revoke, DropStale, BeginHandshake, TypeOK,
     taskVars
<1>9. CASE \/ WatchVpnState \/ SendVpnState \/ WatchTunnel \/ VpnStateChanges \/ BindingChanges
           \/ (\E b \in Bindings : MonitorUpdates(b)) \/ UNCHANGED wsVars
  BY <1>1, <1>9, Zenon DEF WatchVpnState, SendVpnState, SendEvent, WatchTunnel, TakeBinding,
     BindTunnel, SendTunnelState, PublishSample, SelectBinding, SelectUpdate, PublishTunnel,
     VpnStateChanges, BindingChanges, MonitorUpdates, wsVars, vars, taskVars
<1> HIDE DEF Goal
<1>10. ASSUME NEW c \in Conns, TaskProgress(c) PROVE Goal
  BY <1>2, <1>3, <1>5, <1>6, <1>7, <1>10, Zenon DEF TaskProgress
<1> QED BY <1>2, <1>7, <1>8, <1>9, <1>10, Zenon DEF WsNext

\* The conjuncts of StreamInv, connection by connection
Streams ==
  \A c \in Conns :
    /\ Stream(queue[c], view[c].rev, revision, c \in connections)
    /\ view[c].rev = None => view[c] = NoView /\ task[c] \notin Serving

LEMMA StreamInvByConnection == WsTypeOK => (StreamInv <=> Streams)
<1> SUFFICES ASSUME WsTypeOK PROVE StreamInv <=> Streams
  OBVIOUS
<1>1. \A c \in Conns : DOMAIN queue[c] = 1 .. Len(queue[c])
  BY DEF WsTypeOK, ConnTypes
<1>2. connections \subseteq Conns
  BY Zenon DEF WsTypeOK, ServerTypes
<1>3. \A c, i, r : At(c, i, r) = Reaches(queue[c], view[c].rev, i, r)
  BY Zenon DEF At, Reaches, Carries
<1>4. StreamContiguous <=> \A c \in Conns : \A i \in 1 .. Len(queue[c]) : Follows(queue[c], view[c].rev, i)
  BY <1>1, <1>3, Zenon DEF StreamContiguous, Follows
<1>5. StreamComplete <=> \A c \in Conns : c \in connections =>
        Reaches(queue[c], view[c].rev, Len(queue[c]) + 1, revision)
  BY <1>2, <1>3, Zenon DEF StreamComplete
<1>6. StreamEnd <=> \A c \in Conns :
        /\ Len(queue[c]) <= QueueCap
        /\ queue[c] # <<>> \/ view[c].rev # None =>
             \E r \in 0 .. revision : Reaches(queue[c], view[c].rev, Len(queue[c]) + 1, r)
  BY <1>3, Zenon DEF StreamEnd
<1> QED BY <1>4, <1>5, <1>6, Zenon DEF StreamInv, AttachedFirst, Streams, Stream, Carries

\* Each move keeps the stream of its connection sound
LEMMA MoveKeepsStream ==
  ASSUME WsTypeOK, WsTypeOK', StreamInv, NEW d \in Conns, StreamMove(d),
         task[d] = "begun" => queue[d] = <<>> /\ view[d] = NoView
  PROVE  /\ Stream(queue'[d], view'[d].rev, revision', d \in connections')
         /\ view'[d].rev = None => view'[d] = view[d]
<1> DEFINE q == queue[d]
           v == view[d].rev
           l == d \in connections
<1>1. /\ q \in Seq(Messages) /\ view[d] \in Views /\ v \in Revisions
      /\ revision \in 0 .. MaxRevision /\ revision' \in 0 .. MaxRevision
  BY DEF WsTypeOK, ServerTypes, ConnTypes, Views, Revisions
<1>2. Stream(q, v, revision, l) /\ (v = None => task[d] \notin Serving)
  BY StreamInvByConnection, Zenon DEF Streams
<1>3. CASE Kept(d)
  <2>1. queue'[d] = q /\ view'[d] = view[d]
    BY <1>3, Zenon DEF Kept
  <2>2. 0 .. revision \subseteq 0 .. revision'
    BY <1>1, <1>3 DEF Kept
  <2>3. Stream(q, v, revision', d \in connections')
    BY <1>2, <1>3, <2>2, Zenon DEF Stream, Kept
  <2> QED BY <2>1, <2>3, Zenon
<1>4. CASE Wrote(d)
  <2> DEFINE w == IF q[1].rev = None THEN v ELSE q[1].rev
  <2>1. q # <<>> /\ queue'[d] = Tail(q) /\ revision' = revision /\ connections' = connections
    BY <1>4, Zenon DEF Wrote
  <2>2. Head(q) = q[1] /\ Head(q) \in Messages
    BY <1>1, <2>1
  <2>3. view'[d].rev = w
    BY <1>1, <1>4, <2>2, ApplyType, Zenon DEF Wrote
  <2>4. Stream(Tail(q), w, revision, l) /\ w # None
    BY <1>1, <1>2, <2>1, TailStream, Zenon
  <2> HIDE DEF w
  <2> QED BY <2>1, <2>3, <2>4, Zenon
<1>5. ASSUME NEW m \in Messages, Enqueued(d, m)
      PROVE  Stream(queue'[d], view'[d].rev, revision', d \in connections') /\ view'[d] = view[d]
  <2>1. Len(q) < QueueCap /\ queue'[d] = Append(q, m) /\ view'[d] = view[d]
    BY <1>5, Zenon DEF Enqueued
  <2>2. Append(q, m)[Len(q) + 1] = m /\ Len(q) + 1 \in 1 .. Len(q) + 1
    BY <1>1
  <2>3. CASE m = Reply /\ task[d] = "running" /\ UNCHANGED <<revision, connections>>
    <3>1. m.rev = None /\ v # None
      BY <1>2, <2>3, ReplyType, Zenon DEF Serving
    <3>2. Follows(Append(q, m), v, Len(q) + 1)
      BY <2>2, <2>3, ReplyType, Zenon DEF Follows
    <3> HIDE DEF q, v
    <3>3. Stream(Append(q, m), v, IF m.rev = None THEN revision ELSE m.rev, l)
      BY <1>1, <1>2, <2>1, <3>1, <3>2, AppendStream, Zenon
    <3> QED BY <2>1, <2>3, <3>1, <3>3, Zenon DEF q, v
  <2>4. CASE m = Snapshot("snapshot") /\ task[d] = "running" /\ UNCHANGED <<revision, connections>>
    <3>1. m.rev = revision /\ m.kind = "snapshot" /\ v # None
      BY <1>2, <2>4, SnapshotType, Zenon DEF Serving, WsTypeOK
    <3>2. PICK r \in 0 .. revision : Reaches(q, v, Len(q) + 1, r)
      BY <1>2, <3>1, Zenon DEF Stream
    <3>3. Reaches(Append(q, m), v, Len(q) + 1, r)
      BY <1>1, <2>2, <3>2, AppendReaches
    <3>4. Follows(Append(q, m), v, Len(q) + 1)
      BY <2>2, <3>1, <3>3, Zenon DEF Follows
    <3> HIDE DEF q, v
    <3>5. Stream(Append(q, m), v, IF m.rev = None THEN revision ELSE m.rev, l)
      BY <1>1, <1>2, <2>1, <3>1, <3>4, AppendStream, Zenon
    <3> QED BY <2>1, <2>4, <3>1, <3>5, Zenon DEF q, v
  <2>5. CASE m = Snapshot("attached") /\ task[d] = "begun" /\ UNCHANGED revision
    <3>1. /\ m.rev = revision /\ m.kind = "attached" /\ q = <<>> /\ v = None
      BY <2>5, SnapshotType DEF WsTypeOK, NoView
    <3>2. Reaches(Append(q, m), v, 1, None) /\ Len(q) + 1 = 1
      BY <3>1 DEF Reaches
    <3>3. Follows(Append(q, m), v, Len(q) + 1)
      BY <2>2, <3>1, <3>2, Zenon DEF Follows
    <3> HIDE DEF q, v
    <3>4. Stream(Append(q, m), v, IF m.rev = None THEN revision ELSE m.rev, d \in connections')
      BY <1>1, <1>2, <2>1, <3>1, <3>3, AppendStream, Zenon
    <3> QED BY <2>1, <2>5, <3>1, <3>4, Zenon DEF q, v
  <2>6. CASE /\ m.kind \in {"vpn", "tunnel"} /\ m.rev = revision + 1
             /\ revision' = revision + 1 /\ revision' <= MaxRevision /\ d \in connections
    <3>1. m.rev \in 0 .. MaxRevision /\ m.rev # None /\ m.rev - 1 = revision
      BY <1>1, <2>6, ServerAssumption
    <3>2. Reaches(Append(q, m), v, Len(q) + 1, revision)
      BY <1>1, <1>2, <2>2, <2>6, AppendReaches DEF Stream
    <3>3. Follows(Append(q, m), v, Len(q) + 1)
      BY <2>2, <2>6, <3>1, <3>2, Zenon DEF Follows
    <3> HIDE DEF q, v
    <3>4. Stream(Append(q, m), v, IF m.rev = None THEN revision ELSE m.rev, d \in connections')
      BY <1>1, <1>2, <2>1, <3>1, <3>3, AppendStream, Zenon
    <3>5. revision' = IF m.rev = None THEN revision ELSE m.rev
      BY <2>6, <3>1
    <3> QED BY <2>1, <3>4, <3>5, Zenon DEF q, v
  <2> QED BY <1>5, <2>3, <2>4, <2>5, <2>6, Zenon DEF Enqueued
<1> QED BY <1>3, <1>4, <1>5, Zenon DEF StreamMove, Kept

\* StreamInv is inductive relative to the server's bookkeeping
LEMMA StreamStep ==
  ASSUME TypeOK, WsTypeOK, WsTypeOK', ServerInv, StreamInv, [WsNext]_wsVars
  PROVE  StreamInv'
<1> SUFFICES ASSUME NEW d \in Conns
             PROVE  /\ Stream(queue'[d], view'[d].rev, revision', d \in connections')
                    /\ view'[d].rev = None => view'[d] = NoView /\ task'[d] \notin Serving
  <2>1. Streams'
    BY Zenon DEF Streams
  <2> QED BY <2>1, StreamInvByConnection, PTL
<1>1. WorkInv /\ FreshInv
  BY Zenon DEF ServerInv
<1>2. StreamMove(d)
  BY <1>1, StreamFrame, Zenon
<1>3. /\ Stream(queue'[d], view'[d].rev, revision', d \in connections')
      /\ view'[d].rev = None => view'[d] = view[d]
  BY <1>1, <1>2, MoveKeepsStream, Zenon DEF FreshInv
<1>4. view[d].rev = None => view[d] = NoView /\ task[d] \notin Serving
  BY StreamInvByConnection, Zenon DEF Streams
<1>5. ASSUME view'[d].rev = None PROVE view'[d] = NoView /\ task'[d] \notin Serving
  <2>1. view[d].rev = None /\ view'[d] = view[d]
    BY <1>3, <1>5, Zenon
  <2>2. view[d] = NoView /\ task[d] \notin Serving
    BY <1>4, <2>1, Zenon
  <2> QED BY <1>1, <2>1, <2>2, ServingFrame, Zenon
<1> QED BY <1>3, <1>5, Zenon
-----------------------------------------------------------------------------
(* The theorems *)

WsInv == TypeOK /\ RegistryInv /\ WsTypeOK /\ ServerInv /\ StreamInv

LEMMA WsInitInv == WsInit => WsInv
<1> SUFFICES ASSUME WsInit PROVE WsInv
  OBVIOUS
<1>1. TypeOK /\ RegistryInv
  BY InitInv, Zenon DEF WsInit
<1>2. WsTypeOK
  <2>1. ServerTypes
    BY ServerAssumption DEF WsInit, ServerTypes, Bindings
  <2>2. ConnTypes
    <3>1. NoView \in Views /\ <<>> \in Seq(Messages)
      BY DEF NoView, Views
    <3> QED BY <3>1, Zenon DEF WsInit, ConnTypes
  <2>3. WatchTypes
    <3>1. 0 \in 0 .. MaxVpn /\ 0 \in Bindings /\ 0 \in 0 .. MaxTunnel
      BY ServerAssumption DEF Bindings
    <3> QED BY <3>1, Zenon DEF WsInit, WatchTypes
  <2> QED BY <2>1, <2>2, <2>3, Zenon DEF WsTypeOK
<1>3. ServerInv
  BY Zenon DEF WsInit, ServerInv, WorkInv, ListedInv, FreshInv, SamplesAreCurrent, DemandFollowsBinding
<1>4. Streams
  <2> SUFFICES ASSUME NEW c \in Conns
               PROVE  /\ Stream(queue[c], view[c].rev, revision, c \in connections)
                      /\ view[c] = NoView /\ task[c] \notin Serving
    BY Zenon DEF Streams
  <2>1. queue[c] = <<>> /\ view[c] = NoView /\ c \notin connections /\ task[c] = "idle"
    BY Zenon DEF WsInit, Init
  <2>2. view[c].rev = None
    BY <2>1 DEF NoView
  <2>3. Len(queue[c]) <= QueueCap /\ \A i \in 1 .. Len(queue[c]) : FALSE
    BY <2>1, ServerAssumption
  <2> QED BY <2>1, <2>2, <2>3, Zenon DEF Stream, Serving
<1> QED BY <1>1, <1>2, <1>3, <1>4, StreamInvByConnection, Zenon DEF WsInv

LEMMA WsInvStep == WsInv /\ [WsNext]_wsVars => WsInv' /\ [Next]_vars
<1> SUFFICES ASSUME WsInv, [WsNext]_wsVars PROVE WsInv' /\ [Next]_vars
  OBVIOUS
<1> USE DEF WsInv
<1>1. [Next]_vars
  BY ServerRefines, Zenon DEF WsTypeOK, ServerInv
<1>2. TypeOK' /\ RegistryInv'
  BY <1>1, TypeStep, InvStep, Zenon
<1>3. WsTypeOK'
  BY TypesStep, Zenon
<1>4. ServerInv'
  BY ServerStep, Zenon
<1>5. StreamInv'
  BY <1>3, StreamStep, Zenon
<1> QED BY <1>1, <1>2, <1>3, <1>4, <1>5, Zenon

\* The server's variables have their types, and its bookkeeping of mutex, list,
\* demand, samples and streams holds in every reachable state.
THEOREM ServerInvariant == WsSpec => []WsInv
  BY WsInitInv, WsInvStep, PTL DEF WsSpec

\* Every step of WsServer on the registry is one of SessionRegistry's protocol,
\* also a close by send_event and the return of a loop whose queue is full.
THEOREM ServerImplementsRegistry == WsSpec => ImplementsRegistry
<1>1. WsInit => Init
  BY Zenon DEF WsInit
<1> QED BY <1>1, ServerInvariant, WsInvStep, PTL DEF WsSpec, ImplementsRegistry, Spec

\* So the registry's invariants hold of the server.
THEOREM ServedRegistry == WsSpec => []RegistryInv
  BY ServerImplementsRegistry, RegistryInvariant, PTL DEF ImplementsRegistry

\* bind_tunnel leaves no connection with a sample of another tunnel, whatever
\* set_statistics_enabled and the revocations do around it.
THEOREM SamplesFollowBinding == WsSpec => []SamplesAreCurrent
<1>1. WsInv => SamplesAreCurrent
  BY Zenon DEF WsInv, ServerInv
<1> QED BY <1>1, ServerInvariant, PTL

\* The bound monitor collects when an open connection wants statistics, and no
\* other monitor does, though revoke clears the flags without the mutex.
THEOREM DemandIsBound == WsSpec => []DemandFollowsBinding
<1>1. WsInv => DemandFollowsBinding
  BY Zenon DEF WsInv, ServerInv
<1> QED BY <1>1, ServerInvariant, PTL

\* Attached comes first, event revisions have no gap and a Resync never takes a
\* client back, for queues of any length and any number of connections.
THEOREM StreamsAreContiguous == WsSpec => []StreamContiguous
<1>1. WsInv => StreamContiguous
  BY Zenon DEF WsInv, StreamInv
<1> QED BY <1>1, ServerInvariant, PTL

\* send_event drops a connection rather than an event: a listed connection that
\* has read its queue is at the server's revision.
THEOREM StreamsAreComplete == WsSpec => []StreamComplete
<1>1. WsInv => StreamComplete
  BY Zenon DEF WsInv, StreamInv
<1> QED BY <1>1, ServerInvariant, PTL
=============================================================================
