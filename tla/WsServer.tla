------------------------------ MODULE WsServer ------------------------------
(***************************************************************************)
(* The WebSocket server of the service, on top of the session registry:    *)
(* the state behind its async mutex (revision, snapshot, connections,      *)
(* tunnel binding), the bounded command queue of every connection, the     *)
(* two watchers that turn lifecycle and tunnel changes into numbered       *)
(* events, and the tunnel statistics that clients subscribe to.            *)
(*                                                                         *)
(* One action is one critical section of the mutex. set_statistics_enabled *)
(* holds the mutex over a call into the registry and over the control's    *)
(* atomics, which revoke changes without it, and is two actions. States    *)
(* are version numbers: the n-th VPN state, the n-th state of a monitor.   *)
(***************************************************************************)
EXTENDS SessionRegistry, Sequences

CONSTANTS
  QueueCap,     \* CONNECTION_QUEUE
  MaxRevision,  \* u64::MAX
  Requests,     \* what clients send: Resync, SetTunnelStatisticsEnabled on or off
  MaxVpn,       \* bound: VPN states published after the first
  MaxBinding,   \* bound: tunnel bindings published after the first
  MaxTunnel     \* bound: state changes of one monitor

ASSUME ServerAssumption ==
  /\ QueueCap \in Nat \ {0} /\ MaxRevision \in Nat
  /\ Requests \subseteq {"resync", "on", "off"}
  /\ MaxVpn \in Nat /\ MaxBinding \in Nat /\ MaxTunnel \in Nat
  /\ None \notin 0 .. MaxRevision /\ None \notin 0 .. MaxVpn
  /\ None \notin 0 .. MaxBinding

VARIABLES
  lock,         \* the connection whose set_statistics_enabled holds the mutex
  connections,  \* ServiceState.connections
  revision,     \* ServiceState.revision
  snapshot,     \* ServiceState.snapshot: its vpn and its tunnel version
  binding,      \* ServiceState.tunnel.attempt; binding 0 has no monitor
  demand,       \* statistics switched on in the monitor of a binding
  work,         \* the message its loop is handling
  queue,        \* commands queued for a connection
  view,         \* what was written to its socket: last revision, vpn, tunnel
  cleanup,      \* what accept still does after the handshake or the loop
  committed,    \* ConnectionControl.committed
  enabled,      \* ConnectionControl.statistics_enabled
  statistics,   \* ConnectionControl.statistics: the binding of the sample
  disabling,    \* closing connections: statistics are off, the close is not sent
  vpn,          \* watch channel of the lifecycle: the latest VPN state
  vpnChanged,   \* ... not yet seen by watch_vpn_state
  vpnTaken,     \* the state it has read and not sent
  bound,        \* watch channel of the tunnel binding: the latest binding
  boundChanged, \* ... not yet seen by watch_tunnel
  tunnelState,  \* state version of the monitor of each binding
  tunnelChanged,\* ... not yet seen by the subscription of watch_tunnel
  watcher,      \* where watch_tunnel is
  taken,        \* the binding it works on
  current       \* the tunnel state it is about to send

serverVars == <<lock, connections, revision, snapshot, binding, demand>>
connVars == <<queue, work, view, cleanup, committed, enabled, statistics, disabling>>
watchVars == <<vpn, vpnChanged, vpnTaken, bound, boundChanged, tunnelState,
               tunnelChanged, watcher, taken, current>>
wsVars == <<vars, serverVars, connVars, watchVars>>

Bindings == 0 .. MaxBinding
\* Every second binding has a monitor: start_attempt publishes one without,
\* the runtime one with the monitor of the tunnel it opened
Monitored(b) == b % 2 = 1
\* A tunnel observation: the binding of its monitor and the version of its state
Tunnels == {b \in Bindings : Monitored(b)} \X (0 .. MaxTunnel)
NoTunnel == <<0, 0>>
Observe(b) == IF Monitored(b) THEN <<b, tunnelState[b]>> ELSE NoTunnel

\* ServerMessage: what a snapshot or an event carries; the fields it does not
\* carry, and those of a reply, are None
Messages ==
  [kind : {"attached", "snapshot", "vpn", "tunnel", "reply"},
   rev : 0 .. MaxRevision \cup {None}, vpn : 0 .. MaxVpn \cup {None},
   tunnel : Tunnels \cup {NoTunnel, None}]
Views ==
  [rev : 0 .. MaxRevision \cup {None}, vpn : 0 .. MaxVpn \cup {None},
   tunnel : Tunnels \cup {NoTunnel, None}]
NoView == [rev |-> None, vpn |-> None, tunnel |-> None]

\* What a client knows after a message
Apply(v, m) ==
  [rev |-> IF m.rev = None THEN v.rev ELSE m.rev,
   vpn |-> IF m.vpn = None THEN v.vpn ELSE m.vpn,
   tunnel |-> IF m.tunnel = None THEN v.tunnel ELSE m.tunnel]

ServerTypes ==
  /\ lock \in Conns \cup {None} /\ connections \subseteq Conns
  /\ revision \in 0 .. MaxRevision
  /\ snapshot \in [vpn : 0 .. MaxVpn, tunnel : Tunnels \cup {NoTunnel}]
  /\ binding \in Bindings /\ demand \in [Bindings -> BOOLEAN]

ConnTypes ==
  /\ work \in [Conns -> Requests \cup {"none"}]
  /\ queue \in [Conns -> Seq(Messages)] /\ view \in [Conns -> Views]
  /\ cleanup \in [Conns -> {"none", "sweep", "remove", "done"}]
  /\ committed \in [Conns -> BOOLEAN] /\ enabled \in [Conns -> BOOLEAN]
  /\ statistics \in [Conns -> Bindings \cup {None}]
  /\ disabling \subseteq Conns

WatchTypes ==
  /\ vpn \in 0 .. MaxVpn /\ vpnChanged \in BOOLEAN
  /\ vpnTaken \in 0 .. MaxVpn \cup {None}
  /\ bound \in Bindings /\ boundChanged \in BOOLEAN
  /\ tunnelState \in [Bindings -> 0 .. MaxTunnel] /\ tunnelChanged \in BOOLEAN
  /\ watcher \in {"take", "bind", "announce", "sample", "select", "publish", "send"}
  /\ taken \in Bindings /\ current \in Tunnels \cup {NoTunnel}

WsTypeOK == ServerTypes /\ ConnTypes /\ WatchTypes

WsInit ==
  /\ Init
  /\ lock = None /\ connections = {} /\ revision = 0
  /\ snapshot = [vpn |-> 0, tunnel |-> NoTunnel]
  /\ binding = 0 /\ demand = [b \in Bindings |-> FALSE]
  /\ queue = [c \in Conns |-> <<>>] /\ work = [c \in Conns |-> "none"]
  /\ view = [c \in Conns |-> NoView]
  /\ cleanup = [c \in Conns |-> "none"]
  /\ committed = [c \in Conns |-> FALSE] /\ enabled = [c \in Conns |-> FALSE]
  /\ statistics = [c \in Conns |-> None] /\ disabling = {}
  /\ vpn = 0 /\ vpnChanged = FALSE /\ vpnTaken = None /\ bound = 0 /\ boundChanged = FALSE
  /\ tunnelState = [b \in Bindings |-> 0] /\ tunnelChanged = FALSE
  /\ watcher = "take" /\ taken = 0 /\ current = NoTunnel
-----------------------------------------------------------------------------
(* Helpers of the critical sections *)

\* ServiceState::snapshot: the monitor's own state instead of the stored one
Snapshot(kind) ==
  [kind |-> kind, rev |-> revision, vpn |-> snapshot.vpn,
   tunnel |-> IF Monitored(binding) THEN Observe(binding) ELSE snapshot.tunnel]
Reply == [kind |-> "reply", rev |-> None, vpn |-> None, tunnel |-> None]

\* ConnectionControl::send; the receiver lives until the task is over
Sendable(c) == Len(queue[c]) < QueueCap /\ task[c] # "over"
Push(c, m) == queue' = [queue EXCEPT ![c] = Append(@, m)]

\* Mutant: demand is only ever raised
RaiseDemand ==
  demand' = IF Monitored(binding')
    THEN [demand EXCEPT ![binding'] = @ \/ \E c \in connections' : enabled'[c] /\ ~closed'[c]]
    ELSE demand

\* Mutant: demand is not refreshed
KeepDemand == UNCHANGED demand

\* refresh_demand, at the end of a critical section
RefreshDemand ==
  demand' = IF Monitored(binding')
    THEN [demand EXCEPT ![binding'] = \E c \in connections' : enabled'[c] /\ ~closed'[c]]
    ELSE demand

\* ConnectionControl::close of a set of connections, and set_statistics_enabled
Silence(cs) ==
  /\ enabled' = [c \in Conns |-> enabled[c] /\ c \notin cs]
  /\ statistics' = [c \in Conns |-> IF c \in cs THEN None ELSE statistics[c]]
-----------------------------------------------------------------------------
(* Connections *)

Unlocked == lock = None
\* SessionRegistry::is_current
IsCurrent(c) == status[session[c]] = "active" /\ generation[session[c]] = joined[c]

\* prepare_connection: the snapshot is queued and the candidate gets events
PrepareConnection(c) ==
  /\ Unlocked /\ PrepareAttach(c)
  /\ IF Valid(c)
       THEN /\ Push(c, Snapshot("attached"))
            /\ connections' = connections \cup {c}
       ELSE UNCHANGED <<queue, connections>>
  /\ UNCHANGED <<lock, revision, snapshot, binding, demand, work, view, cleanup,
                 committed, enabled, statistics, disabling, watchVars>>

\* The head of the queue is written to the socket: by establish the Attached
\* message, by the loop of accept the rest
Deliver(c) ==
  /\ \/ task[c] = "prepared" /\ view[c] = NoView
     \/ task[c] = "running" /\ work[c] = "none"
  /\ queue[c] # <<>>
  /\ view' = [view EXCEPT ![c] = Apply(@, Head(queue[c]))]
  /\ queue' = [queue EXCEPT ![c] = Tail(@)]
  /\ UNCHANGED <<vars, serverVars, work, cleanup, committed, enabled, statistics,
                 disabling, watchVars>>

\* Who leaves the list: the replaced connection, or the refused candidate
Unlisted(c, ok) == IF ok THEN {attached[session[c]]} ELSE {c}

\* commit_connection: a candidate the server dropped meanwhile is refused
CommitServed(c) ==
  /\ Unlocked /\ task[c] = "prepared" /\ view[c] # NoView
  /\ CommitAttach(c)
  /\ LET ok == ~closed[c] /\ Valid(c)
         gone == IF closed[c] THEN {} ELSE Unlisted(c, ok)
     IN /\ committed' = [committed EXCEPT ![c] = @ \/ ok]
        /\ connections' = connections \ gone
        /\ Silence(IF ok THEN gone ELSE {})
  /\ UNCHANGED binding /\ (IF closed[c] THEN UNCHANGED demand ELSE RefreshDemand)
  /\ UNCHANGED <<lock, revision, snapshot, queue, work, view, cleanup, disabling,
                 watchVars>>

\* abandon_connection, when Attached cannot be written
AbandonConnection(c) ==
  /\ Unlocked /\ task[c] = "prepared" /\ view[c] = NoView
  /\ HandshakeFails(c)
  /\ connections' = connections \ {c}
  /\ UNCHANGED <<enabled, binding>> /\ RefreshDemand
  /\ UNCHANGED <<lock, revision, snapshot, queue, work, view, cleanup, committed,
                 statistics, disabling, watchVars>>

\* The handshake fails before it has a connection, or the timeout drops it
\* wherever it waits; then accept sweeps closed connections
HandshakeEnds(c) ==
  /\ HandshakeFails(c)
  /\ \/ task[c] = "begun" /\ UNCHANGED cleanup
     \/ cleanup' = [cleanup EXCEPT ![c] = "sweep"]
  /\ UNCHANGED <<serverVars, queue, work, view, committed, enabled, statistics, disabling,
                 watchVars>>

RemoveClosed(c) ==
  /\ Unlocked /\ task[c] = "over" /\ cleanup[c] = "sweep"
  /\ connections' = {d \in connections : ~closed[d]}
  /\ cleanup' = [cleanup EXCEPT ![c] = "done"]
  /\ UNCHANGED <<vars, enabled, binding>> /\ RefreshDemand
  /\ UNCHANGED <<lock, revision, snapshot, queue, work, view, committed, statistics,
                 disabling, watchVars>>

\* remove_connection: first the registry, then the server
LeaveLoop(c) ==
  /\ work[c] = "none" /\ Leave(c)
  /\ UNCHANGED <<serverVars, connVars, watchVars>>

Disconnect(c) ==
  /\ DisconnectIfCurrent(c)
  /\ cleanup' = [cleanup EXCEPT ![c] = "remove"]
  /\ UNCHANGED <<serverVars, queue, work, view, committed, enabled, statistics, disabling,
                 watchVars>>

RemoveConnection(c) ==
  /\ Unlocked /\ cleanup[c] = "remove"
  /\ connections' = connections \ {c}
  /\ cleanup' = [cleanup EXCEPT ![c] = "done"]
  /\ UNCHANGED <<vars, enabled, binding>> /\ RefreshDemand
  /\ UNCHANGED <<lock, revision, snapshot, queue, work, view, committed, statistics,
                 disabling, watchVars>>

\* accept returns: permit and command receiver are dropped
DropTask(c) ==
  /\ task[c] = "detached" => cleanup[c] = "done"
  /\ DropPermit(c)
  /\ UNCHANGED <<serverVars, connVars, watchVars>>

\* establish closes the connection it replaced
CloseOld(c) ==
  /\ CloseReplaced(c)
  /\ Silence(ToClose(c))
  /\ UNCHANGED <<serverVars, queue, work, view, cleanup, committed, disabling, watchVars>>

\* revoke closes a connection without the server's mutex: statistics off, ...
SilenceRevoked(c) ==
  /\ c \in revoking /\ c \notin disabling
  /\ disabling' = disabling \cup {c}
  /\ Silence({c})
  /\ UNCHANGED <<vars, serverVars, queue, work, view, cleanup, committed, watchVars>>

\* ... then the close itself
CloseRevokedConnection(c) ==
  /\ c \in disabling
  /\ CloseRevoked(c)
  /\ UNCHANGED <<serverVars, connVars, watchVars>>

\* Steps of the registry the server has no part in
RegistryStep ==
  /\ \/ \E s \in Sessions : Issue(s) \/ Deadline(s) \/ Revoke(s)
     \/ DropStale
     \/ \E c \in Conns, s \in Sessions : BeginHandshake(c, s)
  /\ UNCHANGED <<serverVars, connVars, watchVars>>
-----------------------------------------------------------------------------
(* Events *)

\* Mutant: a connection whose queue is full misses the event and stays
KeepSlow == connections

Keeping == {c \in connections : Sendable(c)}

\* send_event; at the last revision every connection is closed instead
SendEvent(event, snap) ==
  /\ Unlocked
  /\ snapshot' = snap
  /\ LET kept == IF revision = MaxRevision THEN {} ELSE Keeping
         sent == kept \cap {c \in Conns : Sendable(c)}
     IN /\ revision' = IF revision = MaxRevision THEN revision ELSE revision + 1
        /\ connections' = kept
        /\ queue' = [c \in Conns |-> IF c \in sent
             THEN Append(queue[c], [event EXCEPT !.rev = revision']) ELSE queue[c]]
        /\ closed' = [c \in Conns |-> closed[c] \/ c \in connections \ kept]
        /\ Silence(connections \ kept)
  /\ UNCHANGED binding /\ RefreshDemand
  /\ UNCHANGED <<recordVars, task, session, observed, joined, replaced, revoking,
                 attemptVars, lock, work, view, cleanup, committed, disabling>>

\* watch_vpn_state wakes up and reads the channel, ...
WatchVpnState ==
  /\ vpnChanged /\ vpnTaken = None
  /\ vpnChanged' = FALSE /\ vpnTaken' = vpn
  /\ UNCHANGED <<vars, serverVars, connVars, vpn, bound, boundChanged, tunnelState,
                 tunnelChanged, watcher, taken, current>>

\* ... then sends what it read
SendVpnState ==
  /\ vpnTaken # None
  /\ vpnTaken' = None
  /\ SendEvent([kind |-> "vpn", rev |-> None, vpn |-> vpnTaken, tunnel |-> None],
               [snapshot EXCEPT !.vpn = vpnTaken])
  /\ UNCHANGED <<vpn, vpnChanged, bound, boundChanged, tunnelState, tunnelChanged,
                 watcher, taken, current>>

\* The loop of accept prefers queued messages, then a close, to what the client
\* sent. A statistics request of a replaced attachment ends the loop instead.
Receive(c, w) ==
  /\ task[c] = "running" /\ work[c] = "none"
  /\ queue[c] = <<>> /\ ~closed[c]
  /\ w # "resync" => IsCurrent(c)
  /\ work' = [work EXCEPT ![c] = w]
  /\ UNCHANGED <<vars, serverVars, queue, view, cleanup, committed, enabled, statistics,
                 disabling, watchVars>>

\* Mutant: the task returns at once when its queue is full
AnswerOrReturn(c, m) ==
  /\ work' = [work EXCEPT ![c] = "none"]
  /\ IF Sendable(c)
       THEN Push(c, m) /\ UNCHANGED task
       ELSE task' = [task EXCEPT ![c] = "over"] /\ UNCHANGED queue
  /\ UNCHANGED <<recordVars, session, observed, joined, replaced, closed, revoking,
                 attemptVars>>

\* The answer to what the loop handles; a full queue ends the loop
Answer(c, m) ==
  /\ work' = [work EXCEPT ![c] = "none"]
  /\ IF Sendable(c)
       THEN Push(c, m) /\ UNCHANGED task
       ELSE task' = [task EXCEPT ![c] = "leaving"] /\ UNCHANGED queue
  /\ UNCHANGED <<recordVars, session, observed, joined, replaced, closed, revoking,
                 attemptVars>>

\* send_snapshot
SendSnapshot(c) ==
  /\ Unlocked /\ work[c] = "resync"
  /\ Answer(c, Snapshot("snapshot"))
  /\ UNCHANGED <<serverVars, view, cleanup, committed, enabled, statistics, disabling,
                 watchVars>>
-----------------------------------------------------------------------------
(* Statistics *)

StillServed(c) == committed[c] /\ ~closed[c] /\ c \in connections /\ IsCurrent(c)

\* set_statistics_enabled refuses a connection that is no longer served, or
\* goes on with the mutex held, ...
CheckStatistics(c) ==
  /\ Unlocked /\ work[c] \in {"on", "off"}
  /\ IF StillServed(c)
       THEN lock' = c /\ UNCHANGED <<vars, queue, work>>
       ELSE Answer(c, Reply) /\ UNCHANGED lock
  /\ UNCHANGED <<connections, revision, snapshot, binding, demand, view, cleanup,
                 committed, enabled, statistics, disabling, watchVars>>

\* ... then stores the flag, which a close may have cleared meanwhile, and replies
SetStatistics(c) ==
  /\ lock = c /\ lock' = None
  /\ enabled' = [enabled EXCEPT ![c] = work[c] = "on"]
  /\ statistics' = IF work[c] = "on" THEN statistics ELSE [statistics EXCEPT ![c] = None]
  /\ Answer(c, Reply)
  /\ UNCHANGED <<binding, connections>> /\ RefreshDemand
  /\ UNCHANGED <<revision, snapshot, view, cleanup, committed, disabling, watchVars>>

\* publish_statistics to the connections that want them
Publish ==
  statistics' = [c \in Conns |->
    IF c \in connections /\ enabled[c] /\ ~closed[c] THEN binding ELSE statistics[c]]
-----------------------------------------------------------------------------
(* watch_tunnel *)

Watch(from, to) == watcher = from /\ watcher' = to

\* The latest binding is taken and its monitor subscribed to
TakeBinding ==
  /\ Watch("take", "bind")
  /\ taken' = bound /\ boundChanged' = FALSE /\ tunnelChanged' = FALSE
  /\ UNCHANGED <<vars, serverVars, connVars, vpn, vpnChanged, vpnTaken, bound,
                 tunnelState, current>>

\* Mutant: samples of the previous tunnel stay in the connections
KeepSamples == UNCHANGED statistics

ClearSamples ==
  statistics' = [c \in Conns |-> IF c \in connections THEN None ELSE statistics[c]]

\* The previous monitor is switched off, the new one follows the connections
SwitchDemand(wanted) ==
  demand' = [b \in Bindings |-> IF b = taken /\ Monitored(b) THEN wanted
                               ELSE demand[b] /\ b # binding]

\* bind_tunnel switches the previous monitor off and the binding over, ...
BindTunnel ==
  /\ Unlocked /\ Watch("bind", "announce")
  /\ binding' = taken
  /\ SwitchDemand(\E c \in connections : enabled[c] /\ ~closed[c])
  /\ ClearSamples
  /\ current' = Observe(taken)
  /\ UNCHANGED <<vars, lock, connections, revision, snapshot, queue, work, view,
                 cleanup, committed, enabled, disabling, vpn, vpnChanged, vpnTaken,
                 bound, boundChanged, tunnelState, tunnelChanged, taken>>

\* ... sends the state of the tunnel as an event, as publish_tunnel does, ...
SendTunnelState ==
  /\ Watch("announce", "sample") \/ Watch("send", "sample")
  /\ SendEvent([kind |-> "tunnel", rev |-> None, vpn |-> None, tunnel |-> current],
               [snapshot EXCEPT !.tunnel = current])
  /\ UNCHANGED <<vpn, vpnChanged, vpnTaken, bound, boundChanged, tunnelState,
                 tunnelChanged, taken, current>>

\* ... and publishes a sample
PublishSample ==
  /\ Unlocked /\ Watch("sample", "select")
  /\ Publish
  /\ UNCHANGED <<vars, serverVars, queue, work, view, cleanup, committed, enabled, disabling,
                 vpn, vpnChanged, vpnTaken, bound, boundChanged, tunnelState,
                 tunnelChanged, taken, current>>

\* The select is biased towards a new binding
SelectBinding ==
  /\ Watch("select", "take") /\ boundChanged
  /\ UNCHANGED <<vars, serverVars, connVars, vpn, vpnChanged, vpnTaken, bound,
                 boundChanged, tunnelState, tunnelChanged, taken, current>>

SelectUpdate ==
  /\ Watch("select", "publish") /\ ~boundChanged /\ tunnelChanged
  /\ tunnelChanged' = FALSE
  /\ UNCHANGED <<vars, serverVars, connVars, vpn, vpnChanged, vpnTaken, bound,
                 boundChanged, tunnelState, taken, current>>

\* publish_tunnel reads the monitor; only a changed state is sent
PublishTunnel ==
  /\ Unlocked
  /\ current' = Observe(binding)
  /\ Watch("publish", IF snapshot.tunnel = Observe(binding) THEN "sample" ELSE "send")
  /\ UNCHANGED <<vars, serverVars, connVars, vpn, vpnChanged, vpnTaken, bound,
                 boundChanged, tunnelState, tunnelChanged, taken>>
-----------------------------------------------------------------------------
(* The lifecycle and the monitors *)

VpnStateChanges ==
  /\ vpn < MaxVpn
  /\ vpn' = vpn + 1 /\ vpnChanged' = TRUE
  /\ UNCHANGED <<vars, serverVars, connVars, vpnTaken, bound, boundChanged, tunnelState,
                 tunnelChanged, watcher, taken, current>>

BindingChanges ==
  /\ bound < MaxBinding
  /\ bound' = bound + 1 /\ boundChanged' = TRUE
  /\ UNCHANGED <<vars, serverVars, connVars, vpn, vpnChanged, vpnTaken, tunnelState,
                 tunnelChanged, watcher, taken, current>>

\* A monitor publishes an update: a new state, or only a statistics sample
MonitorUpdates(b) ==
  /\ Monitored(b) /\ b <= bound
  /\ \/ /\ tunnelState[b] < MaxTunnel
        /\ tunnelState' = [tunnelState EXCEPT ![b] = @ + 1]
        /\ tunnelChanged' = (tunnelChanged \/ b = taken)
     \/ /\ b = taken /\ ~tunnelChanged /\ demand[b]
        /\ tunnelChanged' = TRUE /\ UNCHANGED tunnelState
  /\ UNCHANGED <<vars, serverVars, connVars, vpn, vpnChanged, vpnTaken, bound,
                 boundChanged, watcher, taken, current>>
-----------------------------------------------------------------------------
TaskProgress(c) ==
  \/ PrepareConnection(c) \/ Deliver(c) \/ CommitServed(c) \/ CloseOld(c)
  \/ Disconnect(c) \/ RemoveConnection(c) \/ RemoveClosed(c) \/ DropTask(c)
  \/ SendSnapshot(c) \/ CheckStatistics(c) \/ SetStatistics(c)

WatchTunnel ==
  \/ TakeBinding \/ BindTunnel \/ SendTunnelState \/ PublishSample \/ SelectBinding
  \/ SelectUpdate \/ PublishTunnel

WsNext ==
  \/ RegistryStep
  \/ \E c \in Conns :
       \/ TaskProgress(c) \/ AbandonConnection(c) \/ HandshakeEnds(c) \/ LeaveLoop(c)
       \/ SilenceRevoked(c) \/ CloseRevokedConnection(c)
       \/ \E w \in Requests : Receive(c, w)
  \/ WatchVpnState \/ SendVpnState \/ WatchTunnel
  \/ VpnStateChanges \/ BindingChanges
  \/ \E b \in Bindings : MonitorUpdates(b)

WsSpec == WsInit /\ [][WsNext]_wsVars

\* The mutex is tokio's, which serves its waiters in order, so that a task that
\* waits for it gets it however often others take it in between.
WsFairness ==
  /\ \A c \in Conns :
       /\ SF_wsVars(TaskProgress(c)) /\ WF_wsVars(HandshakeEnds(c))
       /\ WF_wsVars(SilenceRevoked(c)) /\ WF_wsVars(CloseRevokedConnection(c))
       /\ WF_wsVars(LeaveLoop(c) /\ closed[c])
  /\ WF_wsVars(WatchVpnState) /\ SF_wsVars(SendVpnState) /\ SF_wsVars(WatchTunnel)

\* The server with its queues, watchers and cleanup implements the registry's
\* protocol, so that what holds of SessionRegistry holds of it.
ImplementsRegistry == Spec

\* The revision the stream of a connection is at before its i-th queued message:
\* that of the last message before it that carries one, else of what was written
Carries(c, i) == queue[c][i].rev # None
At(c, i, r) ==
  \/ \E j \in 1 .. i - 1 : /\ Carries(c, j) /\ queue[c][j].rev = r
                           /\ \A k \in j + 1 .. i - 1 : ~Carries(c, k)
  \/ view[c].rev = r /\ \A k \in 1 .. i - 1 : ~Carries(c, k)

\* Clients never need a Resync: the stream of a connection (what was written,
\* then what is queued) starts with a snapshot, has no gap in its event
\* revisions, and a later snapshot never takes the client back.
StreamContiguous ==
  \A c \in Conns : \A i \in DOMAIN queue[c] :
    LET m == queue[c][i]
    IN \/ m.kind = "reply"
       \/ m.kind = "attached" /\ i = 1 /\ At(c, i, None)
       \/ m.kind = "snapshot" /\ \E r \in 0 .. m.rev : At(c, i, r)
       \/ m.kind \in {"vpn", "tunnel"} /\ At(c, i, m.rev - 1)

\* A listed connection misses nothing: once it has read its queue it is at the
\* server's revision.
StreamComplete == \A c \in connections : At(c, Len(queue[c]) + 1, revision)

\* After a rebinding no connection is left with a sample of another tunnel.
SamplesAreCurrent == \A c \in connections : statistics[c] \in {None, binding}

\* The bound monitor collects whenever an open connection wants statistics, and
\* no other monitor does.
DemandFollowsBinding ==
  /\ \A b \in Bindings : demand[b] => b = binding
  /\ Monitored(binding) /\ (\E c \in connections : enabled[c] /\ ~closed[c])
       => demand[binding]

Wanted == \E c \in connections : enabled[c] /\ ~closed[c]

\* Nobody is sampled for nobody: when the last interested connection is gone,
\* also by a revocation that raced with the request, collection stops.
DemandEnds == ~Wanted ~> Wanted \/ ~demand[binding]

\* A connection that stays up comes to show the latest VPN and tunnel state.
ViewSettles ==
  \A c \in Conns :
    <>[](task[c] = "running" /\ c \in connections) =>
      []<>(view[c].vpn = vpn /\ view[c].tunnel = Observe(bound))
-----------------------------------------------------------------------------
(* The inductive invariant *)

\* A loop that handles a message runs, and only such a loop holds the mutex
\* over set_statistics_enabled
WorkInv ==
  /\ \A c \in Conns : work[c] # "none" => task[c] = "running"
  /\ lock # None => work[lock] # "none"

\* A listed connection was prepared; when its task is over it is closed
ListedInv ==
  \A c \in connections : task[c] \in {"prepared", "failed"} \cup Serving \/ closed[c]

\* Before prepare_connection nobody knows the connection
FreshInv ==
  \A c \in Conns : task[c] \in {"idle", "begun"} =>
    /\ queue[c] = <<>> /\ view[c] = NoView
    /\ c \notin connections /\ ~enabled[c] /\ statistics[c] = None

\* Until Attached is written it is what comes next; it is written before a
\* connection is served
AttachedFirst ==
  \A c \in Conns : view[c].rev = None =>
    /\ view[c] = NoView /\ task[c] \notin Serving
    /\ queue[c] # <<>> => Carries(c, 1)

\* The stream of a connection ends at a revision of the server, at the last one
\* while it is listed, and the queue holds no more than it may
StreamEnd ==
  \A c \in Conns :
    /\ Len(queue[c]) <= QueueCap
    /\ queue[c] # <<>> \/ view[c].rev # None =>
         \E r \in 0 .. revision : At(c, Len(queue[c]) + 1, r)

\* What the server, the connection tasks and the queues know of each other
ServerInv ==
  /\ WorkInv /\ ListedInv /\ FreshInv
  /\ SamplesAreCurrent /\ DemandFollowsBinding
StreamInv == AttachedFirst /\ StreamEnd /\ StreamComplete /\ StreamContiguous
=============================================================================
