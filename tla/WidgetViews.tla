----------------------------- MODULE WidgetViews ----------------------------
(***************************************************************************)
(* What the gpwidget daemon shows and to whom: the views, the feed of one  *)
(* client of its socket, and the data of a VPN session. Each is a          *)
(* specification of its own over s.                                        *)
(***************************************************************************)
EXTENDS Integers, Sequences

CONSTANTS
  MaxChanges, None,
  RingCap, CmdCap, ReplyCap, MaxVer, MaxLines,
  MaxSessions, MaxTicks, MaxGen  \* sessions, samples, generations

VARIABLE s

-----------------------------------------------------------------------------
(***************************************************************************)
(* The clients that show the daemon's state: the popup panel with its       *)
(* socket thread (popup/mod.rs io_thread, popup/panel.rs) and the waybar    *)
(* module (waybar.rs).  Each holds a connection, the lines it has not read  *)
(* yet and what it displays; the daemon comes, changes state and goes.      *)
(***************************************************************************)
States == {"disconnected", "authenticating", "connected", "error"}
Clients == {"panel", "bar"}

\* Panel::build and waybar::run: nothing is known before the first connection.
ViewsInit ==
  s = [up |-> FALSE, state |-> "disconnected", changes |-> 0, starts |-> 0,
       conn |-> [c \in Clients |-> "none"], wire |-> [c \in Clients |-> <<>>],
       panel |-> [down |-> FALSE, starting |-> FALSE, status |-> None, otp |-> FALSE, err |-> FALSE],
       bar |-> [status |-> None, last |-> "nothing"]]

Status(st) == [kind |-> "status", state |-> st]
Plain(k) == [kind |-> k, state |-> "disconnected"]
Broadcast(f, m) == [f EXCEPT !.wire = [c \in Clients |-> IF s.conn[c] = "open" THEN Append(@[c], m) ELSE @[c]]]

\* The daemon: it comes up, publishes a state, an OTP prompt or an error toast,
\* and says Bye when it exits (or just vanishes).
Changing(f) == s.changes < MaxChanges /\ s' = [f EXCEPT !.changes = @ + 1]
DaemonUp == ~s.up /\ Changing([s EXCEPT !.up = TRUE, !.state = "disconnected"])
DaemonState == s.up /\ \E st \in States : Changing([Broadcast(s, Status(st)) EXCEPT !.state = st])
DaemonPrompts == s.up /\ s.state = "authenticating" /\ Changing(Broadcast(s, Plain("prompt")))
DaemonComplains == s.up /\ Changing(Broadcast(s, Plain("error")))
DaemonExits ==
  s.up /\ \E said \in BOOLEAN :
            Changing([Broadcast(IF said THEN Broadcast(s, Plain("bye")) ELSE s, Plain("eof")) EXCEPT
                        !.up = FALSE, !.conn = [c \in Clients |-> IF @[c] = "open" THEN "ending" ELSE @[c]]])

\* SocketClient::try_open and the greeting.
TryOpen(c) ==
  /\ s.conn[c] = "none" /\ s.up
  /\ s' = [s EXCEPT !.conn[c] = "open", !.wire[c] = <<Status(s.state)>>,
                    !.bar.status = IF c = "bar" THEN None ELSE @]
\* The end of the stream, once its lines are read.
Ends(c) == s.wire[c] # <<>> /\ Head(s.wire[c]).kind = "eof"
StreamEnds(c) == Ends(c) /\ s' = [s EXCEPT !.conn[c] = "none", !.wire[c] = <<>>]

Effective(p) == IF p.down THEN None ELSE p.status

\* Inner::refresh: the error banner and the OTP entry follow the state.
Refresh(p) == [p EXCEPT !.err = Effective(p) = "error", !.otp = @ /\ Effective(p) = "authenticating"]

\* Panel::handle_event.
Handle(p, m) ==
  CASE m.kind = "status" -> Refresh([p EXCEPT !.down = FALSE, !.starting = FALSE, !.status = m.state])
    [] m.kind = "prompt" -> [p EXCEPT !.otp = TRUE]
    [] m.kind = "error" -> [p EXCEPT !.err = TRUE]
    [] m.kind = "bye" -> Refresh([p EXCEPT !.down = TRUE, !.status = None])
PanelReads ==
  /\ s.wire["panel"] # <<>> /\ ~Ends("panel")
  /\ s' = [s EXCEPT !.wire["panel"] = Tail(@), !.panel = Handle(@, Head(s.wire["panel"]))]

\* io_thread: no socket means StackDown, again and again until one appears.
StackDown(p) == Refresh([p EXCEPT !.down = TRUE, !.status = None])
PanelStackDown ==
  /\ s.conn["panel"] = "none" /\ ~s.up
  /\ s.panel # StackDown(s.panel)
  /\ s' = [s EXCEPT !.panel = StackDown(@)]

\* on_action with no daemon behind the panel delegates the start to
\* `gpwidget connect`; the button stays off until the first status line.
OnAction ==
  /\ Effective(s.panel) = None /\ ~s.panel.starting /\ s.starts < 1
  /\ s' = [s EXCEPT !.starts = @ + 1, !.panel.starting = TRUE]

\* waybar: a line is printed when it differs from the last one.
Line(st) == IF st = None THEN "stack-down" ELSE st
Emit(b) == [b EXCEPT !.last = Line(b.status)]
BarReads ==
  /\ s.wire["bar"] # <<>> /\ ~Ends("bar")
  /\ LET m == Head(s.wire["bar"]) IN
     s' = [s EXCEPT !.wire["bar"] = Tail(@),
             !.bar = IF m.kind = "status" THEN Emit([@ EXCEPT !.status = m.state]) ELSE @]
BarStackDown ==
  /\ s.conn["bar"] = "none" /\ ~s.up /\ s.bar.last # "stack-down"
  /\ s' = [s EXCEPT !.bar.last = "stack-down", !.bar.status = None]

ClientStep ==
  \/ \E c \in Clients : TryOpen(c) \/ StreamEnds(c)
  \/ PanelReads \/ PanelStackDown \/ BarReads \/ BarStackDown
ViewsNext ==
  ClientStep \/ OnAction \/ DaemonUp \/ DaemonState \/ DaemonPrompts \/ DaemonComplains \/ DaemonExits

\* What is displayed comes to agree with the daemon, whatever was lost when it
\* went away: panel, bar line, no OTP entry outside a login, and a button that
\* is not left off after the start it asked for.
Actual == IF s.up THEN s.state ELSE None
ViewsSettled ==
  /\ Effective(s.panel) = Actual
  /\ s.bar.last = Line(Actual)
  /\ s.panel.otp => Actual = "authenticating"
  /\ s.panel.starting => ~s.up

-----------------------------------------------------------------------------
(***************************************************************************)
(* One client of the daemon socket (daemon/socket.rs serve_client): status  *)
(* lines through a bounded broadcast ring, commands through a bounded       *)
(* channel to the daemon and acknowledgements through a bounded channel     *)
(* back.  Status lines are numbered by the snapshot they carry.             *)
(***************************************************************************)
\* The greeting carries the snapshot of the moment the client was accepted.
FeedInit == s = [ver |-> 0, ring |-> <<>>, lagged |-> FALSE, got |-> 0, asked |-> 0,
             lines |-> 0, cmds |-> 0, replies |-> 0, acked |-> 0,
             task |-> "idle", daemon |-> "idle"]

\* publish_snapshot: the ring drops its oldest line when it is full.
Publish ==
  /\ s.ver < MaxVer
  /\ LET full == Len(s.ring) = RingCap
         old == IF full THEN Tail(s.ring) ELSE s.ring IN
     s' = [s EXCEPT !.ver = @ + 1, !.ring = Append(old, s.ver + 1), !.lagged = @ \/ full]

\* broadcast_rx.recv: a receiver that lagged writes the latest snapshot, and
\* goes on with the oldest line that is still in the ring.
RecvBroadcast ==
  /\ s.task = "idle"
  /\ IF s.lagged THEN s' = [s EXCEPT !.lagged = FALSE, !.got = s.ver]
     ELSE s.ring # <<>> /\ s' = [s EXCEPT !.ring = Tail(@), !.got = Head(s.ring)]

ClientWrites == s.asked < MaxLines /\ s' = [s EXCEPT !.asked = @ + 1, !.lines = @ + 1]

\* A line is parsed and its command sent; the task waits while the channel is
\* full, and reads neither broadcasts nor replies meanwhile.
ReadLine == s.task = "idle" /\ s.lines > 0 /\ s' = [s EXCEPT !.lines = @ - 1, !.task = "sending"]
SendCommand ==
  s.task = "sending" /\ s.cmds < CmdCap /\ s' = [s EXCEPT !.cmds = @ + 1, !.task = "idle"]

\* The daemon handles one command at a time and awaits the reply channel.
TakeCommand == s.daemon = "idle" /\ s.cmds > 0 /\ s' = [s EXCEPT !.cmds = @ - 1, !.daemon = "acking"]
Ack == s.daemon = "acking" /\ s.replies < ReplyCap /\ s' = [s EXCEPT !.replies = @ + 1, !.daemon = "idle"]
RecvReply ==
  s.task = "idle" /\ s.replies > 0 /\ s' = [s EXCEPT !.replies = @ - 1, !.acked = @ + 1]

Serve == RecvBroadcast \/ ReadLine \/ SendCommand \/ RecvReply
DaemonStep == TakeCommand \/ Ack
FeedNext == Serve \/ DaemonStep \/ Publish \/ ClientWrites

\* Every command is answered and the last status line a client holds is the
\* latest, as long as it keeps no more lines outstanding than the two
\* channels, the daemon and its own task can hold.
FeedSettled == s.got = s.ver /\ s.acked = s.asked

-----------------------------------------------------------------------------
(***************************************************************************)
(* What the gpwidget daemon keeps per VPN session (daemon/mod.rs, state.rs, *)
(* stats.rs): the traffic ticker, the connection record that its samples    *)
(* replace, and the expiry warning.  Sessions are numbered; the number      *)
(* stands for the session's start time, counters and expiry.                *)
(***************************************************************************)
\* conn, task and session are 0 when there is none.
SessionInit == s = [vpn |-> "disconnected", session |-> 0, conn |-> 0, gen |-> 0, timers |-> {},
             task |-> 0, queue |-> <<>>, ticks |-> 0, warned |-> {}]

\* StatsTracker::on_connecting stops the ticker of the session before.
Connecting ==
  /\ s.vpn = "disconnected" /\ s.session < MaxSessions
  /\ s' = [s EXCEPT !.task = 0, !.vpn = "connecting", !.session = @ + 1]

\* apply_vpn_state keeps the connection record across repeated Connected, the
\* ticker samples with its start time, and on_session_established schedules
\* the warning of this generation.
Connected ==
  /\ s.vpn = "connecting" /\ s.gen < MaxGen
  /\ LET since == IF s.conn = 0 THEN s.session ELSE s.conn IN
     s' = [s EXCEPT !.vpn = "connected", !.conn = since, !.task = since, !.gen = @ + 1,
             !.timers = @ \cup {[gen |-> s.gen + 1, session |-> s.session]}]

\* A session that drops back to connecting, and its end.
Reconnecting == s.vpn = "connected" /\ s' = [s EXCEPT !.task = 0, !.vpn = "connecting"]
Disconnected ==
  /\ s.vpn # "disconnected"
  /\ s' = [s EXCEPT !.vpn = "disconnected", !.conn = 0, !.task = 0, !.gen = @ + 1]

\* ticker: one sample is queued; abort leaves what is already queued.
Tick ==
  /\ s.task # 0 /\ s.ticks < MaxTicks
  /\ s' = [s EXCEPT !.ticks = @ + 1, !.queue = Append(@, s.task)]

\* Daemon::run: a sample replaces the record while connected, and only then.
TakeSample ==
  /\ s.queue # <<>>
  /\ s' = [s EXCEPT !.queue = Tail(@), !.conn = IF s.vpn = "connected" THEN Head(s.queue) ELSE @]


\* handle_expiry_warning: only the current generation of a live session warns.
ExpiryFires(t) ==
  s' = [s EXCEPT !.timers = @ \ {t},
          !.warned = IF t.gen = s.gen /\ s.vpn = "connected" THEN @ \cup {<<t.session, s.session>>} ELSE @]

SessionNext ==
  \/ Connecting \/ Connected \/ Reconnecting \/ Disconnected \/ Tick \/ TakeSample
  \/ \E t \in s.timers : ExpiryFires(t)

\* A warning that is shown is the one of the session that is up, whatever
\* timers of earlier sessions are still pending, and a sample that was queued
\* before the end of a session does not bring its connection record back.
SessionDataIsCurrent ==
  /\ \A w \in s.warned : w[1] = w[2]
  /\ s.vpn = "disconnected" => s.conn = 0
=============================================================================
