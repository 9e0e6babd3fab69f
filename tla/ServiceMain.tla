----------------------------- MODULE ServiceMain ----------------------------
(***************************************************************************)
(* The service process: its tasks and their end, and the channel of a      *)
(* desktop client. Each is a specification of its own over s.              *)
(***************************************************************************)
EXTENDS Integers, FiniteSets

CONSTANTS
  ShutdownCap, IdleLimit, MaxSessions,
  Streams, None, MaxIssued

VARIABLE s

-----------------------------------------------------------------------------
(***************************************************************************)
(* The tasks of one gpservice process (gpservice cli.rs): what asks for the *)
(* shutdown, the bounded channel the requests go through, the order of the  *)
(* teardown, the idle timeout of a brokered service and its signals.        *)
(***************************************************************************)
Tasks == {"ws", "desktop", "broker", "idle", "bootstrap"}
Launched(mode) == {"ws"} \cup CASE mode = "desktop" -> {"desktop"}
                               [] mode = "brokered" -> {"broker", "idle"}
                               [] mode = "standalone" -> {"bootstrap"}

\* queue: unread shutdown requests.  vpn: the lifecycle as the watch shows it.
MainInit ==
  \E mode \in {"desktop", "brokered", "standalone"} :
    s = [mode |-> mode, main |-> "run", queue |-> 0, vpn |-> "idle", vpnTask |-> "run",
         task |-> [t \in Tasks |-> IF t \in Launched(mode) THEN "run" ELSE "done"],
         sessions |-> 0, idle |-> 0, cancelVpn |-> FALSE, cancel |-> FALSE, locked |-> TRUE,
         signal |-> "none", pidFile |-> FALSE]

Alive == s.main # "exited"
Set(t, st) == [s EXCEPT !.task[t] = st]

\* A task ends by itself or because it is cancelled; each but a cancelled
\* credential or bootstrap server then asks for the shutdown.
TaskFails(t) == Alive /\ s.task[t] = "run" /\ t # "idle" /\ s' = Set(t, "sending")
TaskCancelled(t) ==
  /\ Alive /\ s.task[t] = "run" /\ s.cancel
  /\ s' = Set(t, IF t \in {"broker", "bootstrap"} THEN "done" ELSE "sending")
SendShutdown(t) ==
  /\ Alive /\ s.task[t] = "sending" /\ s.queue < ShutdownCap
  /\ s' = [Set(t, "done") EXCEPT !.queue = @ + 1]

\* wait_for_brokered_idle polls; a busy poll starts the count anew.
Idle == s.vpn = "idle" /\ s.sessions = 0
IdlePoll ==
  /\ Alive /\ s.task["idle"] = "run" /\ ~s.cancel
  /\ s' = IF ~Idle THEN [s EXCEPT !.idle = 0]
          ELSE IF s.idle < IdleLimit THEN [s EXCEPT !.idle = @ + 1]
          ELSE Set("idle", "sending")

Issue == Alive /\ s.sessions < MaxSessions /\ s' = [s EXCEPT !.sessions = @ + 1]
Revoke == Alive /\ s.sessions > 0 /\ s' = [s EXCEPT !.sessions = @ - 1]
Connect == Alive /\ s.vpnTask = "run" /\ ~s.cancelVpn /\ s.sessions > 0 /\ s.vpn = "idle" /\ s' = [s EXCEPT !.vpn = "up"]
Disconnect == Alive /\ s.vpn = "up" /\ s' = [s EXCEPT !.vpn = "idle"]

\* handle_signals: SIGUSR1 disconnects, waits, and then leaves the pid file.
UserSignal == Alive /\ s.signal = "none" /\ s' = [s EXCEPT !.signal = "waiting"]
SignalDone ==
  /\ Alive /\ s.signal = "waiting" /\ s.vpn = "idle"
  /\ s' = [s EXCEPT !.signal = "none", !.pidFile = TRUE]

\* run: one request or a signal, then the teardown in order.
ShutdownBegins ==
  /\ s.main = "run"
  /\ \/ s.queue > 0 /\ s' = [s EXCEPT !.main = "cancelVpn", !.queue = @ - 1]
     \/ s' = [s EXCEPT !.main = "cancelVpn"]
CancelVpn == s.main = "cancelVpn" /\ s' = [s EXCEPT !.main = "cancelServer", !.cancelVpn = TRUE]
CancelServer == s.main = "cancelServer" /\ s' = [s EXCEPT !.main = "join", !.cancel = TRUE]
VpnDrains == s.vpnTask = "run" /\ s.cancelVpn /\ s' = [s EXCEPT !.vpnTask = "done", !.vpn = "idle"]
Join ==
  /\ s.main = "join" /\ s.vpnTask = "done" /\ s.task["ws"] = "done"
  /\ s' = [s EXCEPT !.main = "desktop"]
JoinDesktop == s.main = "desktop" /\ s.task["desktop"] = "done" /\ s' = [s EXCEPT !.main = "unlock"]
Unlock == s.main = "unlock" /\ s' = [s EXCEPT !.main = "exited", !.locked = FALSE]

Main == CancelVpn \/ CancelServer \/ VpnDrains \/ Join \/ JoinDesktop \/ Unlock
TaskOwed(t) == TaskCancelled(t) \/ SendShutdown(t)
Begin == ShutdownBegins /\ s.queue > 0
MainNext ==
  \/ Main \/ ShutdownBegins \/ IdlePoll \/ Issue \/ Revoke \/ Connect \/ Disconnect \/ UserSignal \/ SignalDone
  \/ \E t \in Tasks : TaskFails(t) \/ TaskOwed(t)

\* The lock file is given up by a process that has no tunnel and no server any
\* more, so that the next instance finds nothing left of this one.
ExitIsClean ==
  ~s.locked => s.vpn = "idle" /\ s.vpnTask = "done" /\ s.task["ws"] = "done" /\ s.task["desktop"] = "done"

Requested == s.main = "run" /\ s.queue > 0
Exited == s.main = "exited"

-----------------------------------------------------------------------------
(***************************************************************************)
(* The credential channels of gpservice: the desktop GUI's pipe             *)
(* (desktop_client.rs), over which sessions are renewed and switched, and   *)
(* the leases of the broker and debug sockets (credential_lease.rs), each a *)
(* session that lives as long as its stream.                                *)
(***************************************************************************)
\* live: the sessions in the registry.  cur and next: the session of the GUI
\* and the one issued for a switch.  lease: the session of a stream.
ChannelInit ==
  s = [live |-> {}, issued |-> 0, cur |-> None, next |-> None, pc |-> "issue", restart |-> FALSE,
       renewed |-> FALSE, cancelled |-> FALSE, wants |-> FALSE,
       lease |-> [x \in Streams |-> None], st |-> [x \in Streams |-> "new"]]

Issued(f) == [f EXCEPT !.issued = @ + 1, !.live = @ \cup {s.issued + 1}]
CanIssue == s.issued < MaxIssued

\* serve: a session is issued and written to the GUI's parent.
Serve ==
  /\ s.pc = "issue"
  /\ IF CanIssue THEN s' = [Issued(s) EXCEPT !.cur = s.issued + 1, !.next = None, !.pc = "control", !.wants = FALSE]
     ELSE s' = [s EXCEPT !.pc = "ended", !.wants = FALSE]

\* The loop is left: both sessions are revoked and the restart flag is taken.
Leave(message) ==
  LET again == \/ message = "exited" /\ s.restart
               \/ message = "renderingRetry" /\ ~s.renewed
  IN s' = [s EXCEPT !.live = @ \ {s.cur, s.next}, !.cur = None, !.next = None, !.restart = FALSE,
             !.pc = IF again THEN "issue" ELSE "ended", !.wants = again /\ message = "exited",
             !.renewed = @ \/ message = "renderingRetry"]

SwitchBegin ==
  /\ s.pc = "control"
  /\ IF s.next # None \/ ~CanIssue THEN Leave("error")
     ELSE s' = [Issued(s) EXCEPT !.next = s.issued + 1]
SwitchCommit ==
  /\ s.pc = "control"
  /\ IF s.next = None THEN Leave("error")
     ELSE s' = [s EXCEPT !.live = @ \ {s.cur}, !.cur = s.next, !.next = None]
SwitchCancel ==
  /\ s.pc = "control"
  /\ IF s.next = None THEN Leave("error")
     ELSE s' = [s EXCEPT !.live = @ \ {s.next}, !.next = None]
\* Anything else ends the loop: an exit, a retry, garbage, a failed write, the
\* end of the pipe, or the cancellation of the service.
ControlEnds ==
  /\ s.pc = "control"
  /\ \E m \in {"exited", "renderingRetry", "error", "eof"} : Leave(m)
Cancelled == s.pc = "control" /\ s.cancelled /\ Leave("cancelled")

\* A RestartGui request of a session sets the flag; shutdown cancels.
RestartGui == s.cur \in s.live /\ ~s.restart /\ s' = [s EXCEPT !.restart = TRUE]
Shutdown == ~s.cancelled /\ s' = [s EXCEPT !.cancelled = TRUE]

\* credential_lease::serve, after the peer named a user in time.
Accept(x) == s.st[x] = "new" /\ s' = [s EXCEPT !.st[x] = "identity"]
Identity(x) ==
  /\ s.st[x] = "identity"
  /\ \/ CanIssue /\ s' = [Issued(s) EXCEPT !.lease[x] = s.issued + 1, !.st[x] = "held"]
     \/ s' = [s EXCEPT !.st[x] = "closed"]
StreamEnds(x) == s.st[x] = "held" /\ s' = [s EXCEPT !.st[x] = "ending"]
LeaseEnds(x) == s.st[x] = "ending" /\ s' = [s EXCEPT !.st[x] = "closed", !.live = @ \ {s.lease[x]}, !.lease[x] = None]

Owed == Serve \/ Cancelled \/ \E x \in Streams : LeaseEnds(x)
ChannelNext ==
  \/ Serve \/ SwitchBegin \/ SwitchCommit \/ SwitchCancel \/ ControlEnds \/ Cancelled
  \/ RestartGui \/ Shutdown
  \/ \E x \in Streams : Accept(x) \/ Identity(x) \/ StreamEnds(x) \/ LeaseEnds(x)

\* Every live session belongs to a channel that will revoke it, and a channel
\* in use has its session: none leaks, none is revoked twice or early.
SessionsAccounted ==
  /\ s.live = ({s.cur, s.next} \cup {s.lease[x] : x \in Streams}) \ {None}
  /\ s.pc = "control" <=> s.cur # None
  /\ \A x \in Streams : s.st[x] = "held" => s.lease[x] \in s.live
=============================================================================
