----------------------------- MODULE NativeVpn ------------------------------
(***************************************************************************)
(* One native connection (openconnect vpn.rs and ffi/vpn.c): vpn_connect on *)
(* its own thread, the command pipe other threads write to, and what it     *)
(* reports through its callbacks until it has cleaned up.                   *)
(***************************************************************************)
EXTENDS Integers

CONSTANTS MaxEvents, PipeCap

VARIABLE s

\* fd: the pipe is open.  attached, requested and pending are behind the
\* cancellation mutex; cancels and stats count the commands in the pipe.
\* transport is observed_transport; last is what the observer was told last.
Init ==
  s = [pc |-> "new", fd |-> FALSE, attached |-> FALSE, requested |-> FALSE, pending |-> FALSE,
       cancels |-> 0, stats |-> 0, stray |-> FALSE, callback |-> FALSE, connected |-> 0,
       transport |-> "none", last |-> "none", events |-> 0]

\* on_tunnel_event: a transport that was observed before is not told again.
Tell(f, e) == [f EXCEPT !.last = e]
TellTransport(f, t) ==
  IF f.transport = t THEN f
  ELSE [Tell(f, "Transport") EXCEPT !.transport = t]

\* connect keeps the callback; without a vpninfo there is nothing to clean up.
Connect ==
  /\ s.pc = "new"
  /\ \E pc \in {"pipe", "end"} : s' = [s EXCEPT !.pc = pc, !.callback = TRUE]
SetupPipe ==
  /\ s.pc = "pipe"
  /\ \/ s' = [s EXCEPT !.pc = "attach", !.fd = TRUE]
     \/ s' = [s EXCEPT !.pc = "detach"]
Attach == s.pc = "attach" /\ s' = [s EXCEPT !.attached = TRUE, !.pc = IF s.requested THEN "detach" ELSE "options"]
\* A HIP script the library refuses ends the attempt before it negotiates.
SetOptions ==
  /\ s.pc = "options"
  /\ \/ s' = [s EXCEPT !.pc = "detach"]
     \/ s' = [TellTransport(s, "Negotiating") EXCEPT !.pc = "cstp"]
Cstp == s.pc = "cstp" /\ s' = [s EXCEPT !.pc = "loop"]
Fails == s.pc \in {"cstp", "loop"} /\ s' = [s EXCEPT !.pc = "detach"]

\* The library reads the pipe while it connects and in its main loop.
TakeCancel == s.pc \in {"cstp", "loop"} /\ s.cancels > 0 /\ s' = [s EXCEPT !.cancels = 0, !.pc = "detach"]
TakeStats ==
  /\ s.pc \in {"cstp", "loop"} /\ s.stats > 0
  /\ s' = [Tell(s, "Statistics") EXCEPT !.stats = @ - 1, !.pending = FALSE]

Reports == s.pc = "loop" /\ s.events < MaxEvents
\* setup_tun_handler: nothing is reported unless the device came up; the
\* callback is taken, so that it runs once.
SetupTun ==
  /\ Reports
  /\ s' = [Tell(s, "Established") EXCEPT !.events = @ + 1, !.callback = FALSE,
             !.connected = IF s.callback THEN @ + 1 ELSE @]
ObserveTunnel(t) == Reports /\ s' = [TellTransport(s, t) EXCEPT !.events = @ + 1]
ObserveReconnecting == Reports /\ s' = [Tell(TellTransport(s, "Unavailable"), "Reconnecting") EXCEPT !.events = @ + 1]
ObserveReconnected == Reports /\ s' = [Tell(s, "Reconnected") EXCEPT !.events = @ + 1]

Detach == s.pc = "detach" /\ s' = [s EXCEPT !.pc = "free", !.attached = FALSE, !.pending = FALSE]
Free == s.pc = "free" /\ s' = [s EXCEPT !.pc = "end", !.fd = FALSE, !.cancels = 0, !.stats = 0]
End == s.pc = "end" /\ s' = [Tell(TellTransport(s, "Unavailable"), "Ended") EXCEPT !.pc = "done"]

\* A command is written only if the pipe has room; a cancellation is latched
\* first and written once, whatever becomes of the write.
Room == s.cancels + s.stats < PipeCap
Cancel ==
  /\ ~s.requested
  /\ s' = [s EXCEPT !.requested = TRUE, !.cancels = IF s.attached /\ Room THEN 1 ELSE 0,
             !.stray = @ \/ (s.attached /\ ~s.fd)]
\* Mutant: requests for statistics queue up behind each other.
RequestStatisticsQueued ==
  /\ ~s.requested /\ s.attached /\ Room
  /\ s' = [s EXCEPT !.pending = TRUE, !.stats = @ + 1]

RequestStatistics ==
  /\ ~s.requested /\ ~s.pending /\ s.attached /\ Room
  /\ s' = [s EXCEPT !.pending = TRUE, !.stats = @ + 1, !.stray = @ \/ ~s.fd]

\* What the native thread does without waiting for the gateway.
Thread == Connect \/ SetupPipe \/ Attach \/ SetOptions \/ TakeCancel \/ TakeStats \/ Detach \/ Free \/ End
Next ==
  \/ Thread \/ Cstp \/ Fails \/ Cancel \/ RequestStatistics
  \/ SetupTun \/ ObserveReconnecting \/ ObserveReconnected
  \/ \E t \in {"IpsecEsp", "SslTls", "Unavailable"} : ObserveTunnel(t)

\* Nobody writes to a descriptor the library has closed, a statistics request
\* is outstanding only while its connection may answer it, the connected
\* callback runs at most once, and Ended is the last thing observed, with the
\* transport gone.
PipeSafe ==
  /\ ~s.stray /\ (s.attached => s.fd)
  /\ s.pending => s.attached /\ s.stats = 1
  /\ s.connected <= 1
  /\ (s.pc = "done") = (s.last = "Ended")
  /\ s.last = "Ended" => s.transport = "Unavailable"

\* A disconnect ends the attempt, whenever it comes: it is latched before the
\* pipe exists, and the pipe has room for it because requests for statistics
\* are never queued behind each other.
Asked == s.requested
Over == s.pc = "done"
=============================================================================
