----------------------------- MODULE CliProcess -----------------------------
(***************************************************************************)
(* The processes of gpclient: the background worker, and the clock that    *)
(* warns of a session's end. Each is a specification of its own over s.    *)
(***************************************************************************)
EXTENDS Integers, FiniteSets, FiniteSetsExt

CONSTANTS
  Instances, None, MaxAttempts,  \* bound on tunnel attempts
  MaxTime, MaxLatency, Lifetimes, Priors

VARIABLE s

-----------------------------------------------------------------------------
(***************************************************************************)
(* The processes of `gpclient connect` (apps/gpclient/src: cli.rs,          *)
(* background.rs, disconnect.rs): instances that start next to each other,  *)
(* in the foreground or as a launcher with a worker, the PID lock file, the *)
(* readiness socket, and `gpclient disconnect`.                             *)
(***************************************************************************)
\* launcher: the foreground command of a background start. worker: the process
\* that connects, which in the foreground is the command itself. socket: the
\* worker's end. int: SIGINT is pending. tty: its standard streams are the
\* terminal. leader: it has left the terminal's session.
Instance == [bg : BOOLEAN, launcher : {"off"}, worker : {"off"}, socket : {"none"}, int : {FALSE}, tty : {TRUE},
             saved : {FALSE}, leader : {FALSE}, wrote : {FALSE}, tunnels : {0}, was : {FALSE}]
ProcessInit == s \in [i : [Instances -> Instance], lock : {None}, overlap : {FALSE}]

Set(i, r) == s' = [s EXCEPT !.i[i] = r]
W(i) == s.i[i].worker
Alive(i) == W(i) \notin {"off", "gone"}

\* Cli::is_running: the lock file names a live gpclient.
IsRunning == s.lock /= None /\ Alive(s.lock)

\* Two starts pass the check before either has written the file.
Overlapping(i) == \E j \in Instances \ {i} : Alive(j) /\ ~s.i[j].wrote

\* Cli::run of a command; a background start spawns its worker (launch).
Start(i) ==
  /\ s.i[i].launcher = "off" /\ W(i) = "off"
  /\ ~IsRunning
  /\ s' = [s EXCEPT !.i[i] = IF @.bg THEN [@ EXCEPT !.launcher = "waits", !.worker = "check", !.socket = "open"]
                             ELSE [@ EXCEPT !.worker = "auth"],
                    !.overlap = @ \/ Overlapping(i)]

Gone(r) == [r EXCEPT !.worker = "gone", !.socket = IF @ = "open" THEN "closed" ELSE @, !.int = FALSE]

\* The worker is a command of its own: it checks again and opens its log.
StartWorker(i) ==
  /\ W(i) = "check"
  /\ \/ ~IsRunning /\ s' = [s EXCEPT !.i[i].worker = "auth", !.overlap = @ \/ Overlapping(i)]
     \/ Set(i, Gone(s.i[i]))

-----------------------------------------------------------------------------
\* BackgroundWorker::redirect_stdio; nothing is saved once detached.
RedirectStdio(r) == IF r.bg /\ r.socket = "open" THEN [r EXCEPT !.tty = FALSE, !.saved = TRUE] ELSE r

\* Drop of BackgroundStdio.
RestoreStdio(r) == [r EXCEPT !.tty = @ \/ r.saved, !.saved = FALSE]

\* connect_gateway opens a tunnel after a sign-in that may prompt.
OpenTunnel(i) ==
  /\ W(i) = "auth" /\ ~s.i[i].int /\ s.i[i].tunnels < MaxAttempts
  /\ Set(i, [RedirectStdio(s.i[i]) EXCEPT !.worker = "tunnel", !.tunnels = @ + 1])

\* A failure before the tunnel is established: the next gateway, or the end.
TunnelFails(i) ==
  /\ W(i) = "tunnel"
  /\ \/ Set(i, [RestoreStdio(s.i[i]) EXCEPT !.worker = "auth"])
     \/ Set(i, [RestoreStdio(s.i[i]) EXCEPT !.worker = "ends"])

\* The callback of the tunnel writes the PID file, or cannot.
Established(i) ==
  /\ W(i) = "tunnel" /\ ~s.i[i].int
  /\ \/ s' = [s EXCEPT !.i[i] = [@ EXCEPT !.worker = "established", !.wrote = TRUE], !.lock = i]
     \/ Set(i, [s.i[i] EXCEPT !.worker = "established"])

DetachAllowed(i) == s.i[i].wrote

\* BackgroundWorker::detach: setsid, then READY; a failure cancels the tunnel.
Detach(i) ==
  /\ W(i) = "established"
  /\ LET r == s.i[i]
     IN IF ~r.bg THEN Set(i, [r EXCEPT !.worker = "up"])
        ELSE IF ~DetachAllowed(i) THEN Set(i, [r EXCEPT !.worker = "down"])
        ELSE IF r.launcher = "killed" THEN Set(i, [r EXCEPT !.worker = "down", !.leader = TRUE])
        ELSE Set(i, [r EXCEPT !.worker = "up", !.leader = TRUE, !.socket = "ready", !.saved = FALSE, !.was = TRUE])

\* The tunnel ends by itself or after a signal.
TunnelEnds(i) == W(i) \in {"established", "up", "down"} /\ Set(i, [RestoreStdio(s.i[i]) EXCEPT !.worker = "ends"])

SignInEnds(i) == W(i) = "auth" /\ Set(i, [s.i[i] EXCEPT !.worker = "ends"])

\* ConnectHandler::handle removes the file that it wrote, whoever it names now.
Exit(i) ==
  /\ W(i) = "ends"
  /\ s' = [s EXCEPT !.i[i] = Gone(@), !.lock = IF s.i[i].wrote THEN None ELSE @]

Killed(i) == Alive(i) /\ Set(i, Gone(s.i[i]))

-----------------------------------------------------------------------------
\* launch waits for READY, the end of the worker, or a signal to itself.
LauncherReads(i) ==
  /\ s.i[i].launcher = "waits"
  /\ \/ s.i[i].socket = "ready" /\ Set(i, [s.i[i] EXCEPT !.launcher = "ok"])
     \/ s.i[i].socket = "closed" /\ Set(i, [s.i[i] EXCEPT !.launcher = "joins", !.int = Alive(i)])
     \/ W(i) = "gone" /\ Set(i, [s.i[i] EXCEPT !.launcher = "failed"])

LauncherSignalled(i) == s.i[i].launcher = "waits" /\ Set(i, [s.i[i] EXCEPT !.launcher = "joins", !.int = Alive(i)])
LauncherJoins(i) == s.i[i].launcher = "joins" /\ W(i) = "gone" /\ Set(i, [s.i[i] EXCEPT !.launcher = "failed"])
LauncherKilled(i) == s.i[i].launcher \in {"waits", "joins"} /\ Set(i, [s.i[i] EXCEPT !.launcher = "killed"])

\* Ctrl-C at the terminal reaches the foreground group: the launcher and a
\* worker that has not left its session.
Interrupted(i) == Alive(i) /\ W(i) /= "check" /\ ~s.i[i].leader /\ Set(i, [s.i[i] EXCEPT !.int = TRUE])

\* DisconnectHandler::handle signals the process in the lock file.
DisconnectSent == s.lock /= None /\ Alive(s.lock) /\ W(s.lock) /= "check" /\ Set(s.lock, [s.i[s.lock] EXCEPT !.int = TRUE])

ProcessStutter == (\A i \in Instances : ~Alive(i)) /\ UNCHANGED s

ProcessNext ==
  \/ DisconnectSent \/ ProcessStutter
  \/ \E i \in Instances :
       Start(i) \/ StartWorker(i) \/ OpenTunnel(i) \/ TunnelFails(i) \/ Established(i) \/ Detach(i) \/ TunnelEnds(i)
       \/ SignInEnds(i) \/ Exit(i) \/ Killed(i) \/ LauncherReads(i) \/ LauncherSignalled(i) \/ LauncherJoins(i)
       \/ LauncherKilled(i) \/ Interrupted(i)

-----------------------------------------------------------------------------
\* A launcher reports success only for a worker that was established, wrote its
\* PID and left the terminal; a launcher that reports failure leaves no worker;
\* a worker that may prompt has the terminal; a background worker that runs
\* without its launcher is out of the terminal's reach; and unless two starts
\* overlapped, `disconnect` finds the client whose tunnel is up (background.rs,
\* cli.rs, disconnect.rs).
BackgroundSound ==
  \A i \in Instances :
    LET r == s.i[i] IN
    /\ r.launcher = "ok" => r.was /\ r.wrote /\ r.leader /\ ~r.saved
    /\ r.launcher = "failed" => r.worker = "gone"
    /\ r.worker = "auth" => r.tty
    /\ r.bg /\ r.worker = "up" => ~r.tty /\ r.leader
    /\ r.worker = "up" /\ r.wrote /\ ~s.overlap => s.lock = i

-----------------------------------------------------------------------------
(***************************************************************************)
(* The expiry of a session and its automatic extension                      *)
(* (apps/gpclient/src/session.rs, crates/gpapi/src/session.rs). `real` is   *)
(* the gateway's own expiry; `info` is the SessionInfo the client holds.    *)
(***************************************************************************)
SubSat(a, b) == Max({0, a - b})

\* session_info_from_vpn: every field is the gateway's and may be absent.
ClockInit ==
  \E lifetime \in Lifetimes \cup {None}, expires \in BOOLEAN, prior \in Priors \cup {None}, allow \in BOOLEAN, life \in Lifetimes :
    /\ lifetime /= None => life = lifetime
    /\ s = [pc |-> "schedule", now |-> 1, real |-> 1 + life, life |-> life, wake |-> 0, sent |-> 0, answered |-> None,
            warnedAt |-> None, extended |-> FALSE,
            info |-> [lifetime |-> lifetime, expires |-> IF expires THEN 1 + life ELSE None, prior |-> prior, allow |-> allow]]

\* The warning delay of build_session_warning_schedule, or None.
WarningDelay(info, now) ==
  IF info.prior = None THEN None
  ELSE IF info.expires /= None THEN SubSat(SubSat(info.expires, info.prior), now)
  ELSE IF info.lifetime /= None THEN SubSat(info.lifetime, info.prior)
  ELSE None

Schedule ==
  /\ s.pc = "schedule"
  /\ LET delay == WarningDelay(s.info, s.now) IN
     s' = IF delay = None THEN [s EXCEPT !.pc = "done"] ELSE [s EXCEPT !.pc = "sleep", !.wake = s.now + delay]

\* A timer is never early; the runtime may run the task up to a tick late.
Warn ==
  /\ s.pc = "sleep" /\ s.now >= s.wake
  /\ s' = [s EXCEPT !.warnedAt = s.now, !.pc = IF s.info.allow THEN "extend" ELSE "done", !.sent = s.now]

\* The gateway extends the session when it handles the request.
GatewayExtends ==
  /\ s.pc = "extend" /\ s.answered = None
  /\ \E ok \in {ok \in BOOLEAN : ok => s.now < s.real} :
       s' = [s EXCEPT !.answered = ok, !.real = IF ok THEN s.now + s.life ELSE @]

\* rescheduled_after_extension starts a lifetime at the clock of the answer.
Rescheduled(info, now) == [info EXCEPT !.expires = now + info.lifetime]
Extended ==
  /\ s.pc = "extend" /\ s.answered = TRUE
  /\ s' = IF s.info.lifetime = None THEN [s EXCEPT !.pc = "done"]
          ELSE [s EXCEPT !.info = Rescheduled(@, s.now), !.pc = "schedule", !.answered = None, !.extended = TRUE]
\* A refusal, or an answer that is lost.
ExtendFailed ==
  /\ s.pc = "extend"
  /\ s' = [s EXCEPT !.pc = "done"]

\* Time passes unless a due timer or a request has used up its allowance.
Tick ==
  /\ s.now < MaxTime
  /\ s.pc /= "schedule"
  /\ s.pc = "sleep" => s.now < s.wake
  /\ s.pc = "extend" => s.now < s.sent + MaxLatency
  /\ s' = [s EXCEPT !.now = @ + 1]

ClockStutter == UNCHANGED s
ClockNext == Schedule \/ Warn \/ GatewayExtends \/ Extended \/ ExtendFailed \/ Tick \/ ClockStutter

-----------------------------------------------------------------------------
\* run_session_runtime: while a warning is awaited the gateway's session has not
\* ended before it is due, the user gets the notice the gateway asked for or all
\* the time there is, and the expiry the client computes after an extension is
\* late by no more than the request took.
WarnedInTime ==
  /\ s.pc = "sleep" =>
       LET slack == IF s.extended THEN MaxLatency ELSE 0
           notice == Min({s.info.prior, s.life}) IN
       s.wake + notice <= s.real + slack
  /\ s.extended /\ s.pc \in {"schedule", "sleep"} => s.info.expires \in s.real..(s.real + MaxLatency)
=============================================================================
