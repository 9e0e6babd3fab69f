----------------------------- MODULE ScriptTun ------------------------------
(***************************************************************************)
(* An attempt whose packets are delivered to a consumer process (gpservice  *)
(* vpn_task/script_tun.rs): the native worker's callbacks fill a bounded    *)
(* queue, the supervisor leads the consumer through configuration,          *)
(* activation and suspension under a deadline, and run() tears down.        *)
(***************************************************************************)
EXTENDS Integers, Sequences

CONSTANTS QueueCap, MaxNative

VARIABLE s

\* net: 0 is no usable configuration.  told: what the lifecycle was told.
Init ==
  s = [queue |-> <<>>, sent |-> 0, up |-> "starting", thread |-> "running", worker |-> "Preparing",
       net |-> 0, session |-> FALSE, online |-> FALSE, was |-> FALSE, deadline |-> FALSE,
       out |-> <<>>, in |-> <<>>, consumer |-> "new", told |-> "nothing", cancelled |-> FALSE,
       pc |-> "supervise", result |-> "none", lost |-> FALSE]

Supervising == s.pc = "supervise"

\* The observer and the connect callback run on the native thread: an event
\* that finds the queue full cancels the attempt, the callback's is dropped.
Push(f, e) ==
  IF Len(f.queue) < QueueCap THEN [f EXCEPT !.queue = Append(@, e), !.sent = @ + 1]
  ELSE IF e[1] = "session" THEN [f EXCEPT !.lost = TRUE, !.sent = @ + 1]
  ELSE [f EXCEPT !.cancelled = TRUE, !.sent = @ + 1]
Native == s.thread = "running" /\ s.sent < MaxNative
NativeConfiguration == Native /\ \E c \in 0 .. 2 : s' = Push(s, <<"config", c>>)
NativeEstablished == Native /\ s.up = "starting" /\ s' = Push([s EXCEPT !.up = "up"], <<"session", 0>>)
NativeReconnecting == Native /\ s.up # "down" /\ s' = Push([s EXCEPT !.up = IF @ = "up" THEN "down" ELSE @], <<"down", 0>>)
NativeReconnected == Native /\ s.up = "down" /\ s' = Push([s EXCEPT !.up = "up"], <<"up", 0>>)
NativeEnds == s.thread = "running" /\ s' = [s EXCEPT !.thread = "ended"]

\* The end of the supervisor's loop, and the Stop it sends.
End(f, result) == [f EXCEPT !.pc = "stop", !.result = result, !.out = Append(@, "Stop")]

\* The last lines of the loop: a ready consumer of a live session is activated.
Activate(f) ==
  IF f.online /\ f.session /\ f.worker = "Ready" /\ ~f.cancelled
  THEN [f EXCEPT !.out = Append(@, "Activate"), !.worker = "Activating", !.deadline = TRUE]
  ELSE f

Cancel == Supervising /\ s.cancelled /\ s' = End(s, "cancelled")
Timeout == Supervising /\ s.deadline /\ s' = End(s, "timeout")

Took(f) == [f EXCEPT !.in = Tail(@)]
TakeMessage ==
  /\ Supervising /\ s.in # <<>>
  /\ LET m == Head(s.in) t == Took(s) IN
     s' = IF m = "Ready" /\ s.worker = "Preparing" /\ s.net # 0
            THEN Activate([t EXCEPT !.worker = "Ready"])
          ELSE IF m = "Activated" /\ s.worker = "Activating" /\ s.online /\ ~s.cancelled
            THEN [t EXCEPT !.worker = "Active", !.was = TRUE, !.deadline = FALSE, !.told = "established"]
          ELSE IF m = "Suspended" /\ s.worker = "Suspending"
            THEN Activate([t EXCEPT !.worker = "Ready", !.deadline = FALSE])
          ELSE End(t, "error")

Got(f) == [f EXCEPT !.queue = Tail(@)]
TakeSession ==
  /\ Supervising /\ s.queue # <<>> /\ Head(s.queue)[1] = "session"
  /\ s' = Activate([Got(s) EXCEPT !.session = TRUE, !.online = TRUE, !.deadline = TRUE])
TakeConfiguration ==
  /\ Supervising /\ s.queue # <<>> /\ Head(s.queue)[1] = "config"
  /\ LET c == Head(s.queue)[2] g == Got(s) IN
     s' = IF s.was /\ (c = 0 \/ s.net # c) THEN End(g, "networkChanged")
          ELSE IF c = 0 \/ s.net \notin {0, c} THEN End(g, "error")
          ELSE IF s.net = 0 THEN Activate([g EXCEPT !.net = c, !.deadline = TRUE, !.out = Append(@, "Configure")])
          ELSE Activate(g)
TakeReconnecting ==
  /\ Supervising /\ s.queue # <<>> /\ Head(s.queue)[1] = "down"
  /\ LET g == [Got(s) EXCEPT !.online = FALSE, !.told = "suspended"] IN
     s' = IF s.worker = "Activating" THEN End(Got(s), "error")
          ELSE IF s.worker \in {"Ready", "Active"}
            THEN [g EXCEPT !.out = Append(@, "Suspend"), !.worker = "Suspending", !.deadline = TRUE]
          ELSE g
TakeReconnected ==
  /\ Supervising /\ s.queue # <<>> /\ Head(s.queue)[1] = "up"
  /\ s' = Activate([Got(s) EXCEPT !.online = TRUE])

\* run: the worker ended first, or the approval or the session is gone.
WorkerEnds == Supervising /\ s.thread = "ended" /\ s' = End(s, "workerEnded")
Revoked == Supervising /\ ~s.cancelled /\ s' = [s EXCEPT !.cancelled = TRUE]
\* Afterwards: disconnect, join the worker, stop the monitor.
Disconnect == s.pc = "stop" /\ s' = [s EXCEPT !.pc = "join"]
JoinWorker ==
  /\ s.pc = "join"
  /\ s' = [s EXCEPT !.thread = "ended", !.pc = "done"]

\* The consumer answers what it is asked, fails, or keeps silent.
Answer == [Configure |-> "Ready", Activate |-> "Activated", Suspend |-> "Suspended"]
After(m) ==
  CASE m = "Configure" /\ s.consumer = "new" -> "ready"
    [] m = "Activate" /\ s.consumer = "ready" -> "active"
    [] m = "Suspend" /\ s.consumer \in {"ready", "active"} -> "ready"
    [] m = "Stop" -> "stopped"
    [] OTHER -> "confused"
ConsumerAnswers ==
  /\ s.out # <<>>
  /\ s' = [s EXCEPT !.out = Tail(@), !.consumer = After(Head(s.out)),
             !.in = IF Head(s.out) = "Stop" THEN @ ELSE Append(@, Answer[Head(s.out)])]
ConsumerFails == Supervising /\ s.in = <<>> /\ s' = [s EXCEPT !.in = <<"Error">>]

SupervisorStep ==
  \/ Cancel \/ TakeMessage \/ TakeSession \/ TakeConfiguration \/ TakeReconnecting \/ TakeReconnected
  \/ WorkerEnds \/ Disconnect \/ JoinWorker
NativeStep == NativeConfiguration \/ NativeEstablished \/ NativeReconnecting \/ NativeReconnected \/ NativeEnds
Next == SupervisorStep \/ Timeout \/ NativeStep \/ Revoked \/ ConsumerAnswers \/ ConsumerFails

\* The lifecycle is told Established only of a consumer that is active, and
\* hears of the suspension before the consumer does; the consumer is asked
\* nothing out of turn; and when run returns the native worker has ended.
DeliveryInStep ==
  /\ (Supervising /\ s.told = "established") => s.worker = "Active" /\ s.online
  /\ (Supervising /\ s.worker = "Active") => s.consumer = "active" /\ s.net # 0
  /\ s.consumer # "confused"
  /\ s.pc = "done" => s.thread = "ended"

\* No silent wait: a session that is up gets its consumer active or its
\* attempt ended, unless the callback that brings it was dropped.
Done == s.pc = "done"
Settled == Done \/ s.worker = "Active" \/ ~s.online \/ s.lost
=============================================================================
