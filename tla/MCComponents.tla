--------------------------- MODULE MCComponents ----------------------------
(***************************************************************************)
(* Small instances of the components around the connection lifecycle.       *)
(* `part` names the component a behaviour is about; the components do not   *)
(* share state, so the state space is the sum of theirs.                    *)
(***************************************************************************)
EXTENDS Integers

CONSTANT None

VARIABLES part, s

ConnSession == [c \in {"c1", "c2", "c3"} |-> IF c = "c3" THEN "y" ELSE "x"]
Procs == {"p1", "p2", "p3"}

Hip == INSTANCE HipJobs WITH
  Conns <- {"c1", "c2", "c3"}, SessionOf <- ConnSession, Slots <- 1, MaxStarts <- 2,
  MaxChunk <- 2, MaxReport <- 4, Page <- 2, MaxIds <- 4,
  MaxReports <- 2, Capacity <- 2
Main == INSTANCE ServiceMain WITH
  Streams <- {"s1", "s2"}, MaxIssued <- 5,
  ShutdownCap <- 4, IdleLimit <- 2, MaxSessions <- 2
Monitor == INSTANCE TunnelMonitor WITH Configs <- {"a"}, Transports <- {"Negotiating", "SslTls"}, MaxSeq <- 12
Tun == INSTANCE ScriptTun WITH QueueCap <- 2, MaxNative <- 3
Native == INSTANCE NativeVpn WITH MaxEvents <- 3, PipeCap <- 2
Admit == INSTANCE ConnectAdmission
Flow == INSTANCE ConnectFlow WITH MaxOtp <- 2
Link == INSTANCE WsClient WITH MaxRev <- 3, MaxFaults <- 3, Delays <- 2
Single == INSTANCE WidgetSockets WITH
  Daemons <- {"d1", "d2", "d3"}, Stale <- "stale",
  MaxInode <- 3
Shown == INSTANCE WidgetViews WITH
  RingCap <- 2, CmdCap <- 1, ReplyCap <- 1, MaxVer <- 4, MaxLines <- 3,
  MaxChanges <- 3,
  MaxSessions <- 3, MaxTicks <- 2, MaxGen <- 5
Launch == INSTANCE DesktopLaunch WITH MaxIssued <- 2, MaxRequests <- 1
Kid == INSTANCE ControlledChild WITH MaxOut <- 1, Limit <- 1, FrameLen <- 1, PipeCap <- 1
Asks == INSTANCE WsRequests WITH MaxRequests <- 2, MaxEvents <- 0, MaxPending <- 1, Queue <- 1, Pipe <- 1, Interval <- 1, Grace <- 1

Init ==
  \/ part = "previews" /\ Hip!PreviewInit
  \/ part = "uploads" /\ Hip!UploadInit
  \/ part = "channel" /\ Main!ChannelInit
  \/ part = "monitor" /\ Monitor!Init
  \/ part = "tun" /\ Tun!Init
  \/ part = "main" /\ Main!MainInit
  \/ part = "native" /\ Native!Init
  \/ part = "collect" /\ Hip!CollectInit
  \/ part = "admit" /\ Admit!Init
  \/ part = "flow" /\ Flow!Init
  \/ part = "link" /\ Link!Init
  \/ part = "sock" /\ Single!SocketInit
  \/ part = "popup" /\ Single!PopupInit
  \/ part = "feed" /\ Shown!FeedInit
  \/ part = "views" /\ Shown!ViewsInit
  \/ part = "sess" /\ Shown!SessionInit
  \/ part = "launch" /\ Launch!Init
  \/ part = "child" /\ Kid!Init
  \/ part = "requests" /\ Asks!Init

In(p) == part = p /\ part' = part

Next ==
  \/ In("previews") /\ Hip!PreviewNext
  \/ In("uploads") /\ Hip!UploadNext
  \/ In("channel") /\ Main!ChannelNext
  \/ In("monitor") /\ Monitor!Next
  \/ In("tun") /\ Tun!Next
  \/ In("main") /\ Main!MainNext
  \/ In("native") /\ Native!Next
  \/ In("collect") /\ Hip!CollectNext
  \/ In("admit") /\ Admit!Next
  \/ In("flow") /\ Flow!Next
  \/ In("link") /\ Link!Next
  \/ In("sock") /\ Single!SocketNext
  \/ In("popup") /\ Single!PopupNext
  \/ In("feed") /\ Shown!FeedNext
  \/ In("views") /\ Shown!ViewsNext
  \/ In("sess") /\ Shown!SessionNext
  \/ In("launch") /\ Launch!Next
  \/ In("child") /\ Kid!Next
  \/ In("requests") /\ Asks!Next

vars == <<part, s>>

\* Tasks run; clients, users, servers, consumers, timers that need not fire and
\* crashes are owed to nobody.
Fairness ==
  /\ WF_vars(In("previews") /\ Hip!JobStep)
  /\ WF_vars(In("previews") /\ Hip!Joins)
  /\ WF_vars(In("channel") /\ Main!Owed)
  /\ WF_vars(In("monitor") /\ Monitor!Sampler)
  /\ WF_vars(In("tun") /\ Tun!SupervisorStep)
  /\ WF_vars(In("tun") /\ Tun!Timeout)
  /\ WF_vars(In("main") /\ (Main!Main \/ Main!Begin))
  /\ WF_vars(In("main") /\ \E t \in Main!Tasks : Main!TaskOwed(t))
  /\ WF_vars(In("native") /\ Native!Thread)
  /\ WF_vars(In("native") /\ Native!TakeCancel)
  /\ WF_vars(In("admit") /\ Admit!Dispatch)
  /\ WF_vars(In("flow") /\ Flow!Owed)
  /\ WF_vars(In("link") /\ Link!TaskStep)
  /\ WF_vars(In("link") /\ Link!ServiceAnswers)
  /\ WF_vars(In("link") /\ Link!Broken)
  /\ WF_vars(In("popup") /\ Single!Owed)
  /\ WF_vars(In("feed") /\ Shown!Serve)
  /\ WF_vars(In("feed") /\ Shown!DaemonStep)
  /\ WF_vars(In("views") /\ Shown!ClientStep)
  /\ WF_vars(In("launch") /\ Launch!Launcher)
  /\ WF_vars(In("launch") /\ Launch!ServiceWait)
  /\ WF_vars(In("launch") /\ Launch!Service)
  /\ WF_vars(In("launch") /\ Launch!Killed)
  /\ WF_vars(In("child") /\ Kid!Parent)
  /\ WF_vars(In("child") /\ Kid!Child)
  /\ WF_vars(In("child") /\ Kid!Elapses)
  /\ WF_vars(In("requests") /\ Asks!Loop)
  /\ WF_vars(In("requests") /\ Asks!Workers)
  /\ WF_vars(In("requests") /\ Asks!ClientReads)

Spec == Init /\ [][Next]_vars /\ Fairness

-----------------------------------------------------------------------------


\* The numbers published with a tunnel's state order its updates
\* (gptunnel's monitor.rs), and the widget's link tells its daemon of a loss
\* once and of every new attachment (ws_client.rs).
UpdatesOrdered ==
  [][/\ part = "monitor" => Monitor!SequencesOrder
     /\ part = "link" => Link!NoticeStep]_vars

\* What the service owes happens: the teardown of previews ends (hip_preview.rs), a
\* GUI that exits for a new session gets one or its stream ends (desktop_client.rs),
\* statistics that are wanted arrive (monitor.rs), no script-tun attempt waits in
\* silence (script_tun.rs), a native connection that is asked to stop does (ffi), a
\* dispatched request is settled (request_dispatcher.rs), a shutdown that was
\* requested ends the process (cli.rs), and a request is answered or its
\* connection ends (ws_connection.rs).
ServiceSettles ==
  /\ (part = "previews" /\ Hip!Teardown) ~> (part = "previews" /\ ~Hip!Teardown)
  /\ (part = "channel" /\ s.wants) ~> (part = "channel" /\ ~s.wants)
  /\ []<>(part = "monitor" => Monitor!Shows)
  /\ []<>(part = "tun" => Tun!Settled)
  /\ (part = "native" /\ Native!Asked) ~> (part = "native" /\ Native!Over)
  /\ <>(part = "admit" => Admit!Settled)
  /\ (part = "main" /\ Main!Requested) ~> (part = "main" /\ Main!Exited)
  /\ \A i \in Asks!Ids :
       (part = "requests" /\ Asks!Unanswered(i)) ~> (part = "requests" /\ Asks!Settled(i))

\* A cancelled login ends (ConnectFlow), a lost link is resolved (ws_client.rs),
\* a popup that is asked to close does (popup/mod.rs), once gpservice is quiet
\* every view shows its state, a desktop launch that is interrupted or whose
\* service is gone returns after stopping every GUI (desktop_launcher.rs), and a
\* child's pipes never make it and its parent wait for each other
\* (command_runner.rs).
ClientsSettle ==
  /\ (part = "flow" /\ s.cancel) ~> (part = "flow" /\ Flow!Ended)
  /\ (part = "link" /\ Link!LossPending) ~> (part = "link" /\ Link!LossResolved)
  /\ []<>(part = "link" => Link!CaughtUp)
  /\ \A p \in Procs : (part = "popup" /\ p \in Single!Asked) ~> (part = "popup" /\ Single!Closed(p))
  /\ <>[](part = "feed" => Shown!FeedSettled)
  /\ <>[](part = "views" => Shown!ViewsSettled)
  /\ (part = "launch" /\ Launch!Asked) ~> (part = "launch" /\ Launch!Done)
  /\ <>(part = "child" => Kid!Over)
=============================================================================
