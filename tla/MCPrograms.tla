---------------------------- MODULE MCPrograms ----------------------------
(***************************************************************************)
(* Small instances of the command-line client, the sign-in programs, the    *)
(* launchers and the protocol code they share. `part` names the component a *)
(* behaviour is about; the components share no state.                       *)
(***************************************************************************)
EXTENDS Integers

CONSTANT None

VARIABLES part, s

Cli == INSTANCE CliConnect WITH MaxPrompts <- 1, Procs <- {"p", "q"}, MaxCookies <- 1,
    MaxCrashes <- 1
Process == INSTANCE CliProcess WITH Instances <- {"a", "b"}, MaxAttempts <- 2, MaxTime <- 12,
    MaxLatency <- 2, Lifetimes <- {2, 5}, Priors <- {0, 1, 3}
Screen == INSTANCE Dashboard WITH MaxChunks <- 3, MaxStops <- 2, MaxLines <- 2, MaxBytes <- 5,
    MaxLineBytes <- 2, MaxIn <- 8, Base <- 4, Units <- 3
Webview == INSTANCE WebviewSignIn WITH MaxNav <- 2, MaxQueue <- 2, MaxJobs <- 3, MaxClicks <- 1
Browser == INSTANCE BrowserSignIn WITH Gpauths <- {"a", "b"}, Forwarders <- {"f", "h"}
Sign == INSTANCE AuthLaunch WITH MaxSignIns <- 3
Profile == INSTANCE HostProfile
Report == INSTANCE HipReport WITH MaxEdits <- 1, MaxSessions <- 2, MaxBytes <- 9
Values == INSTANCE TunnelValues WITH MaxCalls <- 3, TextLimit <- 3, CopyBudget <- 7, ListLimit <- 1,
    Width <- 4, AddressMax <- 2, ConfigurationMax <- 55, PlaintextMax <- 60, Shape <- 2,
    AddressShape <- 2, Bits <- 2, Rests <- {10, 25, 30, 34, 38, 46, 61}
Login == INSTANCE GatewayLogin WITH MaxRounds <- 3
Portal == INSTANCE PortalPolicy WITH MaxPriority <- 9, Names <- {1, 2}, MaxChanges <- 2
Members == INSTANCE NonTunnel WITH Members <- {1, 2}, MaxChecks <- 1
Network == INSTANCE PhysicalNetwork WITH MaxChanges <- 2
Update == INSTANCE GuiUpdate WITH MaxUpdates <- 2, MaxLinks <- 2
Identity == INSTANCE ClientIdentity WITH MaxCalls <- 4, MaxClients <- 1
Launch == INSTANCE DesktopLaunch WITH MaxIssued <- 3, MaxRequests <- 2
Kid == INSTANCE ControlledChild WITH MaxOut <- 3, Limit <- 2, FrameLen <- 2, PipeCap <- 1
Asks == INSTANCE WsRequests WITH MaxRequests <- 2, MaxEvents <- 1, MaxPending <- 2, Queue <- 1,
    Pipe <- 1, Interval <- 1, Grace <- 1
Stores == INSTANCE ServiceStores WITH Revokers <- {"r1", "r2"}, MaxCrashes <- 2,
    Procs <- {"p1", "p2"}, Requests <- {"a", "b", "c"}, Archives <- {"a", "b", "c", "junk"},
    Bad <- {"c"}, MaxChanges <- 2, Installers <- {"i1", "i2"}, Services <- {"x", "y", "z"},
    Pids <- {1, 2, 3}

Init ==
  \/ part = "cli" /\ Cli!ConnectInit
  \/ part = "process" /\ Process!ProcessInit
  \/ part = "dashboard" /\ Screen!ScreenInit
  \/ part = "text" /\ Screen!TextInit
  \/ part = "clock" /\ Process!ClockInit
  \/ part = "webview" /\ Webview!Init
  \/ part = "browser" /\ Browser!Init
  \/ part = "signin" /\ Sign!Init
  \/ part = "profile" /\ Profile!Init
  \/ part = "report" /\ Report!ReportInit
  \/ part = "products" /\ Report!ProductInit
  \/ part = "options" /\ Values!OptionsInit
  \/ part = "login" /\ Login!Init
  \/ part = "portal" /\ Portal!PortalInit
  \/ part = "criteria" /\ Portal!CscInit
  \/ part = "members" /\ Members!Init
  \/ part = "network" /\ Network!Init
  \/ part = "update" /\ Update!Init
  \/ part = "identity" /\ Identity!Init
  \/ part = "launch" /\ Launch!Init
  \/ part = "child" /\ Kid!Init
  \/ part = "requests" /\ Asks!Init
  \/ part = "approvals" /\ Stores!ApprovalInit
  \/ part = "anchor" /\ Stores!AnchorInit
  \/ part = "gui" /\ Stores!GuiInit
  \/ part = "scripts" /\ Stores!ScriptInit
  \/ part = "cookies" /\ Cli!CookieInit
  \/ part = "lock" /\ Stores!LockInit
  \/ part = "values" /\ Values!NativeInit
  \/ part = "limits" /\ Values!LimitsInit

In(p) == part = p /\ part' = part

Next ==
  \/ In("cli") /\ Cli!ConnectNext
  \/ In("process") /\ Process!ProcessNext
  \/ In("dashboard") /\ Screen!ScreenNext
  \/ In("text") /\ Screen!TextNext
  \/ In("clock") /\ Process!ClockNext
  \/ In("webview") /\ Webview!Next
  \/ In("browser") /\ Browser!Next
  \/ In("signin") /\ Sign!Next
  \/ In("profile") /\ Profile!Next
  \/ In("report") /\ Report!ReportNext
  \/ In("products") /\ Report!ProductNext
  \/ In("options") /\ Values!OptionsNext
  \/ In("login") /\ Login!Next
  \/ In("portal") /\ Portal!PortalNext
  \/ In("criteria") /\ Portal!CscNext
  \/ In("members") /\ Members!Next
  \/ In("network") /\ Network!Next
  \/ In("update") /\ Update!Next
  \/ In("identity") /\ Identity!Next
  \/ In("launch") /\ Launch!Next
  \/ In("child") /\ Kid!Next
  \/ In("requests") /\ Asks!Next
  \/ In("approvals") /\ Stores!ApprovalNext
  \/ In("anchor") /\ Stores!AnchorNext
  \/ In("gui") /\ Stores!GuiNext
  \/ In("scripts") /\ Stores!ScriptNext
  \/ In("cookies") /\ Cli!CookieNext
  \/ In("lock") /\ Stores!LockNext
  \/ In("values") /\ Values!NativeNext
  \/ In("limits") /\ Values!LimitsNext

vars == <<part, s>>

Spec == Init /\ [][Next]_vars

-----------------------------------------------------------------------------
\* A gateway session that was issued is in a ledger, belongs to a tunnel or was
\* handed to the user, whatever fails on the way: in `gpclient connect`
\* (connect/gateway.rs, gateway_sessions.rs), in one login or extension with its
\* challenges (gateway/login.rs), and among the members of a non-tunnel connection,
\* each logged out once, after its worker (non_tunnel.rs).  The user is warned of a
\* session's end in the time the gateway asked for (gpclient session.rs).
SessionsHeld ==
  /\ part = "cli" => Cli!SessionsOwned
  /\ part = "clock" => Process!WarnedInTime
  /\ part = "login" => Login!LoginAccounted
  /\ part = "members" => Members!MembersSettled

\* Children, terminals, sockets and files are given back in the state that their
\* callers rely on.  `gpclient --background` reports what its worker did
\* (background.rs); the dashboard gives the terminal back (dashboard/); an update is
\* reported done only if the service took it (updater.rs); launcher, GUIs and service
\* agree on the session in use through every switch (desktop_launcher.rs,
\* gui_launcher.rs); and no child is left or its output lost (command_runner.rs).
ProcessesSound ==
  /\ part = "process" => Process!BackgroundSound
  /\ part = "dashboard" => Screen!TerminalGivenBack
  /\ part = "update" => Update!UpdatesAnswered
  /\ part = "launch" => Launch!LaunchInStep
  /\ part = "child" => Kid!ChildOwned

\* An answer belongs to the request that it answers, and comes once: the page that
\* signs in is of the attempt in progress (webview_auth.rs), a browser's callback
\* reaches the process that waits and is used once (callback.rs), gpauth signs in
\* the way its launcher takes it to (auth_launcher.rs), all clients of a sign-in have
\* the identity that was loaded for it (request.rs), and a request to the service has
\* exactly one answer to come (ws_connection.rs).
SignInsSound ==
  /\ part = "webview" => Webview!SignInCurrent
  /\ part = "browser" => Browser!CallbackReaches
  /\ part = "signin" => Sign!SignInAsAsked
  /\ part = "identity" => Identity!IdentityKept
  /\ part = "requests" => Asks!RequestsAnswered


\* What is parsed, chosen, collected or formatted is what an independent definition
\* of the same result says: the dashboard's text and layout (dashboard/), host
\* profiles (os_profile), HIP reports and products (gphip), the options of a tunnel
\* (vpn.rs), values that cross the C boundary (openconnect's ffi) and their bounds
\* in messages (tunnel.rs, fit_snapshot_message), portal answers and the choice of a
\* gateway (portal/), the report of client-system criteria (csc.rs) and the physical
\* network of a binding (network/mod.rs).
AnswersExact ==
  /\ part = "text" => Screen!ShownExactly
  /\ part = "profile" => Profile!SameHost
  /\ part = "report" => Report!ReportsExact
  /\ part = "products" => Report!ProductsTrue
  /\ part = "options" => Values!OneConfiguration
  /\ part = "portal" => Portal!GatewaysChosen
  /\ part = "criteria" => Portal!CriteriaAnswered
  /\ part = "network" => Network!BindingHolds
  /\ part = "values" => Values!ValuesExact
  /\ part = "limits" => Values!LimitsSound
=============================================================================
