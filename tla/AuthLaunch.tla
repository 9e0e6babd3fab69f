----------------------------- MODULE AuthLaunch -----------------------------
(***************************************************************************)
(* A sign-in from its caller to its credential: what `gpclient connect` or  *)
(* the widget asks for (connect/credential.rs, connect_flow.rs), the command *)
(* line of gpauth (auth_launcher.rs), what gpauth makes of it (gpauth        *)
(* cli.rs), the browser that is started (browser-launcher), and the result  *)
(* on its way back.  How gpauth signs in is in WebviewSignIn and            *)
(* BrowserSignIn, its process in ControlledChild.                           *)
(***************************************************************************)
EXTENDS Integers, Sequences, FiniteSets

CONSTANTS None, MaxSignIns    \* sign-ins of one gpclient: portal, gateways

VARIABLE s

Named == {"auto", "default", "chrome", "manual"}
Families == <<"chrome", "edge">>

\* ConnectArgs, or the configuration of the widget (built with the webview).
Asked == [who : {"gpclient", "widget"}, webview : BOOLEAN, browser : Named \cup {None}, default : BOOLEAN,
          listen : BOOLEAN, clean : BOOLEAN]
Possible(a) ==
  /\ a.default => a.webview
  /\ a.who = "widget" => a.webview /\ ~a.listen /\ ~a.clean /\ (a.default => a.browser = None) /\ a.browser # "default"
  /\ a.clean => a.webview
NoCommand == [browser |-> None, default |-> FALSE, listen |-> FALSE, clean |-> FALSE]

Init ==
  \E a \in Asked, bundled \in BOOLEAN, wayland \in BOOLEAN :
    /\ Possible(a)
    /\ s = [pc |-> "check", a |-> a, bundled |-> bundled, wayland |-> wayland, cleanLeft |-> a.clean, supported |-> FALSE,
            cmd |-> NoCommand, embedded |-> FALSE, terminal |-> FALSE, dmabuf |-> FALSE, crashed |-> FALSE, signIns |-> 0,
            webviews |-> 0, cleans |-> 0, kind |-> None, todo |-> <<>>, opened |-> None, outcome |-> None, told |-> None]

Goto(t, pc) == [t EXCEPT !.pc = pc]
Tell(t, what) == [t EXCEPT !.pc = "told", !.told = what]

\* handle_attempt: options that exclude each other.
HandleAttempt ==
  /\ s.pc = "check"
  /\ s' = IF (s.a.listen /\ s.a.browser # "manual") \/ (s.a.default /\ s.a.browser # None)
          THEN Tell(s, "badOptions") ELSE Goto(s, "obtain")

\* obtain_credential and saml_auth: the browser that was asked for only where
\* the server (and the portal, for a gateway) supports it, else the webview;
\* the address to listen on is passed whatever became of the browser, and the
\* cache is cleaned for the first webview only.
Command ==
  [browser |-> IF s.supported THEN s.a.browser ELSE None, default |-> s.supported /\ s.a.default,
   listen |-> s.a.listen, clean |-> FALSE]
ObtainCredential ==
  /\ s.pc = "obtain" /\ s.signIns < MaxSignIns
  /\ \E supported \in BOOLEAN : s' = [s EXCEPT !.pc = "command", !.supported = supported, !.signIns = @ + 1,
       !.kind = None, !.opened = None, !.outcome = None, !.told = None]
ConsumeForWebview(webview) == webview /\ s.cleanLeft
BuildCommand ==
  /\ s.pc = "command"
  /\ LET clean == ConsumeForWebview(s.a.webview /\ Command.browser = None /\ ~Command.default)
     IN s' = IF ~s.supported /\ ~s.a.webview THEN Tell(s, "unsupported")
             ELSE [s EXCEPT !.pc = "launch", !.cmd = [Command EXCEPT !.clean = clean], !.cleanLeft = @ /\ ~clean]

\* launch: what the launcher itself takes the sign-in for.
Launch ==
  /\ s.pc = "launch"
  /\ s' = [s EXCEPT !.pc = "gpauth", !.embedded = s.a.webview /\ s.cmd.browser = None /\ ~s.cmd.default,
             !.terminal = s.cmd.browser = "manual"]
CanRecover == s.embedded /\ s.bundled /\ s.wayland
DmabufDisabled == s.embedded /\ s.bundled /\ s.dmabuf

\* Cli::run: the options again, then an external browser or the webview.
Browser == IF s.cmd.browser # None THEN s.cmd.browser ELSE IF s.cmd.default \/ ~s.a.webview THEN "default" ELSE None
CliRun ==
  /\ s.pc = "gpauth"
  /\ s' = IF s.cmd.listen /\ s.cmd.browser # "manual" THEN Tell(s, "error")
          ELSE CASE Browser = None -> [s EXCEPT !.pc = "signIn", !.kind = "webview", !.webviews = @ + 1,
                                         !.cleans = @ + IF s.cmd.clean THEN 1 ELSE 0]
                 [] Browser = "manual" -> [s EXCEPT !.pc = "signIn", !.kind = "manual"]
                 [] OTHER -> [s EXCEPT !.pc = "find", !.kind = "browser"]

-----------------------------------------------------------------------------
\* browser-launcher, on a machine with these programs and Flatpaks.
Machine == [programs : SUBSET {"chrome", "edge"}, flatpaks : SUBSET {"chrome", "edge"},
            desktop : {None} \cup ({"programs", "flatpak", "either"} \X {"chrome", "edge"})]

FirstIn(seq, set) == LET found == SelectSeq(seq, LAMBDA f : f \in set) IN IF found = <<>> THEN None ELSE Head(found)
Executable(m, f) == IF f \in m.programs THEN <<<<"program", f>>>> ELSE <<>>
FindFlatpak(m, f) == IF f \in m.flatpaks THEN <<<<"flatpak", f>>>> ELSE <<>>

\* launcher_spec_for_desktop_id and resolve_launcher.
FindDefault(m) ==
  IF m.desktop = None THEN <<>>
  ELSE CASE m.desktop[1] = "programs" -> Executable(m, m.desktop[2])
         [] m.desktop[1] = "flatpak" -> FindFlatpak(m, m.desktop[2])
         [] OTHER -> IF m.desktop[2] \in m.programs THEN Executable(m, m.desktop[2]) ELSE FindFlatpak(m, m.desktop[2])
\* find_auto_browser_launcher
FindAuto(m) ==
  CASE m.programs # {} -> <<<<"program", FirstIn(Families, m.programs)>>>>
    [] m.programs = {} /\ m.flatpaks # {} -> <<<<"flatpak", FirstIn(Families, m.flatpaks)>>>>
    [] OTHER -> <<>>
OpenDefault == <<<<"system", "webbrowser">>, <<"system", "open">>>>
OpenAuto(m) == FindDefault(m) \o (IF FindAuto(m) = FindDefault(m) THEN <<>> ELSE FindAuto(m)) \o OpenDefault

\* open_url: what is tried, in this order, until something starts.
OpenUrl ==
  /\ s.pc = "find"
  /\ \E m \in Machine :
       s' = [s EXCEPT !.pc = "open", !.todo = CASE Browser = "auto" -> OpenAuto(m)
                                                 [] Browser = "default" -> OpenDefault
                                                 [] OTHER -> Executable(m, "chrome")]
Open ==
  /\ s.pc = "open"
  /\ \/ s.todo # <<>> /\ s' = [s EXCEPT !.pc = "signIn", !.opened = Head(s.todo), !.todo = <<>>]
     \/ Len(s.todo) > 1 /\ s' = [s EXCEPT !.todo = Tail(@)]
     \/ Len(s.todo) <= 1 /\ s' = [s EXCEPT !.pc = "print", !.outcome = "failure", !.todo = <<>>]

-----------------------------------------------------------------------------
SignIn ==
  /\ s.pc = "signIn"
  /\ \/ \E o \in {"success", "cancelled", "tls", "failure"} : s' = [s EXCEPT !.pc = "print", !.outcome = o]
     \/ \E diagnosed \in BOOLEAN :
          s' = IF CanRecover /\ diagnosed THEN [s EXCEPT !.pc = "crash", !.outcome = "crash"]
               ELSE [Tell(s, "error") EXCEPT !.outcome = "crash"]

\* auth_outcome, then decode_auth_output and Credential::try_from.
Told(o) == CASE o = "success" -> "credential" [] o = "cancelled" -> "cancelled" [] o = "tls" -> "tls" [] OTHER -> "error"
PrintResult == s.pc = "print" /\ s' = Tell(s, Told(s.outcome))

\* obtain_credential_with_recovery: a crash of the renderer is retried once,
\* with a fresh prelogin and without DMABUF; the widget only reports it.
Recover ==
  /\ s.pc = "crash"
  /\ s' = IF s.a.who = "gpclient" /\ ~s.dmabuf
          THEN [s EXCEPT !.pc = "obtain", !.dmabuf = TRUE, !.crashed = TRUE, !.kind = None] ELSE Tell(s, "error")

\* After the portal, a gateway may want a sign-in of its own.
NextSignIn == s.pc = "told" /\ s.told = "credential" /\ s.signIns < MaxSignIns /\ s' = Goto(s, "obtain")
Stutter == (s.pc = "told" \/ (s.pc = "obtain" /\ s.signIns = MaxSignIns)) /\ UNCHANGED s

Next ==
  \/ HandleAttempt \/ ObtainCredential \/ BuildCommand \/ Launch \/ CliRun \/ OpenUrl \/ Open
  \/ SignIn \/ PrintResult \/ Recover \/ NextSignIn \/ Stutter

-----------------------------------------------------------------------------
\* The launcher and gpauth, which decide apart, agree on the kind of a sign-in
\* (auth_launcher.rs:285-295, gpauth cli.rs:193-225): the terminal is given to
\* the one that reads it, a renderer is expected to crash where there is one, and
\* the cache is cleaned once, for the first window.  An external browser is used
\* only where the server supports it, a browser that was named is never replaced,
\* and the caller is told what gpauth concluded.  A renderer that crashed is tried
\* once more, without DMABUF.  gpauth refuses the options it
\* was given only in one case: an address to listen on, without its browser.
SignInAsAsked ==
  /\ s.kind # None => /\ s.embedded = (s.kind = "webview")
                      /\ s.terminal = (s.kind = "manual")
                      /\ s.kind # "webview" => s.supported
  /\ s.cleans = IF s.a.clean /\ s.webviews > 0 THEN 1 ELSE 0
  /\ s.opened # None =>
       /\ s.cmd.browser = "chrome" => s.opened = <<"program", "chrome">>
       /\ s.opened[1] # "system" => s.cmd.browser \in {"auto", "chrome"}
  /\ s.pc = "open" => Cardinality({s.todo[i] : i \in 1..Len(s.todo)}) = Len(s.todo)
  /\ s.told \in {"credential", "cancelled", "tls"} => s.outcome = IF s.told = "credential" THEN "success" ELSE s.told
  /\ s.told = "error" /\ s.outcome = None => s.a.listen /\ ~s.supported
  /\ s.crashed => s.bundled /\ s.wayland /\ (s.kind = "webview" /\ s.outcome = None => DmabufDisabled)
=============================================================================
