--------------------------- MODULE BrowserSignIn ----------------------------
(***************************************************************************)
(* The sign-in in an external browser (crates/auth/src: callback.rs,        *)
(* callback/xdg.rs, callback/macos.rs, browser/browser_auth.rs,             *)
(* browser/auth_server.rs; apps/gpauth/src: cli.rs, callback_app.rs).       *)
(* gpauth processes share one socket path and one lock file; the desktop    *)
(* starts a forwarder for each callback that the browser opens.             *)
(***************************************************************************)
EXTENDS Integers, Sequences, FiniteSets

CONSTANTS None, Gpauths, Forwarders

VARIABLE s

Callbacks == {"data", "authFailed", "unreadable", "otherVersion"}
Gpauth == [pc |-> "ensure", manual |-> FALSE, result |-> None, backlog |-> <<>>, server |-> "off"]
Forwarder == [pc |-> "idle", to |-> None, callback |-> None, exit |-> None]

\* handler: who the desktop opens callbacks with. override: a per-desktop list
\* that names another program. path: the process whose socket is at the path.
Init ==
  \E m \in [Gpauths -> BOOLEAN], handler \in {"ours", "other"}, override \in BOOLEAN :
    s = [g |-> [i \in Gpauths |-> [Gpauth EXCEPT !.manual = m[i]]], f |-> [i \in Forwarders |-> Forwarder],
         handler |-> IF override THEN "other" ELSE handler, override |-> override, lock |-> None, path |-> None]

Pc(i) == s.g[i].pc
Alive(i) == Pc(i) \notin {"over", "killed"}
To(i, pc) == s' = [s EXCEPT !.g[i].pc = pc]

-----------------------------------------------------------------------------
\* ensure_auth_callback_handler: register unless it is ours, edit the override,
\* and check that it took effect. A manual sign-in has no handler.
EnsureAuthCallbackHandler(i) ==
  /\ Pc(i) = "ensure"
  /\ \/ s.g[i].manual /\ To(i, "server")
     \/ ~s.g[i].manual /\ s.handler = "ours" /\ To(i, "lock")
     \/ ~s.g[i].manual /\ s.handler /= "ours"
        /\ \E ours, edited \in BOOLEAN :
             LET ok == ours /\ (s.override => edited) IN
             s' = [s EXCEPT !.g[i].pc = IF ok THEN "lock" ELSE "over", !.g[i].result = IF ok THEN @ ELSE "error",
                            !.handler = IF ok THEN "ours" ELSE @, !.override = @ /\ ~edited]

\* AuthCallbackReceiver::bind_at: the lock, then the stale socket, then bind.
AcquireLock(i) ==
  /\ Pc(i) = "lock"
  /\ s' = IF s.lock = None THEN [s EXCEPT !.lock = i, !.g[i].pc = "stale"]
          ELSE [s EXCEPT !.g[i].pc = "over", !.g[i].result = "error"]
RemoveStaleSocket(i) == Pc(i) = "stale" /\ s' = [s EXCEPT !.path = None, !.g[i].pc = "bind"]
BindAt(i) == Pc(i) = "bind" /\ s.path = None /\ s' = [s EXCEPT !.path = i, !.g[i].pc = "server"]

\* authenticate: the one-time server, then the browser.
StartServer(i) ==
  /\ Pc(i) = "server"
  /\ s' = [s EXCEPT !.g[i].server = "up", !.g[i].pc = IF s.g[i].manual THEN "paste" ELSE "wait"]
\* serve_request: HEAD and other paths do not use the URL up; the page does,
\* once the response was written.
ServeRequest(i) ==
  /\ s.g[i].server = "up" /\ Alive(i)
  /\ \/ UNCHANGED s
     \/ s' = [s EXCEPT !.g[i].server = "served"]
\* Manual: the callback is pasted after the page was served.
ReadAuthDataFromStdin(i) ==
  /\ Pc(i) = "paste" /\ s.g[i].server = "served"
  /\ \E r \in {"data", "error"} : s' = [s EXCEPT !.g[i].pc = "over", !.g[i].result = r]

-----------------------------------------------------------------------------
\* forward_auth_callback: connect, send, read the answer. A callback that is not
\* one of the scheme is refused before it connects.
Connect(f) ==
  /\ s.f[f].pc = "idle" /\ s.handler = "ours"
  /\ \/ s' = [s EXCEPT !.f[f].pc = "over", !.f[f].exit = 1]
     \/ \E c \in Callbacks :
          IF s.path /= None /\ Alive(s.path)
          THEN s' = [s EXCEPT !.f[f] = [@ EXCEPT !.pc = "sent", !.to = s.path, !.callback = c], !.g[s.path].backlog = Append(@, f)]
          ELSE s' = [s EXCEPT !.f[f].pc = "over", !.f[f].exit = 1]
\* The time limit, on either side of the connection.
ForwarderGivesUp(f) == s.f[f].pc = "sent" /\ s' = [s EXCEPT !.f[f].pc = "over", !.f[f].exit = 1]

Answered(t, f, ok) == IF t.f[f].pc = "sent" THEN [t EXCEPT !.f[f].pc = "over", !.f[f].exit = IF ok THEN 0 ELSE 1] ELSE t

\* AuthCallbackReceiver::receive, one connection.
Receive(i) ==
  /\ Pc(i) = "wait" /\ s.g[i].backlog /= <<>>
  /\ LET f == Head(s.g[i].backlog)   c == s.f[f].callback   t == [s EXCEPT !.g[i].backlog = Tail(@)] IN
     \/ s' = Answered(t, f, FALSE)                   \* read_callback ran out of time, or the peer is gone
     \/ IF c \in {"data", "authFailed"}
        THEN s' = Answered([t EXCEPT !.g[i].pc = "drop", !.g[i].result = IF c = "data" THEN f ELSE "error"], f, TRUE)
        ELSE s' = Answered(t, f, FALSE)

\* Drop removes the socket, and then the lock goes with its file.
Drop(i) ==
  /\ Pc(i) \in {"drop", "unlock"}
  /\ s' = IF Pc(i) = "drop" THEN [s EXCEPT !.path = None, !.g[i].pc = "unlock"] ELSE [s EXCEPT !.lock = None, !.g[i].pc = "over"]

\* A killed process leaves its socket and frees its lock. Its connections end.
Killed(i) ==
  /\ Alive(i)
  /\ s' = [s EXCEPT !.g[i].pc = "killed", !.lock = IF @ = i THEN None ELSE @]
Refused(f) == s.f[f].pc = "sent" /\ ~Alive(s.f[f].to) /\ s' = [s EXCEPT !.f[f].pc = "over", !.f[f].exit = 1]

Stutter == UNCHANGED s
Next ==
  \/ \E i \in Gpauths :
       EnsureAuthCallbackHandler(i) \/ AcquireLock(i) \/ RemoveStaleSocket(i) \/ BindAt(i) \/ StartServer(i) \/ ServeRequest(i)
       \/ ReadAuthDataFromStdin(i) \/ Receive(i) \/ Drop(i) \/ Killed(i)
  \/ \E f \in Forwarders : Connect(f) \/ ForwarderGivesUp(f) \/ Refused(f)
  \/ Stutter

-----------------------------------------------------------------------------
\* A process that waits for its callback is the one that the socket path leads
\* to, whoever ends or is killed next to it; a forwarder that reports success
\* was taken as an answer; and no callback signs in twice (callback.rs).
CallbackReaches ==
  /\ \A i \in Gpauths : Pc(i) = "wait" => s.path = i /\ s.lock = i
  /\ \A i, j \in Gpauths : i /= j /\ s.g[i].result \in Forwarders => s.g[j].result /= s.g[i].result
  /\ \A f \in Forwarders : s.f[f].exit = 0 => s.g[s.f[f].to].result \in {f, "error"}
=============================================================================
