--------------------------- MODULE DesktopLaunch ---------------------------
(***************************************************************************)
(* The desktop launcher (gpapi's desktop_launcher.rs, gui_launcher.rs and    *)
(* gui_switch.rs) with the privileged service at the other end of its pipes  *)
(* (desktop_client.rs). The launcher owns every GUI it starts, replaces one  *)
(* by another on request, restarts one after a rendering crash, and closes   *)
(* the pipe so that the service ends.                                        *)
(*                                                                          *)
(* A GUI is named by the session it was started with. up and down are the    *)
(* pipes to and from the service; a number in down is the credential of that *)
(* session and 0 the answer about the installer.                             *)
(***************************************************************************)
EXTENDS Integers, Sequences, FiniteSets

CONSTANTS MaxIssued, MaxRequests, None

VARIABLE s

Sessions == 1..MaxIssued

Init ==
  s = [sv |-> "issue", cur |-> None, next |-> None, live |-> {}, issued |-> 0, renewed |-> FALSE, restart |-> FALSE,
       bad |-> FALSE, up |-> <<>>, down |-> <<>>, open |-> TRUE,
       pc |-> "read", token |-> FALSE, signal |-> FALSE, bail |-> FALSE, got |-> FALSE, recovered |-> FALSE,
       expecting |-> FALSE, cred |-> None, gui |-> [n \in Sessions |-> "none"], told |-> {}, current |-> None,
       retired |-> {}, new |-> None, missing |-> FALSE, pending |-> FALSE, asked |-> <<>>, requests |-> 0,
       asker |-> None, switched |-> {}, outcome |-> None, result |-> None]

-----------------------------------------------------------------------------
\* DesktopClient::serve.
Serving == s.sv \in {"issue", "control"}
Ended == [s EXCEPT !.sv = "ended", !.live = {}, !.cur = None, !.next = None, !.up = <<>>]
Issues(f) == [f EXCEPT !.issued = @ + 1, !.live = @ \cup {s.issued + 1}, !.down = Append(@, s.issued + 1)]

SvcIssue ==
  /\ s.sv = "issue"
  /\ s' = IF s.issued < MaxIssued THEN [Issues(s) EXCEPT !.sv = "control", !.cur = s.issued + 1] ELSE Ended
Rejects == [Ended EXCEPT !.bad = TRUE]
\* A message that leaves the loop: both sessions are revoked and the restart flag is taken.
Left(again) ==
  IF again THEN [s EXCEPT !.sv = "issue", !.live = {}, !.cur = None, !.next = None, !.restart = FALSE, !.up = Tail(@)]
  ELSE Ended
SvcRead ==
  /\ s.sv = "control" /\ s.up # <<>>
  /\ LET m == Head(s.up)  read == [s EXCEPT !.up = Tail(@)] IN
     s' = CASE m = "installer" -> [read EXCEPT !.down = Append(@, 0)]
            [] m = "begin" -> IF s.next # None THEN Rejects
                              ELSE IF s.issued < MaxIssued THEN [Issues(read) EXCEPT !.next = s.issued + 1] ELSE Ended
            [] m = "commit" -> IF s.next = None THEN Rejects
                               ELSE [read EXCEPT !.live = @ \ {s.cur}, !.cur = s.next, !.next = None]
            [] m = "cancel" -> IF s.next = None THEN Rejects ELSE [read EXCEPT !.live = @ \ {s.next}, !.next = None]
            [] m = "exited" -> Left(s.restart)
            [] m = "retry" -> IF s.renewed THEN Rejects ELSE [Left(TRUE) EXCEPT !.renewed = TRUE]
SvcEof == s.sv = "control" /\ s.up = <<>> /\ ~s.open /\ s' = Ended
SvcCancelled == Serving /\ s' = Ended
SvcExits == s.sv = "ended" /\ s' = [s EXCEPT !.sv = "exited"]

-----------------------------------------------------------------------------
\* GUIs: launch_desktop_child ends with the exit of the process, or kills it
\* when its token or the launcher's is cancelled.
Alive(n) == s.gui[n] = "runs"
GuiExits(n) ==
  /\ Alive(n)
  /\ \E how \in {"ok", "failed"} \cup (IF s.recovered THEN {} ELSE {"crash"}) : s' = [s EXCEPT !.gui[n] = how, !.told = @ \ {n}]
GuiKilled(n) == Alive(n) /\ (s.token \/ n \in s.told) /\ s' = [s EXCEPT !.gui[n] = "failed", !.told = @ \ {n}]
AskSwitch(n) ==
  /\ Alive(n) /\ s.requests < MaxRequests
  /\ s' = [s EXCEPT !.asked = Append(@, n), !.requests = @ + 1]
RestartGui(n) == Alive(n) /\ n \in s.live /\ ~s.restart /\ s' = [s EXCEPT !.restart = TRUE]

-----------------------------------------------------------------------------
\* launch: its loop, from a credential to the outcome of the GUI.
Return(how) == [s EXCEPT !.pc = "drop", !.result = how]
EndOfFile == s.down = <<>> /\ ~Serving
Send(m) == [s EXCEPT !.up = Append(@, m)]

ReadCredential ==
  /\ s.pc = "read"
  /\ IF s.token THEN s' = Return("ok")
     ELSE \/ EndOfFile /\ s' = Return(IF s.expecting THEN "error" ELSE "ok")
          \/ /\ s.down # <<>>
             /\ LET read == [s EXCEPT !.down = Tail(@), !.expecting = FALSE, !.got = TRUE, !.cred = Head(s.down)] IN
                \/ s' = [read EXCEPT !.pc = "drop", !.result = "error"]
                \/ s' = [read EXCEPT !.pc = "resolve"]
\* A compatible program is found or downloaded by a helper, which is a GUI too.
ResolveProgram ==
  /\ s.pc = "resolve"
  /\ \/ ~s.token /\ s' = [s EXCEPT !.pc = "run", !.current = s.cred, !.gui[s.cred] = "runs"]
     \/ s' = [s EXCEPT !.pc = "outcome", !.outcome = "failed"]
     \/ ~s.recovered /\ s' = [s EXCEPT !.pc = "outcome", !.outcome = "crash"]

\* launch_with_switches: the select, in its order.
CurrentEnds ==
  /\ s.pc = "run" /\ ~Alive(s.current)
  /\ s' = [s EXCEPT !.pc = "finish", !.outcome = s.gui[s.current], !.gui[s.current] = "none", !.current = None]
AcceptSwitch ==
  /\ s.pc = "run" /\ Alive(s.current) /\ s.asked # <<>>
  /\ s' = [s EXCEPT !.pc = "receive", !.asker = Head(s.asked), !.asked = Tail(@)]
ServiceOutput ==
  /\ s.pc = "run" /\ Alive(s.current) /\ s.asked = <<>> /\ (s.down # <<>> \/ EndOfFile)
  /\ s' = [s EXCEPT !.pc = "finish", !.outcome = "failed"]
Finish ==
  /\ s.pc = "finish"
  /\ LET all == s.retired \cup ({s.current} \ {None}) IN
     s' = [s EXCEPT !.pc = "join", !.told = @ \cup {n \in all : Alive(n)}, !.retired = all, !.current = None,
             !.switched = {}, !.new = None, !.asker = None, !.missing = FALSE, !.pending = FALSE]
Join ==
  /\ s.pc = "join" /\ \A n \in s.retired : ~Alive(n)
  /\ s' = [s EXCEPT !.pc = "outcome", !.retired = {}, !.gui = [n \in Sessions |-> "none"]]

\* One switch, up to its reply.
OverWith(f) == [f EXCEPT !.pc = "run", !.asker = None, !.new = None, !.missing = FALSE, !.pending = FALSE]
Fails == [s EXCEPT !.pc = "failed"]
Receive == s.pc = "receive" /\ (s' = Fails \/ s' = [s EXCEPT !.pc = "find"])
FindProgram ==
  /\ s.pc = "find"
  /\ \/ s.token /\ s' = Fails
     \/ ~s.token /\ s' = [s EXCEPT !.pc = "begin", !.missing = FALSE]
     \/ ~s.token /\ s' = [s EXCEPT !.pc = "need", !.missing = TRUE]
     \/ ~s.token /\ s' = IF Serving THEN [Send("installer") EXCEPT !.pc = "capability", !.missing = TRUE] ELSE Fails
Capability ==
  /\ s.pc = "capability"
  /\ \/ EndOfFile /\ s' = Fails
     \/ s.down # <<>> /\ \E next \in {"need", "failed"} : s' = [s EXCEPT !.down = Tail(@), !.pc = next]
DownloadAllowed ==
  /\ s.pc = "need"
  /\ s' = OverWith(s) \/ \E next \in {"begin", "failed"} : s' = [s EXCEPT !.pc = next]
SwitchBegin ==
  /\ s.pc = "begin"
  /\ s' = IF Serving THEN [Send("begin") EXCEPT !.pc = "credential", !.pending = TRUE] ELSE Fails
SwitchCredential ==
  /\ s.pc = "credential"
  /\ \/ EndOfFile /\ s' = Fails
     \/ s.down # <<>> /\ \E next \in {"start", "failed"} : s' = [s EXCEPT !.down = Tail(@), !.new = Head(s.down), !.pc = next]
StartReplacement ==
  /\ s.pc = "start"
  /\ \/ s' = Fails
     \/ ~(s.missing /\ s.token) /\ s' = [s EXCEPT !.gui[s.new] = "runs", !.pc = "ready"]
\* The replacement reports within 30 seconds, and the preference is saved, or it is stopped.
Ready ==
  /\ s.pc = "ready"
  /\ \/ ~Alive(s.new) /\ s' = Fails
     \/ s' = [s EXCEPT !.pc = "stop", !.told = @ \cup {s.new}]
     \/ Alive(s.new) /\ s' = [s EXCEPT !.pc = "reply"]
ReplySwitched ==
  /\ s.pc = "reply"
  /\ \/ Alive(s.asker) /\ s' = [s EXCEPT !.pc = "commit", !.switched = @ \cup {s.new}]
     \/ s' = [s EXCEPT !.pc = "stop", !.told = @ \cup {s.new}]
SwitchCommit ==
  /\ s.pc = "commit"
  /\ s' = IF Serving
          THEN [OverWith(Send("commit")) EXCEPT !.retired = @ \cup {s.current}, !.current = s.new]
          ELSE [s EXCEPT !.pc = "stop", !.told = @ \cup {s.new}]
StopReplacement == s.pc = "stop" /\ ~Alive(s.new) /\ s' = Fails
SwitchFailed ==
  /\ s.pc = "failed"
  /\ s' = IF ~s.pending THEN OverWith(s)
          ELSE IF Serving THEN OverWith(Send("cancel"))
          ELSE [s EXCEPT !.pc = "finish", !.outcome = "failed"]

Attempt == s.pc \in {"resolve", "run", "finish", "join", "receive", "find", "capability", "need", "begin", "credential",
                     "start", "ready", "reply", "commit", "stop", "failed"}
ServiceWait == Attempt /\ s.sv = "exited" /\ ~s.token /\ s' = [s EXCEPT !.token = TRUE, !.bail = TRUE]

Outcome ==
  /\ s.pc = "outcome"
  /\ s' = IF s.token THEN Return(IF s.bail THEN "error" ELSE "ok")
          ELSE IF s.outcome = "crash" /\ ~s.recovered
          THEN IF Serving THEN [Send("retry") EXCEPT !.pc = "read", !.recovered = TRUE, !.expecting = TRUE]
               ELSE [Return("error") EXCEPT !.recovered = TRUE]
          ELSE IF s.outcome = "ok" /\ Serving THEN [Send("exited") EXCEPT !.pc = "read"]
          ELSE Return("error")
\* The pipe is closed; pkexec that has not shown a credential may be killed.
DropInput ==
  /\ s.pc = "drop"
  /\ \/ s' = [s EXCEPT !.pc = "wait", !.open = FALSE]
     \/ s.signal /\ ~s.got /\ s' = [Ended EXCEPT !.sv = "exited", !.pc = "wait", !.open = FALSE]
Wait == s.pc = "wait" /\ s.sv = "exited" /\ s' = [s EXCEPT !.pc = "done"]

Signal ==
  /\ ~s.signal /\ s.pc \notin {"drop", "wait", "done"}
  /\ s' = [s EXCEPT !.signal = TRUE, !.token = TRUE]

Service == SvcIssue \/ SvcRead \/ SvcEof \/ SvcExits
Switching ==
  \/ Receive \/ FindProgram \/ Capability \/ DownloadAllowed \/ SwitchBegin \/ SwitchCredential \/ StartReplacement
  \/ Ready \/ ReplySwitched \/ SwitchCommit \/ StopReplacement \/ SwitchFailed
Launcher ==
  \/ ReadCredential \/ ResolveProgram \/ CurrentEnds \/ AcceptSwitch \/ ServiceOutput \/ Finish \/ Join
  \/ Switching \/ Outcome \/ DropInput \/ Wait
Stutter == s.pc = "done" /\ UNCHANGED s
Killed == \E n \in Sessions : GuiKilled(n)

Next ==
  \/ Service \/ SvcCancelled \/ Launcher \/ ServiceWait \/ Killed \/ Signal \/ Stutter
  \/ \E n \in Sessions : GuiExits(n) \/ AskSwitch(n) \/ RestartGui(n)

-----------------------------------------------------------------------------
\* The pipe's two ends stay in step: the service is sent nothing it refuses (a
\* second switch, a commit or cancel without one, a second renewal) and the
\* launcher reads what it waits for. The GUI in use holds a live session, a GUI
\* that was told of a switch sees it happen, no GUI outlives its launch, and a
\* launch that was not interrupted succeeds only if its last GUI did.
LaunchInStep ==
  /\ ~s.bad
  /\ s.down # <<>> => CASE s.pc = "capability" -> Head(s.down) = 0
                        [] s.pc \in {"read", "credential"} -> Head(s.down) > 0
                        [] OTHER -> s.pc \in {"drop", "wait", "done", "failed", "finish", "join", "outcome"}
  /\ s.sv = "control" /\ s.pc # "read" /\ s.current # None => s.current \in s.live
  /\ s.sv = "control" /\ s.pc = "run" /\ s.up = <<>> => s.live = {s.current}
  /\ s.sv = "control" => \A n \in Sessions : Alive(n) => n \in s.live \cup s.retired \/ n \in s.told
  /\ s.sv = "control" /\ s.pc = "run" => s.switched \subseteq s.retired \cup {s.current}
  /\ s.pc \in {"read", "resolve", "outcome", "drop", "wait", "done"} => \A n \in Sessions : ~Alive(n)
  /\ s.pc = "done" => s.live = {} /\ (s.result = "ok" => s.signal \/ ~s.got \/ s.outcome = "ok")

Asked == s.token \/ ~Serving
Done == s.pc = "done"
=============================================================================
