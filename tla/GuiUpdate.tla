----------------------------- MODULE GuiUpdate -----------------------------
(***************************************************************************)
(* The GUI's updater (apps/gpgui-helper): the window asks for an update, the *)
(* updater downloads the archive and its checksum, verifies it and hands it  *)
(* to an installer task, which keeps a connection to the service, sends the  *)
(* command, sends it again after a reconnection and passes the reply on.     *)
(*                                                                          *)
(* An update is one request of the window that found none in progress. The   *)
(* service answers every request once (ServiceStores models what it does).   *)
(***************************************************************************)
EXTENDS Integers, Sequences, FiniteSets, SequencesExt

CONSTANTS MaxUpdates, MaxLinks, None

VARIABLE s

Updates == 1..MaxUpdates

Init ==
  s = [lease |-> TRUE, inProgress |-> FALSE, overlap |-> FALSE,
       pc |-> [u \in Updates |-> "idle"], archive |-> [u \in Updates |-> None], told |-> [u \in Updates |-> None],
       queue |-> <<>>, installer |-> "connect", links |-> 0, pending |-> None, id |-> None, requests |-> 0,
       wire |-> {}, late |-> {}, replies |-> <<>>, served |-> {}]

Running == {u \in Updates : s.pc[u] \in {"fetch", "verify", "send", "await"}}
Alive == {u \in Updates : s.pc[u] \notin {"idle", "done"}}

\* notify_error and notify_done
Notify(u, how) == [s EXCEPT !.pc[u] = "done", !.told[u] = how, !.inProgress = FALSE]

\* The handler of app://update reads the flag; update sets it on a task of its own.
Request(u) ==
  /\ s.pc[u] = "idle" /\ (\A v \in 1..(u - 1) : s.pc[v] # "idle") /\ ~s.inProgress
  /\ s' = [s EXCEPT !.pc[u] = "spawned", !.overlap = @ \/ Alive # {}]
Begin(u) ==
  /\ s.pc[u] = "spawned"
  /\ s' = [s EXCEPT !.pc[u] = "fetch", !.inProgress = TRUE]
\* FileDownloader and ChecksumFetcher: a short body is a failure, another one is not.
Fetch(u) ==
  /\ s.pc[u] = "fetch"
  /\ \/ s' = Notify(u, "error")
     \/ \E a \in {"right", "wrong"} : s' = [s EXCEPT !.pc[u] = "verify", !.archive[u] = a]
VerifyChecksum(u) ==
  /\ s.pc[u] = "verify"
  /\ s' = IF s.archive[u] = "right" THEN [s EXCEPT !.pc[u] = "send"] ELSE Notify(u, "error")

\* Installer::install: a channel of one command, then 60 seconds for the reply.
Install(u) ==
  /\ s.pc[u] = "send"
  /\ \/ s.installer = "stopped" /\ s' = Notify(u, "error")
     \/ /\ s.installer # "stopped" /\ Len(s.queue) < 1
        /\ s' = [s EXCEPT !.pc[u] = "await", !.queue = Append(@, u)]
Timeout(u) ==
  /\ s.pc[u] = "await"
  /\ s' = Notify(u, "error")
\* The installer stopped, and dropped the other end of the reply.
Dropped(u) ==
  /\ s.pc[u] = "await" /\ s.installer = "stopped"
  /\ s' = Notify(u, "error")

Closed(u) == s.pc[u] # "await"
Reply(u, how, next) ==
  IF Closed(u) THEN next
  ELSE [next EXCEPT !.pc[u] = "done", !.told[u] = how, !.inProgress = FALSE]

\* send_install_command: a new id for every time the command is sent.
Send(u, next) ==
  [next EXCEPT !.pending = u, !.id = s.requests + 1, !.requests = @ + 1, !.wire = @ \cup {[id |-> s.requests + 1, update |-> u]}]

\* The credential lease ends with the launcher's pipe.
LeaseEnds ==
  /\ s.lease
  /\ s' = [s EXCEPT !.lease = FALSE]

\* run_installer: connect_installer, at most 5 seconds; a rejected session, or
\* one of another version, is the end.
Connect ==
  /\ s.installer = "connect" /\ s.lease
  /\ \/ s' = [s EXCEPT !.installer = "wait"]
     \/ s' = [s EXCEPT !.installer = "stopped"]
     \/ /\ s.links < MaxLinks
        /\ LET linked == [s EXCEPT !.installer = "linked", !.links = @ + 1, !.id = None] IN
           s' = IF s.pending = None THEN linked
                ELSE IF Closed(s.pending) THEN [linked EXCEPT !.pending = None]
                ELSE Send(s.pending, linked)
Retry ==
  /\ s.installer = "wait"
  /\ s' = [s EXCEPT !.installer = "connect"]
\* Where the lease is looked at: before a connection, in it, and while waiting.
\* The commands and the reply held are dropped with the task.
LeaseEnded ==
  /\ s.installer # "stopped" /\ ~s.lease
  /\ s' = [s EXCEPT !.installer = "stopped", !.late = @ \cup s.wire, !.wire = {}, !.replies = <<>>]

\* run_installer_connection
Command ==
  /\ s.installer = "linked" /\ s.queue # <<>>
  /\ LET u == Head(s.queue)
         taken == [s EXCEPT !.queue = Tail(@)] IN
     s' = IF Closed(u) THEN taken
          ELSE IF s.pending # None THEN Reply(u, "error", taken)
          ELSE Send(u, taken)
Lose == [s EXCEPT !.installer = "wait", !.late = @ \cup s.wire, !.wire = {}, !.replies = <<>>]
Frame ==
  /\ s.installer = "linked" /\ s.replies # <<>>
  /\ LET reply == Head(s.replies) IN
     s' = IF reply.id # s.id \/ s.pending = None THEN Lose
          ELSE Reply(s.pending, IF reply.accepted THEN "done" ELSE "error",
                     [s EXCEPT !.pending = None, !.id = None, !.replies = Tail(@)])
Lost ==
  /\ s.installer = "linked"
  /\ s' = Lose

\* The service: it serves what it was sent, also when nobody waits any more.
Serve ==
  \E r \in s.wire, accepted \in BOOLEAN :
    s' = [s EXCEPT !.wire = @ \ {r}, !.served = @ \cup {<<r.update, accepted>>},
            !.replies = Append(@, [id |-> r.id, accepted |-> accepted])]
ServeLate ==
  \E r \in s.late, accepted \in BOOLEAN :
    s' = [s EXCEPT !.late = @ \ {r}, !.served = @ \cup {<<r.update, accepted>>}]

Stutter == UNCHANGED s
Next ==
  \/ \E u \in Updates :
       Request(u) \/ Begin(u) \/ Fetch(u) \/ VerifyChecksum(u) \/ Install(u) \/ Timeout(u) \/ Dropped(u)
  \/ LeaseEnds \/ Connect \/ Retry \/ LeaseEnded \/ Command \/ Frame \/ Lost \/ Serve \/ ServeLate
  \/ Stutter

\* The window is told that an update is done only if the service accepted that
\* update; only a verified archive is sent. However often the connection is
\* lost, a command whose update still waits is in the queue or is the pending
\* one, one request is open on a connection, and its reply has the id awaited.
\* As long as no two updates ran at once, the flag says whether one runs.
UpdatesAnswered ==
  /\ \A u \in Updates :
       /\ s.told[u] = "done" => <<u, TRUE>> \in s.served
       /\ (\E accepted \in BOOLEAN : <<u, accepted>> \in s.served) => s.archive[u] = "right"
       /\ s.pc[u] = "await" /\ s.installer # "stopped" => u \in Range(s.queue) \cup {s.pending}
  /\ Cardinality(s.wire) + Len(s.replies) <= 1
  /\ \A r \in s.wire : r.id = s.id /\ r.update = s.pending
  /\ \A i \in DOMAIN s.replies : s.replies[i].id = s.id
  /\ ~s.overlap => s.inProgress = (Running # {})
=============================================================================
