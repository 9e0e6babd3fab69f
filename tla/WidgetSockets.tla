---------------------------- MODULE WidgetSockets ---------------------------
(***************************************************************************)
(* How the gpwidget programs make sure that one of them runs: the daemon's *)
(* control socket and the popup's lock file, each a specification over s.  *)
(***************************************************************************)
EXTENDS Integers

CONSTANTS
  Daemons, None, Stale,
  Procs, MaxInode

VARIABLE s

-----------------------------------------------------------------------------
(***************************************************************************)
(* The control socket of the gpwidget daemon (daemon/socket.rs): binding,   *)
(* with the removal of a stale socket, and cleanup, by several daemons that *)
(* may start, exit and crash at any time.                                   *)
(***************************************************************************)
Starting == {"probe", "remove", "bind"}

\* The path holds nothing or what a daemon that crashed before left behind.
SocketInit == \E f \in {None, Stale} :
  s = [file |-> f, pc |-> [d \in Daemons |-> "idle"], overlap |-> FALSE]

SocketTo(d, pc) == [s EXCEPT !.pc[d] = pc]

\* bind: an existing path is probed first; a second start is remembered.
Start(d) ==
  /\ s.pc[d] = "idle"
  /\ s' = [SocketTo(d, IF s.file = None THEN "bind" ELSE "probe") EXCEPT
             !.overlap = @ \/ \E e \in Daemons : s.pc[e] \in Starting]

\* UnixStream::connect succeeds exactly when the owner is listening.
Listening(f) == f \in Daemons /\ s.pc[f] = "serving"
Probe(d) == s.pc[d] = "probe" /\ s' = SocketTo(d, IF Listening(s.file) THEN "refused" ELSE "remove")

\* remove_file fails when the path is gone by now.
Remove(d) ==
  /\ s.pc[d] = "remove"
  /\ s' = IF s.file = None THEN SocketTo(d, "refused") ELSE [SocketTo(d, "bind") EXCEPT !.file = None]

Bind(d) ==
  /\ s.pc[d] = "bind"
  /\ s' = IF s.file # None THEN SocketTo(d, "refused") ELSE [SocketTo(d, "serving") EXCEPT !.file = d]

\* cleanup removes the path, whoever it belongs to.
Cleanup(d) == s.pc[d] = "serving" /\ s' = [SocketTo(d, "exited") EXCEPT !.file = None]
Crash(d) == s.pc[d] = "serving" /\ s' = SocketTo(d, "exited")

BindStep(d) == Start(d) \/ Probe(d) \/ Remove(d) \/ Bind(d)
SocketNext == \E d \in Daemons : BindStep(d) \/ Cleanup(d) \/ Crash(d)

\* Two daemons that do not start at the same time never displace each other:
\* the one that serves is the one the path leads to.  (bind checks and removes
\* in two steps, so overlapping starts can.)
ServingOwnsPath == ~s.overlap => \A d \in Daemons : s.pc[d] = "serving" => s.file = d

-----------------------------------------------------------------------------
(***************************************************************************)
(* The single-instance toggle of `gpwidget popup` (popup/mod.rs): a lock on *)
(* a pid file that is unlinked on the way out.  Files are inodes: a process *)
(* holds the inode it opened, the path leads to the current one.            *)
(***************************************************************************)
Inodes == 1 .. MaxInode
PopupInit ==
  s = [path |-> None, next |-> 1, holder |-> [i \in Inodes |-> None],
       pid |-> [i \in Inodes |-> None], fd |-> [p \in Procs |-> None],
       pc |-> [p \in Procs |-> "idle"], term |-> {}, raced |-> FALSE]

\* Some launch has opened the file and not locked it yet, while a popup that is
\* ending has given up its lock and not unlinked the file yet.
Race(f) == \E p, q \in Procs : f.pc[p] = "opened" /\ f.pc[q] = "unlocked"
Become(f) == s' = [f EXCEPT !.raced = @ \/ Race(f)]

\* File::options().create(true).open
Open(p) ==
  /\ s.pc[p] = "idle"
  /\ IF s.path # None
     THEN Become([s EXCEPT !.pc[p] = "opened", !.fd[p] = s.path])
     ELSE /\ s.next <= MaxInode
          /\ Become([s EXCEPT !.pc[p] = "opened", !.fd[p] = s.next, !.path = s.next, !.next = @ + 1])

\* try_lock: the loser reads the pid and asks that process to close.
TryLock(p) ==
  LET i == s.fd[p] IN
  /\ s.pc[p] = "opened"
  /\ IF s.holder[i] = None
     THEN Become([s EXCEPT !.pc[p] = "locked", !.holder[i] = p, !.pid[i] = None])
     ELSE Become([s EXCEPT !.pc[p] = "done",
                    !.term = IF s.pid[i] = None THEN @ ELSE @ \cup {s.pid[i]}])

WritePid(p) == s.pc[p] = "locked" /\ Become([s EXCEPT !.pc[p] = "open", !.pid[s.fd[p]] = p])

\* The window closes on Esc or SIGTERM; the lock goes, then the file.
Quit(p) ==
  /\ s.pc[p] = "open"
  /\ Become([s EXCEPT !.pc[p] = "unlocked", !.holder[s.fd[p]] = None])
Unlink(p) == s.pc[p] = "unlocked" /\ Become([s EXCEPT !.pc[p] = "done", !.path = None])

ProcStep(p) == TryLock(p) \/ WritePid(p) \/ Unlink(p)
PopupNext == \E p \in Procs : Open(p) \/ ProcStep(p) \/ Quit(p)

\* One popup at a time, unless a launch met another one's teardown between the
\* release of the lock and the removal of the file.
Shown == {p \in Procs : s.pc[p] \in {"locked", "open"}}
OnePopup == ~s.raced => \A p, q \in Shown : p = q

Owed == \E p \in Procs : ProcStep(p) \/ (p \in s.term /\ Quit(p))

\* A second invocation closes the popup that was open: it is asked to.
Asked == {p \in s.term : s.pc[p] = "open"}
Closed(p) == p \notin Shown
=============================================================================
