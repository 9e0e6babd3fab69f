------------------------------ MODULE WsClient ------------------------------
(***************************************************************************)
(* The WebSocket task of the gpwidget daemon (daemon/ws_client.rs):         *)
(* discovery of the service, handshake, the pump of numbered events, and    *)
(* reconnection with the bounded list of delays.  The service is reduced to *)
(* a revision counter, its liveness and whether it still knows the          *)
(* credential; the VPN state published at revision r is r itself.           *)
(***************************************************************************)
EXTENDS Integers, Sequences

CONSTANTS MaxRev,    \* events the service publishes
          MaxFaults, \* drops, closes, failed attempts, revocation and death
          Delays     \* entries of RECONNECT_DELAYS_MS

VARIABLE s

\* spawn and the state run starts with: no port is known, nothing was seen.
Init ==
  \E lock \in {"port", "missing", "unreadable"} :
    s = [phase |-> "start", port |-> FALSE, lock |-> lock, rev |-> 0, view |-> 0,
         tries |-> 0, resync |-> FALSE, last |-> "none", wire |-> <<>>,
         svcRev |-> 0, alive |-> TRUE, known |-> TRUE, faults |-> 0]

Fault(f) == s.faults < MaxFaults /\ s' = [f EXCEPT !.faults = @ + 1]
Notify(f, n) == [f EXCEPT !.last = n]
Gone == [Notify(s, "gone") EXCEPT !.phase = "ended", !.wire = <<>>]

\* establish and handshake succeed: the first notice of a session is the
\* snapshot that came with the attachment.
Attached ==
  [Notify(s, "env") EXCEPT !.phase = "pump", !.port = TRUE, !.rev = s.svcRev,
                           !.view = s.svcRev, !.wire = <<>>, !.resync = FALSE, !.tries = 0]

\* open: the port is remembered after the first success; classify_lock tells a
\* missing lock file from one this user cannot read.
Reachable == s.alive /\ (s.port \/ s.lock # "missing")
OpenSucceeds == s.phase \in {"start", "dial"} /\ Reachable /\ s.known /\ s' = Attached

\* A rejected prelude is final, except while probing localhost listeners,
\* where it only disqualifies the candidate.
Rejected == Reachable /\ ~s.known /\ (s.port \/ s.lock = "port")
OpenRejected == s.phase \in {"start", "dial"} /\ Rejected /\ s' = Gone

\* run: before the first session the attempts go on until the grace period
\* has passed.
StartFails == s.phase = "start" /\ Fault(s)
StartDeadline == s.phase = "start" /\ (~Reachable \/ ~s.known) /\ s' = Gone

\* pump: a frame is read.  A gap in the revisions asks for a snapshot and the
\* event is delivered all the same.
PumpEvent ==
  /\ s.phase = "pump" /\ s.wire # <<>> /\ Head(s.wire).kind = "event"
  /\ s' = [Notify(s, "event") EXCEPT !.wire = Tail(@), !.rev = Head(s.wire).rev,
              !.view = Head(s.wire).rev,
              !.resync = @ \/ Head(s.wire).rev # s.rev + 1]
PumpSnapshot ==
  /\ s.phase = "pump" /\ s.wire # <<>> /\ Head(s.wire).kind = "snapshot"
  /\ s' = [Notify(s, "event") EXCEPT !.wire = Tail(@), !.rev = Head(s.wire).rev,
              !.view = Head(s.wire).rev]

Lost == [Notify(s, "lost") EXCEPT !.phase = "sleep", !.wire = <<>>, !.resync = FALSE]

\* closed: the four final codes end the task, any other end is a loss.
PumpClosed ==
  /\ s.phase = "pump" /\ s.wire # <<>> /\ Head(s.wire).kind = "close"
  /\ s' = IF Head(s.wire).final THEN Gone ELSE Lost
PumpBroken == s.phase = "pump" /\ (~s.alive \/ s.faults < MaxFaults)
  /\ s' = [Lost EXCEPT !.faults = IF s.alive THEN @ + 1 ELSE @]

\* run: one delay of the list passes, then the health endpoint is asked.
Sleep ==
  /\ s.phase = "sleep"
  /\ s' = IF s.tries = Delays \/ ~s.alive THEN Gone
          ELSE [s EXCEPT !.phase = "dial", !.tries = @ + 1]
\* Mutant: a failed attempt starts the list of delays anew.
DialFailsForgets ==
  s.phase = "dial" /\ s' = [s EXCEPT !.phase = "sleep", !.tries = 0]

DialFails ==
  s.phase = "dial" /\ (IF Reachable /\ s.known THEN Fault([s EXCEPT !.phase = "sleep"])
                       ELSE s' = [s EXCEPT !.phase = "sleep"])

\* gpservice: an event is published, possibly with a gap before its number (the
\* task tolerates one; StreamContiguous of WsServer shows that this service
\* leaves none); a Resync is answered with a snapshot.
Serving == s.phase = "pump" /\ s.alive /\ s.known
ServicePublishes ==
  /\ s.alive /\ s.svcRev < MaxRev
  /\ \E skip \in {0, 1} :
       LET r == s.svcRev + 1 + skip
           e == [kind |-> "event", rev |-> r, final |-> FALSE] IN
       /\ r <= MaxRev
       /\ s' = [s EXCEPT !.svcRev = r, !.wire = IF Serving THEN Append(@, e) ELSE @]
ServiceAnswers ==
  /\ Serving /\ s.resync
  /\ s' = [s EXCEPT !.resync = FALSE,
              !.wire = Append(@, [kind |-> "snapshot", rev |-> s.svcRev, final |-> FALSE])]
ServiceCloses ==
  /\ Serving
  /\ \E final \in BOOLEAN :
       Fault([s EXCEPT !.wire = Append(@, [kind |-> "close", rev |-> 0, final |-> final]),
                       !.known = @ /\ ~final])
ServiceRevokes == s.known /\ Fault([s EXCEPT !.known = FALSE])
ServiceDies == s.alive /\ Fault([s EXCEPT !.alive = FALSE])
LockPublished == s.lock = "missing" /\ s' = [s EXCEPT !.lock = "port"]

TaskStep ==
  \/ OpenSucceeds \/ OpenRejected \/ StartDeadline \/ PumpEvent \/ PumpSnapshot
  \/ PumpClosed \/ Sleep \/ DialFails
Broken == ~s.alive /\ PumpBroken
Next ==
  \/ TaskStep \/ StartFails \/ PumpBroken \/ ServicePublishes \/ ServiceAnswers
  \/ ServiceCloses \/ ServiceRevokes \/ ServiceDies \/ LockPublished

\* What the daemon relies on: a session begins with the environment, a loss
\* follows a session, and nothing follows Gone.
NoticeStep ==
     /\ s'.last = "env" => s.last \in {"none", "lost"} \/ s'.last = s.last
     /\ s'.last = "event" => s.last \in {"env", "event"}
     /\ s'.last = "lost" => s.last \in {"env", "event", "lost"}
     /\ s.last = "gone" => s'.last = s.last

\* A loss is always resolved: the task attaches again or reports Gone.
LossPending == s.phase = "sleep"
LossResolved == s.phase \in {"pump", "ended"}

\* While the session lasts the daemon catches up with the service, events
\* lost on the way included; the alternative is a session that ends.
CaughtUp == s.phase # "pump" \/ s.view = s.svcRev \/ ~s.known
=============================================================================
