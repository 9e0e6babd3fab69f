--------------------------- MODULE SessionRegistry ---------------------------
(***************************************************************************)
(* The sessions of the service: credentials issued to desktop clients,     *)
(* the handshakes that attach a WebSocket connection to a session, the     *)
(* generations of attachments, and the non-tunnel connection attempts that *)
(* live only as long as the attachment they were requested on.             *)
(*                                                                         *)
(* The registry is one mutex: every method is one action. A connection     *)
(* task (accept, establish) calls begin_handshake, prepare_attach and      *)
(* commit_attach with awaits in between, and owns a permit whose drop      *)
(* cancels the handshake. The connection lifecycle, modelled in VpnTask,   *)
(* appears here as its single slot and the drain handle of each attempt.   *)
(***************************************************************************)
EXTENDS Naturals, FiniteSets

CONSTANTS
  Sessions,    \* session identifiers; each is issued at most once
  Conns,       \* accepted sockets: one connection task, permit and control each
  Attempts,    \* connection attempts, in any order
  MaxPending,  \* MAX_PENDING_SESSIONS
  None

ASSUME RegistryAssumption ==
  /\ MaxPending \in Nat \ {0}
  /\ None \notin Conns /\ None \notin Attempts /\ None \notin Sessions
  /\ IsFiniteSet(Sessions)

VARIABLES
  status,      \* SessionStatus of a session, or why it has no record
  expired,     \* its activation_deadline has passed
  token,       \* the permit named by handshake_token or reconnect_token
  generation,  \* generation of the last attachment
  attached,    \* SessionStatus::Active.connection
  closing,     \* closed_attachment
  nonTunnel,   \* the attempt of AttachmentAttempt
  task,        \* where the connection task of a socket is
  session,     \* the session its client named
  observed,    \* HandshakePermit.observed_generation
  joined,      \* PreparedAttach.generation
  replaced,    \* the connection commit_attach returned, until it is closed
  closed,      \* ConnectionControl::is_closed
  revoking,    \* connections a revoke has taken and is about to close
  slot,        \* the admitted attempt of the lifecycle
  attempt,     \* how far an attempt is
  owner,       \* the connection whose request reserved an attempt
  tunnel,      \* the attempt asks for a tunnel
  cancelled    \* the attempt's cancellation token

recordVars == <<status, expired, token, generation, attached, closing, nonTunnel>>
taskVars == <<task, session, observed, joined, replaced, closed, revoking>>
attemptVars == <<slot, attempt, owner, tunnel, cancelled>>
vars == <<recordVars, taskVars, attemptVars>>

Status == {"unissued", "pending", "active", "removed"}
\* "failed" tasks still hold a permit that is about to be dropped
Task == {"idle", "begun", "prepared", "replacing", "running", "leaving",
         "detached", "failed", "over"}
AttemptPhase == {"none", "preparing", "running", "ending", "signalling", "complete"}

Permitted == {"begun", "prepared", "failed"}
Serving == {"replacing", "running", "leaving", "detached"}

TypeOK ==
  /\ status \in [Sessions -> Status]
  /\ expired \in [Sessions -> BOOLEAN]
  /\ token \in [Sessions -> Conns \cup {None}]
  /\ generation \in [Sessions -> Nat]
  /\ attached \in [Sessions -> Conns \cup {None}]
  /\ closing \in [Sessions -> Conns \cup {None}]
  /\ nonTunnel \in [Sessions -> Attempts \cup {None}]
  /\ task \in [Conns -> Task]
  /\ session \in [Conns -> Sessions \cup {None}]
  /\ observed \in [Conns -> Nat]
  /\ joined \in [Conns -> Nat]
  /\ replaced \in [Conns -> Conns \cup {None}]
  /\ closed \in [Conns -> BOOLEAN]
  /\ revoking \subseteq Conns
  /\ slot \in Attempts \cup {None}
  /\ attempt \in [Attempts -> AttemptPhase]
  /\ owner \in [Attempts -> Conns \cup {None}]
  /\ tunnel \in [Attempts -> BOOLEAN]
  /\ cancelled \in [Attempts -> BOOLEAN]

Init ==
  /\ status = [s \in Sessions |-> "unissued"]
  /\ expired = [s \in Sessions |-> FALSE]
  /\ token = [s \in Sessions |-> None]
  /\ generation = [s \in Sessions |-> 0]
  /\ attached = [s \in Sessions |-> None]
  /\ closing = [s \in Sessions |-> None]
  /\ nonTunnel = [s \in Sessions |-> None]
  /\ task = [c \in Conns |-> "idle"]
  /\ session = [c \in Conns |-> None]
  /\ observed = [c \in Conns |-> 0]
  /\ joined = [c \in Conns |-> 0]
  /\ replaced = [c \in Conns |-> None]
  /\ closed = [c \in Conns |-> FALSE]
  /\ revoking = {}
  /\ slot = None
  /\ attempt = [a \in Attempts |-> "none"]
  /\ owner = [a \in Attempts |-> None]
  /\ tunnel = [a \in Attempts |-> FALSE]
  /\ cancelled = [a \in Attempts |-> FALSE]

Present(s) == status[s] \in {"pending", "active"}
\* AttemptDrain::is_complete
Complete(a) == attempt[a] = "complete"
-----------------------------------------------------------------------------
(* Issuing credentials *)

Stale(s) == status[s] = "pending" /\ expired[s]
Pending == {s \in Sessions : status[s] = "pending"}

BelowLimit == Cardinality(Pending \ {s \in Sessions : Stale(s)}) < MaxPending

\* issue: expired records are dropped first, also when the call then fails
Issue(s) ==
  /\ status[s] = "unissued" /\ BelowLimit
  /\ status' = [t \in Sessions |-> CASE t = s -> "pending"
                                     [] Stale(t) -> "removed"
                                     [] OTHER -> status[t]]
  /\ UNCHANGED <<expired, token, generation, attached, closing, nonTunnel,
                 taskVars, attemptVars>>

\* ... at the limit, without a device anchor, or is_empty on macOS
DropStale ==
  /\ \E s \in Sessions : Stale(s)
  /\ status' = [t \in Sessions |-> IF Stale(t) THEN "removed" ELSE status[t]]
  /\ UNCHANGED <<expired, token, generation, attached, closing, nonTunnel,
                 taskVars, attemptVars>>

\* The activation deadline passes
Deadline(s) ==
  /\ status[s] = "pending" /\ ~expired[s]
  /\ expired' = [expired EXCEPT ![s] = TRUE]
  /\ UNCHANGED <<status, token, generation, attached, closing, nonTunnel,
                 taskVars, attemptVars>>
-----------------------------------------------------------------------------
(* Handshakes *)

\* begin_handshake gives the only permit of the session. A client of another
\* version or service instance is refused whatever the record says, as is one
\* without a record or behind another handshake.
BeginHandshake(c, s) ==
  /\ task[c] = "idle"
  /\ session' = [session EXCEPT ![c] = s]
  /\ \/ /\ Present(s) /\ ~Stale(s) /\ token[s] = None
        /\ token' = [token EXCEPT ![s] = c]
        /\ observed' = [observed EXCEPT ![c] = generation[s]]
        /\ task' = [task EXCEPT ![c] = "begun"]
        /\ UNCHANGED status
     \/ /\ Stale(s)
        /\ status' = [status EXCEPT ![s] = "removed"]
        /\ task' = [task EXCEPT ![c] = "over"]
        /\ UNCHANGED <<token, observed>>
     \/ /\ task' = [task EXCEPT ![c] = "over"]
        /\ UNCHANGED <<status, token, observed>>
  /\ UNCHANGED <<expired, generation, attached, closing, nonTunnel, joined,
                 replaced, closed, revoking, attemptVars>>

\* The permit is still the one the record waits for
Valid(c) ==
  /\ Present(session[c])
  /\ token[session[c]] = c /\ generation[session[c]] = observed[c]

\* Mutant: the next generation is not a new one
SameGeneration(s) == generation[s]

NextGeneration(s) == generation[s] + 1

\* prepare_attach, called with the server state locked
PrepareAttach(c) ==
  /\ task[c] = "begun"
  /\ IF Valid(c)
       THEN /\ joined' = [joined EXCEPT ![c] = NextGeneration(session[c])]
            /\ task' = [task EXCEPT ![c] = "prepared"]
       ELSE task' = [task EXCEPT ![c] = "failed"] /\ UNCHANGED joined
  /\ UNCHANGED <<recordVars, session, observed, replaced, closed, revoking,
                 attemptVars>>

\* Mutant: the attempt of the replaced attachment keeps running
KeepOnReattach(s) == {}

\* The attempt whose drain the record holds
Recorded(s) == {a \in Attempts : nonTunnel[s] = a}

CancelOnReattach(s) == Recorded(s)

Cancel(as) == cancelled' = [a \in Attempts |-> cancelled[a] \/ a \in as]

\* commit_connection of the server refuses a candidate that was closed, then
\* commit_attach: a first attachment activates the session, a later one
\* replaces the connection and ends the non-tunnel attempt of the old one
CommitAttach(c) ==
  LET s == session[c] IN
  /\ task[c] = "prepared"
  /\ IF ~closed[c] /\ Valid(c)
       THEN /\ status' = [status EXCEPT ![s] = "active"]
            /\ generation' = [generation EXCEPT ![s] = NextGeneration(s)]
            /\ attached' = [attached EXCEPT ![s] = c]
            /\ token' = [token EXCEPT ![s] = None]
            /\ replaced' = [replaced EXCEPT ![c] = attached[s]]
            /\ task' = [task EXCEPT ![c] = "replacing"]
            /\ IF status[s] = "active"
                 THEN /\ closing' = [closing EXCEPT ![s] = None]
                      /\ Cancel(CancelOnReattach(s))
                 ELSE UNCHANGED <<closing, cancelled>>
       ELSE /\ task' = [task EXCEPT ![c] = "failed"]
            /\ UNCHANGED <<status, generation, attached, token, replaced,
                           closing, cancelled>>
  /\ UNCHANGED <<expired, nonTunnel, session, observed, joined, closed, revoking,
                 slot, attempt, owner, tunnel>>

\* Mutant: the replaced connection is left open
LeaveReplaced(c) == {}

ToClose(c) == {replaced[c]}

\* establish closes the connection it replaced
CloseReplaced(c) ==
  /\ task[c] = "replacing"
  /\ closed' = [d \in Conns |-> closed[d] \/ d \in ToClose(c)]
  /\ replaced' = [replaced EXCEPT ![c] = None]
  /\ task' = [task EXCEPT ![c] = "running"]
  /\ UNCHANGED <<recordVars, session, observed, joined, revoking, attemptVars>>

\* The handshake fails, times out or its socket is lost
HandshakeFails(c) ==
  /\ task[c] \in {"begun", "prepared"}
  /\ task' = [task EXCEPT ![c] = "failed"]
  /\ UNCHANGED <<recordVars, session, observed, joined, replaced, closed,
                 revoking, attemptVars>>

\* Mutant: cancel_handshake compares the token of first handshakes only
CancelPendingOnly(c) ==
  /\ status' = [s \in Sessions |->
       IF s = session[c] /\ Valid(c) /\ status[s] = "pending" THEN "removed"
                                                              ELSE status[s]]
  /\ UNCHANGED token

\* cancel_handshake: a failed first handshake uses the credential up
CancelHandshake(c) ==
  /\ status' = [s \in Sessions |->
       IF s = session[c] /\ Valid(c) /\ status[s] = "pending" THEN "removed"
                                                              ELSE status[s]]
  /\ token' = [s \in Sessions |->
       IF s = session[c] /\ Valid(c) /\ status[s] = "active" THEN None
                                                             ELSE token[s]]

\* The permit of a failed handshake, or of a served connection, is dropped
DropPermit(c) ==
  /\ task[c] \in {"failed", "detached"}
  /\ CancelHandshake(c)
  /\ closed' = [closed EXCEPT ![c] = TRUE]
  /\ task' = [task EXCEPT ![c] = "over"]
  /\ UNCHANGED <<expired, generation, attached, closing, nonTunnel, session,
                 observed, joined, replaced, revoking, attemptVars>>
-----------------------------------------------------------------------------
(* Leaving and revocation *)

\* The server closes connections that do not keep up with its events, or all of
\* them
CloseSlow(cs) ==
  /\ \A c \in cs : task[c] \in {"prepared", "failed"} \cup Serving
  /\ closed' = [c \in Conns |-> closed[c] \/ c \in cs]
  /\ UNCHANGED <<recordVars, task, session, observed, joined, replaced, revoking,
                 attemptVars>>

\* The connection loop ends: closed, socket lost, malformed or late answer
Leave(c) ==
  /\ task[c] = "running"
  /\ task' = [task EXCEPT ![c] = "leaving"]
  /\ UNCHANGED <<recordVars, session, observed, joined, replaced, closed,
                 revoking, attemptVars>>

\* Mutant: the cleanup of a connection does not compare generations
DetachedAny(c) == Recorded(session[c])

\* Attempts disconnect_if_current cancels: only those of this generation
Detached(c) == {a \in Recorded(session[c]) : joined[owner[a]] = joined[c]}

\* disconnect_if_current
DisconnectIfCurrent(c) ==
  LET s == session[c] IN
  /\ task[c] = "leaving"
  /\ Cancel(IF Present(s) THEN Detached(c) ELSE {})
  /\ attached' = [attached EXCEPT ![s] =
       IF status[s] = "active" /\ generation[s] = joined[c] THEN None ELSE @]
  /\ task' = [task EXCEPT ![c] = "detached"]
  /\ UNCHANGED <<status, expired, token, generation, closing, nonTunnel, session,
                 observed, joined, replaced, closed, revoking, slot, attempt,
                 owner, tunnel>>

\* revoke removes the record, then closes its connection outside the lock
Revoke(s) ==
  /\ Present(s)
  /\ status' = [status EXCEPT ![s] = "removed"]
  /\ Cancel(Recorded(s))
  /\ revoking' = revoking \cup ({attached[s]} \ {None})
  /\ UNCHANGED <<expired, token, generation, attached, closing, nonTunnel, task,
                 session, observed, joined, replaced, closed, slot, attempt,
                 owner, tunnel>>

CloseRevoked(c) ==
  /\ c \in revoking
  /\ revoking' = revoking \ {c}
  /\ closed' = [closed EXCEPT ![c] = TRUE]
  /\ UNCHANGED <<recordVars, task, session, observed, joined, replaced,
                 attemptVars>>
-----------------------------------------------------------------------------
(* Connection attempts *)

\* current_connection: the request's generation is attached and open
Current(c) ==
  LET s == session[c] IN
  /\ status[s] = "active" /\ generation[s] = joined[c]
  /\ attached[s] # None /\ ~closed[attached[s]]

ReserveOpen(c, t) == Current(c) /\ (t \/ closing[session[c]] # attached[session[c]])

\* reserve_connection, with the reservation of the lifecycle inside the lock.
\* A completed attempt is forgotten also when the lifecycle is busy.
ReserveConnection(c, t, a) ==
  LET s == session[c]
      kept == IF \E b \in Attempts : nonTunnel[s] = b /\ Complete(b)
                THEN None ELSE nonTunnel[s]
  IN
  /\ task[c] = "running" /\ ReserveOpen(c, t)
  /\ attempt[a] = "none"
  /\ IF slot = None
       THEN /\ slot' = a
            /\ attempt' = [attempt EXCEPT ![a] = "preparing"]
            /\ owner' = [owner EXCEPT ![a] = attached[s]]
            /\ tunnel' = [tunnel EXCEPT ![a] = t]
            /\ nonTunnel' = [nonTunnel EXCEPT ![s] = IF t THEN kept ELSE a]
       ELSE /\ nonTunnel' = [nonTunnel EXCEPT ![s] = kept]
            /\ UNCHANGED <<slot, attempt, owner, tunnel>>
  /\ UNCHANGED <<status, expired, token, generation, attached, closing, taskVars,
                 cancelled>>

CommitOpen(a) ==
  IF tunnel[a] THEN status[session[owner[a]]] = "active"
  ELSE Current(owner[a]) /\ closing[session[owner[a]]] # attached[session[owner[a]]]

\* commit_connection; the lifecycle refuses a cancelled attempt. A refused
\* reservation is dropped.
CommitConnection(a) ==
  /\ attempt[a] = "preparing"
  /\ attempt' = [attempt EXCEPT ![a] =
       IF CommitOpen(a) /\ ~cancelled[a] THEN "running" ELSE "ending"]
  /\ UNCHANGED <<recordVars, taskVars, slot, owner, tunnel, cancelled>>

\* stop_non_tunnel_attachment for a connection the client names
StopNonTunnelAttachment(c, d) ==
  LET s == session[c] IN
  /\ task[c] = "running" /\ Current(c)
  /\ closing' = [closing EXCEPT ![s] = IF attached[s] = d THEN d ELSE @]
  /\ Cancel({a \in Recorded(s) : owner[a] = d})
  /\ UNCHANGED <<status, expired, token, generation, attached, nonTunnel, taskVars,
                 slot, attempt, owner, tunnel>>

\* The lifecycle: an attempt fails to prepare, ends or was cancelled; the slot
\* is released and the completion stored after that
AttemptEnds(a) ==
  /\ attempt[a] \in {"preparing", "running"}
  /\ attempt' = [attempt EXCEPT ![a] = "ending"]
  /\ UNCHANGED <<recordVars, taskVars, slot, owner, tunnel, cancelled>>

ReleaseSlot(a) ==
  /\ attempt[a] = "ending"
  /\ slot' = None
  /\ attempt' = [attempt EXCEPT ![a] = "signalling"]
  /\ UNCHANGED <<recordVars, taskVars, owner, tunnel, cancelled>>

SignalCompletion(a) ==
  /\ attempt[a] = "signalling"
  /\ attempt' = [attempt EXCEPT ![a] = "complete"]
  /\ UNCHANGED <<recordVars, taskVars, slot, owner, tunnel, cancelled>>
-----------------------------------------------------------------------------
TaskStep(c) ==
  \/ PrepareAttach(c) \/ CommitAttach(c) \/ CloseReplaced(c) \/ DropPermit(c)
  \/ DisconnectIfCurrent(c)

AttemptStep(a) == ReleaseSlot(a) \/ SignalCompletion(a)

Next ==
  \/ \E s \in Sessions : Issue(s) \/ Deadline(s) \/ Revoke(s)
  \/ DropStale
  \/ \E c \in Conns :
       \/ TaskStep(c) \/ HandshakeFails(c) \/ Leave(c) \/ CloseRevoked(c)
       \/ \E s \in Sessions : BeginHandshake(c, s)
       \/ \E t \in BOOLEAN, a \in Attempts : ReserveConnection(c, t, a)
       \/ \E d \in Conns : StopNonTunnelAttachment(c, d)
  \/ \E cs \in SUBSET Conns : CloseSlow(cs)
  \/ \E a \in Attempts : AttemptStep(a) \/ CommitConnection(a) \/ AttemptEnds(a)

Spec == Init /\ [][Next]_vars

\* Connection tasks are scheduled, a handshake ends within HANDSHAKE_TIMEOUT,
\* the loop of a closed connection sees the close, and a revoke that has taken
\* a connection closes it. Nothing forces clients, attempts or supervisors.
Fairness ==
  \A c \in Conns :
    /\ WF_vars(TaskStep(c)) /\ WF_vars(HandshakeFails(c)) /\ WF_vars(CloseRevoked(c))
    /\ WF_vars(Leave(c) /\ closed[c])

FairSpec == Spec /\ Fairness
-----------------------------------------------------------------------------
(* Safety *)

\* The credential limit: never more than MaxPending sessions wait for their
\* first attachment, expired ones that nobody dropped included.
PendingBounded == Cardinality(Pending) <= MaxPending

\* No handshake blocks a session for good: a token in the record belongs to a
\* connection task that still holds the permit and will use or cancel it.
TokenHasHolder ==
  \A s \in Sessions : Present(s) /\ token[s] # None =>
    /\ task[token[s]] \in Permitted /\ session[token[s]] = s
    /\ observed[token[s]] = generation[s]

\* One client at a time: a connection that is served is the attachment of its
\* session, or somebody has closed it or is about to.
ServedIsAttached ==
  \A c \in Conns : task[c] \in {"replacing", "running"} =>
    \/ Present(session[c]) /\ attached[session[c]] = c
    \/ closed[c] \/ c \in revoking \/ \E d \in Conns : replaced[d] = c

\* Two served connections of one session never share a generation, so that the
\* generation checks of disconnect_if_current and is_current tell them apart.
GenerationsDistinct ==
  \A c, d \in Conns : c # d /\ task[c] \in Serving /\ task[d] \in Serving
    /\ session[c] = session[d] => joined[c] # joined[d]

Live(a) == attempt[a] \in {"preparing", "running"}

\* Non-tunnel work never outlives its attachment: a live attempt that was not
\* cancelled belongs to a session that still exists, whose attachment is the
\* one the request came from and was not asked to stop.
NonTunnelFollowsAttachment ==
  \A a \in Attempts : Live(a) /\ ~tunnel[a] /\ ~cancelled[a] =>
    LET s == session[owner[a]] IN
    /\ status[s] = "active" /\ attached[s] = owner[a] /\ closing[s] # owner[a]
    /\ nonTunnel[s] = a

\* The late cleanup of a replaced connection never cancels the attempt of its
\* successor, nor does a stop that names another connection: an attempt is
\* cancelled only when its own attachment has gone or was asked to stop.
OnlyOwnAttemptsCancelled ==
  [][\A a \in Attempts : ~cancelled[a] /\ cancelled'[a] =>
       LET s == session[owner[a]] IN
       \/ status'[s] # "active" \/ attached'[s] # owner[a] \/ closing'[s] = owner[a]]_vars
-----------------------------------------------------------------------------
(* The inductive invariant *)

\* A session that was never attached has nothing to lose
FreshRecord ==
  \A s \in Sessions :
    /\ status[s] \in {"unissued", "pending"} =>
         generation[s] = 0 /\ attached[s] = None /\ nonTunnel[s] = None
    /\ status[s] = "unissued" => token[s] = None

\* Generations of connection tasks: a candidate would be the next one, a served
\* connection is at most the last one
JoinedGeneration ==
  \A c \in Conns :
    /\ task[c] # "idle" => session[c] \in Sessions
    /\ task[c] = "prepared" => joined[c] = observed[c] + 1
    /\ task[c] \in Serving => joined[c] <= generation[session[c]]

\* The attachment of a session is a served connection of its last generation
AttachmentIsLast ==
  \A s \in Sessions : Present(s) /\ attached[s] # None =>
    /\ task[attached[s]] \in {"replacing", "running", "leaving"}
    /\ session[attached[s]] = s /\ joined[attached[s]] = generation[s]

ReplacedWhileReplacing ==
  \A c \in Conns : task[c] # "replacing" => replaced[c] = None

\* An attempt holds the slot until it is released
SlotHeld ==
  \A a \in Attempts : Live(a) \/ attempt[a] = "ending" => slot = a

\* The recorded attempt is the non-tunnel attempt of the attachment, or it was
\* cancelled; live non-tunnel attempts are recorded
AttemptRecorded(a) ==
  /\ \A s \in Sessions : nonTunnel[s] = a =>
       /\ attempt[a] # "none" /\ owner[a] \in Conns /\ session[owner[a]] = s
       /\ task[owner[a]] # "idle"
       /\ \/ cancelled[a]
          \/ status[s] = "active" /\ attached[s] = owner[a] /\ closing[s] # owner[a]
  /\ Live(a) /\ ~tunnel[a] /\ ~cancelled[a] =>
       owner[a] \in Conns /\ nonTunnel[session[owner[a]]] = a
  /\ Live(a) => owner[a] \in Conns /\ task[owner[a]] # "idle"
RecordedAttempt == \A a \in Attempts : AttemptRecorded(a)

\* What the registry, the connection tasks and the lifecycle know of each other
\* stays consistent: the strengthening the other invariants follow from.
RegistryInv ==
  /\ FreshRecord /\ TokenHasHolder /\ JoinedGeneration /\ AttachmentIsLast
  /\ ReplacedWhileReplacing /\ ServedIsAttached /\ GenerationsDistinct
  /\ SlotHeld /\ RecordedAttempt
-----------------------------------------------------------------------------
(* Liveness *)

\* A handshake never locks the session: its token is consumed or withdrawn, by
\* the timeout at the latest, so that the client can connect again.
HandshakeSettles ==
  \A s \in Sessions, c \in Conns :
    Present(s) /\ token[s] = c ~> ~Present(s) \/ token[s] # c
=============================================================================
