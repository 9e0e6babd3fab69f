----------------------------- MODULE WsRequests -----------------------------
(***************************************************************************)
(* One attached connection of gpservice (ws_connection.rs): the select loop *)
(* with its biased order, the requests that are in progress and the replies *)
(* that different tasks give them, the bounded command queue, the heartbeat *)
(* and the counters of the encrypted frames (transport/noise.rs).  The      *)
(* client is any client that numbers its requests apart, as gpwidget does.  *)
(***************************************************************************)
EXTENDS Integers, Sequences, FiniteSets

CONSTANTS MaxRequests, \* requests the client makes
          MaxEvents,   \* messages the service broadcasts
          MaxPending,  \* MAX_PENDING_REQUESTS
          Queue,       \* CONNECTION_QUEUE
          Pipe,        \* frames the socket takes before a write blocks
          Interval,    \* HEARTBEAT_INTERVAL, in ticks of the heartbeat
          Grace,       \* PONG_TIMEOUT, in the same ticks
          None

VARIABLE s

Ids == 1..MaxRequests

\* How a request is answered.  direct and direct_close: in the handler, the first
\* gives up the connection when its queue is full, the second asks for the close;
\* task: by a spawned task that waits for room; preview: by the preview worker,
\* which does not.
Kinds == {"direct", "direct_close", "task", "preview"}

\* The state WsConnection::accept enters its loop with.  up and down: frames on
\* the socket; q: ConnectionCommands; close: the value of the close channel; cn,
\* sr, sn, cr: the client's and the service's Noise counters.  got, lost, cut:
\* history, see RequestsAnswered.
Init ==
  s = [loop |-> "select", msg |-> None, pend |-> {}, q |-> <<>>, close |-> None, why |-> None,
       tasks |-> {}, prev |-> None, listed |-> TRUE, current |-> TRUE, stat |-> FALSE,
       beat |-> FALSE, idle |-> 0, wait |-> None, events |-> 0,
       client |-> "open", asked |-> 0, resynced |-> FALSE, owes |-> FALSE,
       up |-> <<>>, down |-> <<>>, cn |-> 0, sr |-> 0, sn |-> 0, cr |-> 0,
       got |-> [i \in Ids |-> 0], lost |-> {}, cut |-> FALSE]

Running == s.loop \in {"select", "handle"}

\* NoiseTransport: encrypt checks the size before its counter moves; decrypt accepts
\* the frame with the expected counter.
Frame(k, id, n) == [k |-> k, id |-> id, kind |-> None, n |-> n]
Room == Len(s.down) < Pipe
Encrypted(f, k, id) ==
  [f EXCEPT !.down = Append(@, Frame(k, id, f.sn)), !.sn = @ + 1, !.idle = 0]
Authentic(m, n) == m.n = n
Plain(f, k) == [f EXCEPT !.down = Append(@, Frame(k, None, None)), !.idle = 0]

\* The loop ends, and what only the loop reads with it; send_close tries the write
\* and ignores its failure.
Ends(f, why) ==
  [f EXCEPT !.loop = "leaving", !.why = why, !.msg = None, !.up = <<>>, !.stat = FALSE,
            !.beat = FALSE, !.idle = 0, !.wait = None]
Closes(f, why) ==
  [Ends(f, why) EXCEPT !.down = IF Room THEN Append(@, Frame("close", why, None)) ELSE @]

\* ConnectionControl::send: the command, or FALSE for a full queue.
Sendable(f) == Len(f.q) < Queue /\ f.loop # "gone"
Push(f, k, id) == [f EXCEPT !.q = Append(@, [k |-> k, id |-> id])]

(***************************************************************************)
(* The arms of the select, in their order: an arm is polled only when no    *)
(* arm before it is ready.  A write that finds no room times out.           *)
(***************************************************************************)
Selecting == s.loop = "select"

TakeCommand ==
  /\ Selecting /\ s.q # <<>>
  /\ LET c == Head(s.q)
         f == [s EXCEPT !.q = Tail(@)] IN
     s' = IF c.k = "reply" /\ c.id \notin s.pend THEN Closes(f, "UnknownReply")
          ELSE IF c.k = "large" \/ ~Room THEN Ends([f EXCEPT !.pend = @ \ {c.id}], "write")
          ELSE Encrypted([f EXCEPT !.pend = @ \ {c.id}], c.k, c.id)

TakeClose ==
  /\ Selecting /\ s.q = <<>> /\ s.close # None
  /\ s' = Closes(s, s.close)

\* A frame is read; the handler of an authenticated message awaits, so that
\* other tasks fill the queue before it answers (Handle).
TakeFrame ==
  /\ Selecting /\ s.q = <<>> /\ s.close = None /\ s.up # <<>>
  /\ LET m == Head(s.up)
         f == [s EXCEPT !.up = Tail(@)] IN
     s' = CASE m.k = "close" -> Ends(f, "client")
            [] m.k = "pong" -> [f EXCEPT !.wait = None]
            [] m.k = "ping" -> IF Room THEN Plain(f, "pong") ELSE Ends(f, "write")
            [] m.k = "text" -> Closes(f, "MalformedMessage")
            [] OTHER -> IF ~Authentic(m, s.sr) THEN Closes(f, "AuthenticationFailed")
                        ELSE [f EXCEPT !.sr = @ + 1, !.loop = "handle", !.msg = m]

Quiet == Selecting /\ s.q = <<>> /\ s.close = None /\ s.up = <<>>
Pongs == \E i \in DOMAIN s.up : s.up[i].k = "pong"

TakeBeat ==
  /\ Quiet /\ s.beat
  /\ LET f == [s EXCEPT !.beat = FALSE] IN
     s' = IF s.wait = 0 THEN [Closes(f, "HeartbeatTimeout") EXCEPT !.cut = Pongs]
          ELSE IF s.wait # None \/ s.idle < Interval THEN f
          ELSE IF Room THEN [Plain(f, "ping") EXCEPT !.wait = Grace]
          ELSE Ends(f, "write")

TakeStatistics ==
  /\ Quiet /\ ~s.beat /\ s.stat
  /\ s' = IF Room THEN Encrypted([s EXCEPT !.stat = FALSE], "statistics", None)
          ELSE Ends(s, "write")

(***************************************************************************)
(* handle_client_message                                                    *)
(***************************************************************************)
Back(f) == [f EXCEPT !.loop = "select", !.msg = None]
Give(f, id, soft) ==
  IF Sendable(f) THEN Back(Push(f, "reply", id))
  ELSE IF soft THEN Back([f EXCEPT !.pend = @ \ {id}, !.close = "InternalError"])
  ELSE Closes(f, "MalformedMessage")

\* A preview is started unless one runs; another request is dispatched, and what
\* dispatch_lifecycle settles at once is answered like a stored chunk.
Preview(f, id) == IF s.prev # None THEN Give(f, id, FALSE) ELSE Back([f EXCEPT !.prev = id])
Dispatched(f, id) == Back([f EXCEPT !.tasks = @ \union {id}])

Refused(id) == Cardinality(s.pend) >= MaxPending \/ id \in s.pend \/ ~s.current
Request(m) ==
  LET f == [s EXCEPT !.pend = @ \union {m.id}] IN
  IF Refused(m.id) THEN Closes(s, "MalformedMessage")
  ELSE CASE m.kind \in {"direct", "direct_close"} -> Give(f, m.id, m.kind = "direct_close")
         [] m.kind = "preview" -> Preview(f, m.id)
         [] m.kind = "task" -> Dispatched(f, m.id)

Handle ==
  /\ s.loop = "handle"
  /\ s' = CASE s.msg.k = "attach" -> Closes(s, "MalformedMessage")
            [] s.msg.k = "resync" -> IF Sendable(s) THEN Back(Push(s, "snapshot", None))
                                     ELSE Closes(s, "MalformedMessage")
            [] s.msg.k = "request" -> Request(s.msg)

\* dispatch_pending ends and send_reply waits for room; once the receiver is gone
\* the reply is dropped.
TaskReplies ==
  \E i \in s.tasks :
    /\ Sendable(s) \/ s.loop = "gone"
    /\ s' = [IF s.loop = "gone" THEN s ELSE Push(s, "reply", i) EXCEPT !.tasks = @ \ {i}]

\* The preview worker ends: a full queue costs the reply, not the worker's end.
PreviewReplies ==
  /\ s.prev # None
  /\ s' = IF Sendable(s) THEN [Push(s, "reply", s.prev) EXCEPT !.prev = None]
          ELSE [s EXCEPT !.prev = None, !.lost = @ \union {s.prev}]

\* After the loop: remove_connection, then cancel_connection joins the worker.
Leave ==
  /\ s.loop = "leaving" /\ s.prev = None
  /\ s' = [s EXCEPT !.loop = "gone", !.listed = FALSE, !.q = <<>>]

\* The rest of the service: a broadcast that finds no room closes and unlists the
\* connection; a replacement makes the generation stale, then closes.  large: an
\* event beyond MAX_PLAINTEXT, which nothing shortens.
Broadcast ==
  /\ s.listed /\ s.loop # "gone" /\ s.events < MaxEvents
  /\ \E k \in {"event", "large"} :
       s' = [IF Sendable(s) THEN Push(s, k, None)
             ELSE [s EXCEPT !.close = "InternalError", !.listed = FALSE] EXCEPT !.events = @ + 1]
Replaced == s.current /\ Running /\ s' = [s EXCEPT !.current = FALSE]
ReplacedCloses ==
  /\ ~s.current /\ Running /\ s.close = None
  /\ s' = [s EXCEPT !.close = "SessionReplaced", !.stat = FALSE]
Sampled ==
  /\ Running /\ s.close = None /\ ~s.stat /\ s.events < MaxEvents
  /\ s' = [s EXCEPT !.stat = TRUE, !.events = @ + 1]

\* One tick of the heartbeat interval.
Tick ==
  /\ Running /\ ~s.beat
  /\ s' = [s EXCEPT !.beat = TRUE, !.idle = IF @ < Interval THEN @ + 1 ELSE @,
             !.wait = IF @ = None \/ @ = 0 THEN @ ELSE @ - 1]

(***************************************************************************)
(* The client.                                                              *)
(***************************************************************************)
Talking == s.client = "open" /\ Running /\ Len(s.up) < Pipe
Sent(m) == [s EXCEPT !.up = Append(@, m), !.cn = @ + 1]
ClientRequests ==
  /\ Talking /\ s.asked < MaxRequests
  /\ \E kind \in Kinds :
       s' = [Sent([Frame("request", s.asked + 1, s.cn) EXCEPT !.kind = kind]) EXCEPT !.asked = @ + 1]
ClientResyncs ==
  /\ Talking /\ ~s.resynced
  /\ s' = [Sent(Frame("resync", None, s.cn)) EXCEPT !.resynced = TRUE]
\* A frame the protocol does not know here ends the connection.
ClientErrs ==
  /\ Talking /\ ~s.resynced
  /\ \E k \in {"text", "attach", "ping"} :
       s' = [s EXCEPT !.up = Append(@, Frame(k, None, s.cn)), !.resynced = TRUE,
                      !.cn = IF k = "attach" THEN @ + 1 ELSE @]
ClientPongs ==
  /\ Talking /\ s.owes
  /\ s' = [s EXCEPT !.owes = FALSE, !.up = Append(@, Frame("pong", None, None))]

\* pump reads a frame: what does not authenticate, and a close, end it.
ClientReads ==
  /\ s.client = "open" /\ s.down # <<>>
  /\ LET m == Head(s.down)
         f == [s EXCEPT !.down = Tail(@)] IN
     s' = CASE m.k = "ping" -> [f EXCEPT !.owes = TRUE]
            [] m.k = "pong" -> f
            [] m.k = "close" -> [f EXCEPT !.client = "closed"]
            [] OTHER -> IF ~Authentic(m, s.cr) THEN [f EXCEPT !.client = "refused"]
                        ELSE [f EXCEPT !.cr = @ + 1,
                                !.got = IF m.k = "reply" THEN [@ EXCEPT ![m.id] = @ + 1] ELSE @]
ClientSeesEnd ==
  /\ s.client = "open" /\ s.loop = "gone" /\ s.down = <<>>
  /\ s' = [s EXCEPT !.client = "closed"]
ClientLeaves ==
  /\ Talking
  /\ s' = [s EXCEPT !.client = "closed", !.up = Append(@, Frame("close", None, None))]

Over == s.loop = "gone" /\ s.tasks = {}
Stutter == Over /\ UNCHANGED s

Loop == TakeCommand \/ TakeClose \/ TakeFrame \/ TakeBeat \/ TakeStatistics \/ Handle \/ Leave
Workers == TaskReplies \/ PreviewReplies
Service == Broadcast \/ Replaced \/ ReplacedCloses \/ Sampled \/ Tick
Client ==
  \/ ClientRequests \/ ClientResyncs \/ ClientErrs \/ ClientPongs \/ ClientReads \/ ClientSeesEnd
  \/ ClientLeaves
Next == Loop \/ Workers \/ Service \/ Client \/ Stutter

\* Where the reply of a request is to come from.
Replies(i) == Cardinality({j \in DOMAIN s.q : s.q[j].k = "reply" /\ s.q[j].id = i})
Sources(i) == Replies(i) + (IF i \in s.tasks THEN 1 ELSE 0) + (IF s.prev = i THEN 1 ELSE 0)

\* A request in progress has exactly one task, worker or queued command that will
\* answer it, so that no reply is ever unknown and none comes twice; at rest all
\* requests are answered but a preview whose reply found the queue full.  Frames
\* authenticate whatever failed before them, and a client is called silent only
\* when no pong of its waits to be read.
RequestsAnswered ==
  /\ s.why \notin {"UnknownReply", "AuthenticationFailed"} /\ s.client # "refused" /\ ~s.cut
  /\ \A i \in Ids : s.got[i] + Sources(i) <= 1
  /\ Running => /\ s.pend = {i \in Ids : Sources(i) = 1} \union s.lost
                /\ Cardinality(s.pend) <= MaxPending
  /\ (/\ Selecting /\ s.q = <<>> /\ s.tasks = {} /\ s.prev = None
      /\ s.up = <<>> /\ s.down = <<>> /\ s.client = "open")
       => \A i \in 1..s.asked : s.got[i] = 1 \/ i \in s.lost \/ s.close # None

\* A request is answered or its connection ends.
Unanswered(i) == s.asked >= i /\ s.got[i] = 0
Settled(i) == s.got[i] = 1 \/ s.loop = "gone" \/ s.client # "open" \/ i \in s.lost
=============================================================================
