----------------------------- MODULE NonTunnel -----------------------------
(***************************************************************************)
(* The maintenance of non-tunnel sessions                                    *)
(* (crates/gpapi/src/session/desktop/non_tunnel.rs) and the requests it      *)
(* makes (session/transport/mod.rs): one worker per member checks for a      *)
(* report, collects it and submits it; the owner joins them, logs a rejected *)
(* member out, and on a terminal end stops every worker before it returns.   *)
(*                                                                          *)
(* Workers run beside the owner, so a cancellation may come between any two  *)
(* of their steps. InternalSessionPolicy and parse_hip_check bound the next  *)
(* check, so that the overflow of maintain_member cannot happen.             *)
(***************************************************************************)
EXTENDS Integers, FiniteSets

CONSTANTS Members, MaxChecks, None

VARIABLE s

\* What a request brings back. Form is what carries the message: a script, a
\* page, a page with a script in it, or an XML root.
Response(status, message, needed, delay) ==
  [http |-> 200, header |-> FALSE, doctype |-> FALSE, form |-> "response",
   status |-> status, message |-> message, needed |-> needed, delay |-> delay]
Refusal(form, message) == [Response("Error", message, None, None) EXCEPT !.form = form]
Answers ==
  {[Response(None, None, "no", None) EXCEPT !.http = h] : h \in {0, 200, 500, 512}}
  \cup {[Response(None, None, "yes", None) EXCEPT !.header = TRUE],
        [Response(None, None, "yes", None) EXCEPT !.doctype = TRUE]}
  \cup {Response(status, None, "yes", delay) : status \in {None, "success"}, delay \in {None, -1, 3600, 3601}}
  \cup {Response(status, message, "no", None) : status \in {"error", "busy"}, message \in {"cookie", "other"}}
  \cup {Refusal(form, message) : form \in {"script", "page", "pageScript", "prelogin"}, message \in {"cookie", "other"}}
  \cup {Response(None, None, None, None)}

MessageError(message) == IF message = "cookie" THEN "invalidCookie" ELSE "failed"

\* parse_response
ParseResponse(a) ==
  CASE a.doctype -> "failed"
    [] ~a.doctype /\ a.form \in {"script", "pageScript"} -> MessageError(a.message)
    [] ~a.doctype /\ a.form = "page" -> "failed"
    [] ~a.doctype /\ a.form = "prelogin" -> IF a.status = "Error" THEN MessageError(a.message) ELSE "failed"
    [] ~a.doctype /\ a.form = "response" ->
         CASE a.status = "error" -> MessageError(a.message)
           [] a.status \in {None, "success"} -> "ok"
           [] OTHER -> "failed"

\* post: http 0 is a request that got no answer, or one too large to read.
Post(a) ==
  CASE a.http = 512 \/ a.header -> "invalidCookie"
    [] a.http # 512 /\ ~a.header /\ a.http # 200 -> "failed"
    [] OTHER -> ParseResponse(a)

\* check_hip and parse_hip_check: -1 stands for a delay that is no number.
CheckHip(a) ==
  IF Post(a) # "ok" THEN Post(a)
  ELSE IF a.needed = None \/ a.delay \in {-1, 3601} THEN "failed"
  ELSE IF a.needed = "yes" THEN "needed" ELSE "current"

Reports == {"report", "empty", "large", "nul"}

Terminal == {"invalidCookie", "networkChanged", "authorizationRevoked"}

Worker == [pc |-> "say", say |-> "authenticated", next |-> "validate", report |-> None, checks |-> 0, exit |-> None]

Init ==
  s = [token |-> FALSE, stop |-> FALSE, monitor |-> None, owner |-> "loop", outcome |-> None, crashed |-> FALSE,
       ledger |-> Members, joined |-> {}, leaving |-> None, gate |-> None,
       w |-> [m \in Members |-> Worker],
       seen |-> [m \in Members |-> None], told |-> {}, denied |-> {}, accepted |-> {}, noted |-> {},
       logouts |-> [m \in Members |-> 0], result |-> None]

\* The workers' token is a child of the caller's.
Cancelled == s.token \/ s.stop

At(m, pc) == s.w[m].pc = pc
Goto(m, pc) == [s EXCEPT !.w[m].pc = pc]
Exit(m, how) == [s EXCEPT !.w[m].pc = "done", !.w[m].exit = how]
Say(m, state, next) == [s EXCEPT !.w[m].pc = "say", !.w[m].say = state, !.w[m].next = next]

\* The closure status of maintain_member, then the observer that the owner put
\* in its place: the second reads the token under the gate.
Speak(m) ==
  /\ At(m, "say")
  /\ s' = Goto(m, IF Cancelled THEN s.w[m].next ELSE "gate")
TakeGate(m) ==
  /\ At(m, "gate") /\ s.gate = None
  /\ s' = IF Cancelled THEN Goto(m, s.w[m].next) ELSE [Goto(m, "publish") EXCEPT !.gate = m]
Publish(m) ==
  /\ At(m, "publish")
  /\ s' = [Goto(m, s.w[m].next) EXCEPT !.seen[m] = s.w[m].say, !.gate = None]

\* A callback of the owner panics: the guard is dropped and the task is lost.
Crash(m) ==
  /\ At(m, "publish") \/ At(m, "note")
  /\ s' = [Exit(m, "panicked") EXCEPT !.gate = IF s.gate = m THEN None ELSE @]

\* validate_network: it fails on another network, on a failed inspection and
\* once cancelled.
Validate(m) ==
  /\ At(m, "validate")
  /\ \/ s' = Exit(m, "networkChanged")
     \/ ~Cancelled /\ s.w[m].checks < MaxChecks /\ s' = [Goto(m, "check") EXCEPT !.w[m].checks = @ + 1]

\* The tail of the loop for a check or a submission that went wrong.
Fail(m, error) ==
  CASE error = "invalidCookie" -> Say(m, "rejected", "endInvalid")
    [] error = "network" -> Exit(m, "networkChanged")
    [] error = "authorization" -> Exit(m, "authorizationRevoked")
    [] OTHER -> IF Cancelled THEN Exit(m, "cancelled") ELSE Say(m, "rejected", "endRejected")
End(m) ==
  \/ At(m, "endInvalid") /\ s' = Exit(m, "invalidCookie")
  \/ At(m, "endRejected") /\ s' = Exit(m, "rejected")

Tell(next, m, a) == [next EXCEPT !.told = IF Post(a) = "invalidCookie" THEN @ \cup {m} ELSE @]
Check(m) ==
  /\ At(m, "check")
  /\ IF Cancelled THEN s' = Exit(m, "cancelled")
     ELSE \E a \in Answers :
       s' = CASE CheckHip(a) = "needed" -> Goto(m, "collect")
              [] CheckHip(a) = "current" -> Goto(m, "settle")
              [] OTHER -> Tell(Fail(m, CheckHip(a)), m, a)

\* collect_and_submit: the blocking collection checks its control before and
\* after the producer; a time out or a panic is any other failure.
Collect(m) ==
  /\ At(m, "collect")
  /\ s' = IF Cancelled THEN Fail(m, "collection") ELSE Goto(m, "produce")
Produce(m) ==
  /\ At(m, "produce")
  /\ \/ s' = [Fail(m, "authorization") EXCEPT !.denied = @ \cup {m}]
     \/ s' = Fail(m, "collection")
     \/ /\ ~Cancelled
        /\ \E r \in Reports : s' = [Goto(m, "revalidate") EXCEPT !.w[m].report = r]
Revalidate(m) ==
  /\ At(m, "revalidate")
  /\ \/ s' = Fail(m, "network")
     \/ ~Cancelled /\ s' = Goto(m, "submit")
\* submit_hip: a report of no use is never sent.
Submit(m) ==
  /\ At(m, "submit")
  /\ s' = IF Cancelled THEN Fail(m, "collection")
          ELSE IF s.w[m].report # "report" THEN Fail(m, "failed")
          ELSE Goto(m, "sent")
Answer(m) ==
  /\ At(m, "sent")
  /\ IF Cancelled THEN s' = Fail(m, "collection")
     ELSE \E a \in Answers :
       s' = IF Post(a) = "ok" THEN [Goto(m, "note") EXCEPT !.accepted = @ \cup {<<m, s.w[m].checks>>}]
            ELSE Tell(Fail(m, Post(a)), m, a)
\* report_submitted
Note(m) ==
  /\ At(m, "note")
  /\ s' = [Goto(m, "settle") EXCEPT !.w[m].report = None,
             !.noted = IF Cancelled THEN @ ELSE @ \cup {<<m, s.w[m].checks>>}]
Settle(m) ==
  /\ At(m, "settle")
  /\ s' = IF Cancelled THEN Exit(m, "cancelled") ELSE Say(m, "healthy", "sleep")
Sleep(m) ==
  /\ At(m, "sleep")
  /\ s' = IF Cancelled THEN Exit(m, "cancelled") ELSE Goto(m, "validate")

Work(m) ==
  \/ Speak(m) \/ TakeGate(m) \/ Publish(m) \/ Crash(m) \/ Validate(m) \/ End(m) \/ Check(m) \/ Collect(m)
  \/ Produce(m) \/ Revalidate(m) \/ Submit(m) \/ Answer(m) \/ Note(m) \/ Settle(m) \/ Sleep(m)

\* The caller: it cancels, or its network monitor fires.
Cancel ==
  /\ s.owner # "exited" /\ ~s.token
  /\ s' = [s EXCEPT !.token = TRUE]
NetworkChange ==
  /\ s.owner # "exited" /\ s.monitor = None
  /\ s' = [s EXCEPT !.monitor = "networkChanged"]

\* The owner's loop, biased: the token, then the monitor, then a worker.
Leave(next, outcome) == [next EXCEPT !.owner = "stopping", !.outcome = outcome]
Finished == {m \in Members \ s.joined : At(m, "done")}
Heard ==
  /\ s.owner = "loop" /\ s.token
  /\ s' = Leave(s, "disconnected")
Moved ==
  /\ s.owner = "loop" /\ ~s.token /\ s.monitor # None
  /\ s' = Leave(s, s.monitor)
Join(m) ==
  LET next == [s EXCEPT !.joined = @ \cup {m}]
      exit == s.w[m].exit IN
  /\ s.owner = "loop" /\ ~s.token /\ s.monitor = None /\ m \in Finished
  /\ s' = CASE exit \in Terminal -> Leave(next, exit)
            [] exit = "rejected" -> [next EXCEPT !.owner = "logout", !.leaving = m, !.ledger = @ \ {m}, !.logouts[m] = @ + 1]
            [] exit = "panicked" -> [Leave(next, "disconnected") EXCEPT !.crashed = TRUE]
            [] exit = "cancelled" -> next
\* logout_gateway was awaited, at most 5 seconds, whatever it answered.
LoggedOut ==
  /\ s.owner = "logout"
  /\ s' = LET next == [s EXCEPT !.owner = "loop", !.leaving = None] IN
          IF s.joined = Members THEN Leave(next, "allMembersFailed") ELSE next

\* The workers' token is cancelled, then the last word on every member still
\* held is said under the gate.
Stop ==
  /\ s.owner = "stopping"
  /\ s' = [s EXCEPT !.stop = TRUE,
             !.owner = IF s.outcome # "disconnected" \/ s.crashed THEN "invalidating" ELSE "draining"]
Invalidate ==
  /\ s.owner = "invalidating" /\ s.gate = None
  /\ s' = [s EXCEPT !.owner = "draining", !.seen = [m \in Members |-> IF m \in s.ledger THEN "rejected" ELSE @[m]]]
Drain ==
  /\ s.owner = "draining" /\ \A m \in Members : At(m, "done")
  /\ LET crashed == s.crashed \/ \E m \in Members \ s.joined : s.w[m].exit = "panicked" IN
     s' = [s EXCEPT !.owner = "exited", !.joined = Members,
             !.result = IF crashed THEN "error" ELSE IF s.token THEN "disconnected" ELSE s.outcome]
\* The caller consumes what is left of the ledger (GatewaySessions::logout).
Logout ==
  /\ s.owner = "exited" /\ s.ledger # {}
  /\ s' = [s EXCEPT !.ledger = {}, !.logouts = [m \in Members |-> IF m \in s.ledger THEN @[m] + 1 ELSE @[m]]]

Stutter == UNCHANGED s
Next ==
  \/ \E m \in Members : Work(m) \/ Join(m)
  \/ Cancel \/ NetworkChange \/ Heard \/ Moved \/ LoggedOut \/ Stop \/ Invalidate \/ Drain \/ Logout
  \/ Stutter

\* Every session has one logout, sent when its worker makes no further request
\* (workers borrow members, the ledger is consumed after they joined). Once the
\* owner said that the sessions ended, no worker's status is heard over it. A
\* report is noted only if the gateway took it. The result names a cause that
\* is there, and a disconnect asked for before the workers were joined wins.
MembersSettled ==
  /\ \A m \in Members :
       /\ s.logouts[m] = IF m \in s.ledger THEN 0 ELSE 1
       /\ s.logouts[m] > 0 => At(m, "done")
       /\ s.w[m].exit = "invalidCookie" => m \in s.told
       /\ s.w[m].exit = "authorizationRevoked" => m \in s.denied
       /\ m \in s.told /\ At(m, "done") => s.w[m].exit \in {"invalidCookie", "panicked"}
  /\ s.noted \subseteq s.accepted
  /\ (s.owner \in {"draining", "exited"} /\ (s.outcome # "disconnected" \/ s.crashed)) =>
       \A m \in Members : s.seen[m] = "rejected"
  /\ s.outcome = "allMembersFailed" => \A m \in Members : s.w[m].exit = "rejected" /\ s.logouts[m] = 1
  /\ s.owner = "exited" =>
       /\ s.token /\ s.result # "error" => s.result = "disconnected"
       /\ s.result = "disconnected" => s.token
       /\ s.result \in Terminal => s.monitor # None \/ \E m \in Members : s.w[m].exit = s.result
=============================================================================
