-------------------------- MODULE ConnectAdmission --------------------------
(***************************************************************************)
(* One Connect request in gpservice, from its arrival to its answer         *)
(* (request_dispatcher.rs, vpn_task/preparation.rs, ConnectReservation):    *)
(* checked, reserved, prepared in the background and committed, while the   *)
(* attachment may be lost, the session revoked and the attempt stopped.     *)
(***************************************************************************)
EXTENDS Sequences

VARIABLE s

\* The request: its gateways' modes, and what it asks for beside.  custom is
\* the part of it that a broker may refuse; a v6 binding is one it disabled.
Plans == {<<"T">>, <<"N">>, <<"T", "T">>, <<"N", "N">>, <<"T", "N">>}
Requests == [plan : Plans, custom : {"none", "script", "path"}, scriptTun : BOOLEAN, binding : {"ok", "v6", "none"}]

Init ==
  \E r \in Requests, brokered \in BOOLEAN, slot \in {"free", "other"} :
    s = [req |-> r, brokered |-> brokered, pc |-> "arrived", slot |-> slot, cancelled |-> FALSE, stop |-> FALSE,
         attached |-> TRUE, active |-> TRUE, closed |-> FALSE, network |-> "same", owner |-> "client"]

NonTunnel == \A i \in DOMAIN s.req.plan : s.req.plan[i] = "N"
Settled == s.pc \in {"accepted", "rejected"}

\* A rejection drops the reservation: the token is cancelled, the slot free.
Reject ==
  s' = [s EXCEPT !.pc = "rejected", !.slot = IF @ = "ours" THEN "free" ELSE @,
          !.cancelled = @ \/ s.slot = "ours"]
Step(ok, pc) == IF ok THEN s' = [s EXCEPT !.pc = pc] ELSE Reject

\* validate_connect_request, then the redaction of what must not be logged.
Validate == s.pc = "arrived" /\ Step(s.brokered => s.req.custom = "none", "valid")
Redact == s.pc = "valid" /\ \E ok \in BOOLEAN : Step(ok, "redacted")
\* reserve_connection around reserve_connect.
Reserve ==
  /\ s.pc = "redacted"
  /\ IF s.active /\ s.attached /\ ~s.closed /\ s.slot = "free"
     THEN s' = [s EXCEPT !.pc = "reserved", !.slot = "ours"]
     ELSE Reject
FindReport == s.pc = "reserved" /\ \E known \in BOOLEAN : Step(known, "prepare")

\* prepare_connection: the plan, then the blocking setup between two checks of
\* the token, then the bindings against the captured network.
PlanLegal ==
  /\ s.req.scriptTun => s.req.plan = <<"T">>
  /\ NonTunnel \/ Len(s.req.plan) = 1
  /\ NonTunnel => s.req.binding = "ok"
CheckPlan == s.pc = "prepare" /\ Step(PlanLegal, "setup")
IdentityAllowed == (s.brokered \/ NonTunnel) => s.req.custom # "path"
Setup == s.pc = "setup" /\ \E ok \in BOOLEAN : Step(ok /\ ~s.cancelled /\ IdentityAllowed, "captured")
SetupDone == s.pc = "captured" /\ Step(~s.cancelled, "bind")
\* The network is compared with its capture last, and the token stops both.
Bind == s.pc = "bind" /\ \E ok \in BOOLEAN : Step(NonTunnel => ok /\ ~s.cancelled, "current")
EnsureCurrent == s.pc = "current" /\ Step(NonTunnel => s.network = "same" /\ ~s.cancelled, "commit")


\* commit_connection around ConnectReservation::commit; the queue may be full.
MayCommit ==
  /\ s.active /\ (NonTunnel => s.attached)
  /\ ~s.closed /\ s.slot = "ours" /\ ~s.stop /\ ~s.cancelled
Commit ==
  /\ s.pc = "commit"
  /\ \E room \in BOOLEAN :
       IF MayCommit /\ room THEN s' = [s EXCEPT !.pc = "accepted", !.owner = "service", !.slot = "pending"]
       ELSE Reject

\* Losing the attachment cancels a non-tunnel preparation; so does revoking.
Loses(f) == s' = [f EXCEPT !.attached = FALSE, !.cancelled = @ \/ (NonTunnel /\ s.slot = "ours")]
Detach == ~Settled /\ s.attached /\ Loses(s)
Revoke == ~Settled /\ s.active /\ Loses([s EXCEPT !.active = FALSE])
\* request_disconnect and the service's shutdown.
Disconnect == ~Settled /\ s.slot = "ours" /\ ~s.stop /\ s' = [s EXCEPT !.stop = TRUE, !.cancelled = TRUE]
Close == ~Settled /\ ~s.closed /\ s' = [s EXCEPT !.closed = TRUE, !.stop = @ \/ s.slot = "ours", !.cancelled = @ \/ s.slot = "ours"]
NetworkMoves == ~Settled /\ s.network = "same" /\ s' = [s EXCEPT !.network = "moved"]

Dispatch ==
  \/ Validate \/ Redact \/ Reserve \/ FindReport \/ CheckPlan \/ Setup \/ SetupDone
  \/ Bind \/ EnsureCurrent \/ Commit
Next == Dispatch \/ Detach \/ Revoke \/ Disconnect \/ Close \/ NetworkMoves

\* Exactly one side must log the gateways out: a request that is refused, at
\* whatever stage, leaves that to the client and the slot to the next request;
\* one that is accepted was stopped by nobody, and is of a session that is
\* still entitled to it.  No path reaches the service's root from a broker.
AdmissionOwned ==
  /\ s.pc = "rejected" => s.owner = "client" /\ s.slot # "ours"
  /\ s.pc = "accepted" =>
       /\ s.owner = "service" /\ s.slot = "pending" /\ ~s.stop /\ ~s.cancelled /\ s.active
       /\ NonTunnel => s.attached
       /\ NonTunnel \/ s.req.plan = <<"T">>
       /\ s.brokered => s.req.custom = "none"
=============================================================================
