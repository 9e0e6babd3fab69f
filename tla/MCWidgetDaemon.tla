--------------------------- MODULE MCWidgetDaemon ---------------------------
(***************************************************************************)
(* Two instances of WidgetDaemon in one run: the constants of the           *)
(* configuration (two connect flows, a link that holds), and one flow over  *)
(* a link that may be lost.                                                 *)
(***************************************************************************)
EXTENDS WidgetDaemon

VARIABLE part

Lossy == INSTANCE WidgetDaemon WITH MaxFlows <- 1, MaxDrops <- 1, AutoConnect <- TRUE, AutoResume <- TRUE

mcvars == <<vars, part>>
In(p) == part = p /\ part' = part

MCInit == (part = "steady" /\ Init) \/ (part = "lossy" /\ Lossy!Init)
MCNext == (In("steady") /\ Next) \/ (In("lossy") /\ Lossy!Next)

MCFairness ==
  /\ WF_mcvars(In("steady") /\ ~exited /\ Notified) /\ WF_mcvars(In("lossy") /\ ~exited /\ Lossy!Notified)
  /\ WF_mcvars(In("steady") /\ ~exited /\ FlowMessages) /\ WF_mcvars(In("lossy") /\ ~exited /\ Lossy!FlowMessages)
  /\ WF_mcvars(In("steady") /\ ~exited /\ TimerFires) /\ WF_mcvars(In("lossy") /\ ~exited /\ Lossy!TimerFires)
  /\ WF_mcvars(In("steady") /\ ~exited /\ ServiceTakes) /\ WF_mcvars(In("lossy") /\ ~exited /\ Lossy!ServiceTakes)
  /\ WF_mcvars(In("lossy") /\ ~exited /\ Lossy!LinkBack)
  /\ WF_mcvars(In("steady") /\ ~exited /\ svc.vpn = "Disconnecting" /\ ServiceMoves)
  /\ WF_mcvars(In("lossy") /\ ~exited /\ svc.vpn = "Disconnecting" /\ Lossy!ServiceMoves)
  /\ WF_mcvars(In("steady") /\ ~exited /\ \E q \in spawned : SpawnedSend(q))
  /\ WF_mcvars(In("lossy") /\ ~exited /\ \E q \in spawned : Lossy!SpawnedSend(q))
  /\ \A f \in Flows : WF_mcvars(In("steady") /\ ~exited /\ FlowOwed(f))
  /\ WF_mcvars(In("lossy") /\ ~exited /\ Lossy!FlowOwed(1))
MCSpec == MCInit /\ [][MCNext]_mcvars /\ MCFairness
=============================================================================
