----------------------------- MODULE MCWsServer -----------------------------
(***************************************************************************)
(* Instances of WsServer for TLC.  A connection that is alone sees MaxVpn   *)
(* states; while two connections are there, the states stop at PairVpn.     *)
(***************************************************************************)
EXTENDS WsServer, TLC

CONSTANT PairVpn  \* bound: VPN states published with two connections

Bounded == vpn <= PairVpn \/ Cardinality({c \in Conns : task[c] # "idle"}) <= 1
EventsNext == WsNext /\ Bounded'
EventsSpec == WsInit /\ [][EventsNext]_wsVars

\* For liveness: in a behaviour the VPN state changes, or a tunnel's state does
OneSource == vpn = 0 \/ \A b \in Bindings : tunnelState[b] = 0
LiveNext == WsNext /\ OneSource'
LiveSpec == WsInit /\ [][LiveNext]_wsVars /\ WsFairness

Symmetry == Permutations(Conns)
=============================================================================
