---------------------------- MODULE VpnOwnership ----------------------------
(***************************************************************************)
(* What the connection lifecycle of the service promises, without its      *)
(* queue, actor, tokens and workers: one slot, and for every attempt the   *)
(* party that owes the gateways a logout. A slot is given back only when   *)
(* the service owes nothing for the attempt and no tunnel runs; only then  *)
(* may waiting callers be told that the attempt is over. VpnTask           *)
(* implements this specification.                                          *)
(***************************************************************************)
CONSTANTS Attempt, None

VARIABLES
  slot,     \* the admitted attempt, or None
  ledger,   \* who owes the logout of an attempt's gateway authentication
  running,  \* attempts with a running native tunnel
  done      \* attempts whose waiters were told that they are over

vars == <<slot, ledger, running, done>>

Init ==
  /\ slot = None
  /\ ledger = [a \in Attempt |-> "none"]
  /\ running = {}
  /\ done = [a \in Attempt |-> FALSE]

Admit(a) ==
  /\ slot = None /\ ledger[a] = "none"
  /\ slot' = a
  /\ ledger' = [ledger EXCEPT ![a] = "client"]
  /\ UNCHANGED <<running, done>>

Accept(a) ==
  /\ slot = a /\ ledger[a] = "client"
  /\ ledger' = [ledger EXCEPT ![a] = "service"]
  /\ UNCHANGED <<slot, running, done>>

LogOut(a) ==
  /\ slot = a /\ ledger[a] = "service"
  /\ ledger' = [ledger EXCEPT ![a] = "loggedOut"]
  /\ UNCHANGED <<slot, running, done>>

\* The native tunnel starts and takes the logout over
HandOver(a) ==
  /\ slot = a /\ ledger[a] = "service" /\ running = {}
  /\ ledger' = [ledger EXCEPT ![a] = "native"]
  /\ running' = {a}
  /\ UNCHANGED <<slot, done>>

TunnelOver(a) ==
  /\ slot = a /\ a \in running
  /\ running' = running \ {a}
  /\ UNCHANGED <<slot, ledger, done>>

\* The slot is free again; the waiters are told at once or a little later
Release(a) ==
  /\ slot = a /\ ledger[a] # "service" /\ running = {}
  /\ slot' = None
  /\ done' \in {done, [done EXCEPT ![a] = TRUE]}
  /\ UNCHANGED <<ledger, running>>

Announce(a) ==
  /\ slot # a /\ ledger[a] \in {"client", "native", "loggedOut"} /\ a \notin running
  /\ done' = [done EXCEPT ![a] = TRUE]
  /\ UNCHANGED <<slot, ledger, running>>

Next ==
  \E a \in Attempt :
    \/ Admit(a) \/ Accept(a) \/ LogOut(a) \/ HandOver(a) \/ TunnelOver(a)
    \/ Release(a) \/ Announce(a)

Spec == Init /\ [][Next]_vars
=============================================================================
