-------------------------- MODULE PhysicalNetwork --------------------------
(***************************************************************************)
(* The physical network of a non-tunnel session                              *)
(* (crates/gpapi/src/session/desktop/network): the client captures it, binds *)
(* the peer it authenticated to one interface and validates the binding      *)
(* (gateway_sessions.rs bind_non_tunnel); the service captures it again,     *)
(* validates the binding it was handed and then watches. The network may     *)
(* change between any two steps.                                             *)
(*                                                                          *)
(* A capture is the network itself: interfaces, routes and resolvers. A      *)
(* fingerprint is that of one network only, and the kind of a device changes *)
(* with its identity.                                                        *)
(***************************************************************************)
EXTENDS Integers, Sequences, FiniteSets, SequencesExt

CONSTANTS MaxChanges, None

VARIABLE s

V4 == {"a4", "b4", "t4", "g4", "lo4"}
LinkLocal == {"l6", "gl6"}
Loopback == {"lo4"}

Ethernet(index, v4, v6) == [index |-> index, physical |-> TRUE, v4 |-> v4, v6 |-> v6]
Wired == Ethernet(1, <<"a4">>, <<"l6", "a6">>)
Net(interfaces, v4, v6, resolvers) == [interfaces |-> interfaces, v4 |-> v4, v6 |-> v6, resolvers |-> resolvers]
\* Another address, a route through a tunnel, an address on two interfaces, a
\* network of link-local addresses, and no usable resolver.
Networks ==
  {Net({Wired}, "a4", "a6", {[server |-> "g4", via |-> None]}),
   Net({Ethernet(1, <<"b4", "a4">>, <<"a6">>)}, "b4", "a6", {[server |-> "g4", via |-> 1]}),
   Net({Wired, [index |-> 2, physical |-> FALSE, v4 |-> <<"t4">>, v6 |-> <<>>]}, "t4", "a6", {[server |-> "g6", via |-> None]}),
   Net({Wired, Ethernet(2, <<"a4">>, <<"l6">>)}, "a4", "a6", {[server |-> "gl6", via |-> 2]}),
   Net({Ethernet(1, <<>>, <<"l6">>)}, None, "l6", {[server |-> "gl6", via |-> 1]}),
   Net({Wired}, "a4", "a6", {[server |-> "lo4", via |-> None]}),
   Net({Wired}, "a4", "a6", {})}

Endpoints == {[ip |-> "g4", scope |-> 0], [ip |-> "g6", scope |-> 0], [ip |-> "gl6", scope |-> 1]}

\* The source that the kernel gives a socket connected to endpoint (external).
Route(net, endpoint) ==
  CASE endpoint.ip \in V4 -> IF net.v4 = None THEN None ELSE [ip |-> net.v4, scope |-> 0]
    [] endpoint.ip \in LinkLocal -> [ip |-> "l6", scope |-> endpoint.scope]
    [] OTHER -> [ip |-> net.v6, scope |-> 0]

Holds(interface, ip) == ip \in Range(interface.v4) \cup Range(interface.v6)

\* The one interface, a physical one, that holds the source.
PhysicalInterfaceForSource(interfaces, source, endpoint) ==
  LET scopes == {source.scope, endpoint.scope} \ {0}
      matches == {i \in interfaces : scopes \subseteq {i.index} /\ Holds(i, source.ip)}
      found == {i \in matches : i.physical} IN
  IF Cardinality(scopes) > 1 \/ source.ip \in Loopback \/ Cardinality(matches) # 1 \/ found = {} THEN None
  ELSE CHOOSE i \in found : TRUE

Public(ip) == ip \notin LinkLocal \cup Loopback
FirstPublic(addresses) ==
  LET usable == SelectSeq(addresses, Public) IN IF usable = <<>> THEN None ELSE Head(usable)

Scoped(address, index) == IF address.ip \in LinkLocal /\ address.scope = 0 THEN [address EXCEPT !.scope = index] ELSE address

\* GatewayBinding::new
BindingLegal(b) ==
  /\ (b.endpoint.ip \in V4) = (b.source.ip \in V4)
  /\ b.index # 0
  /\ \A a \in {b.endpoint, b.source} :
       /\ a.scope \in {0, b.index}
       /\ a.ip \in LinkLocal => a.scope = b.index
  /\ b.source.ip = IF b.source.ip \in V4 THEN b.ipv4 ELSE b.ipv6

\* resolve_binding after the resolution: the route is of the network as it is
\* now, the interfaces are the captured ones.
ResolveBinding(captured, live, endpoint, disable) ==
  LET source == Route(live, endpoint)
      interface == IF source = None THEN None ELSE PhysicalInterfaceForSource(captured.interfaces, source, endpoint)
      binding ==
        [endpoint |-> endpoint, source |-> Scoped(source, interface.index), index |-> interface.index,
         ipv4 |-> IF source.ip \in V4 THEN source.ip ELSE FirstPublic(interface.v4),
         ipv6 |-> IF disable THEN None ELSE IF source.ip \notin V4 THEN source.ip ELSE FirstPublic(interface.v6),
         network |-> captured] IN
  IF (disable /\ endpoint.ip \notin V4) \/ interface = None THEN None
  ELSE IF BindingLegal(binding) THEN binding ELSE None

\* resolver_endpoint and the socket of validate_internal, for one server.
ResolverEndpoint(r) ==
  IF r.server \in LinkLocal THEN [ip |-> r.server, scope |-> IF r.via = None THEN 0 ELSE r.via]
  ELSE [ip |-> r.server, scope |-> 0]
ResolverSound(captured, live, r) ==
  LET endpoint == ResolverEndpoint(r)
      source == Route(live, endpoint)
      interface == IF source = None THEN None ELSE PhysicalInterfaceForSource(captured.interfaces, source, endpoint) IN
  /\ endpoint.ip \notin Loopback
  /\ interface # None
  /\ r.via # None => interface.index = r.via

\* The part of validate_binding that reads the capture.
BindingPresent(captured, b) ==
  /\ b.network = captured
  /\ \E i \in captured.interfaces :
       /\ i.index = b.index
       /\ b.ipv4 # None => b.ipv4 \in Range(i.v4)
       /\ b.ipv6 # None => b.ipv6 \in Range(i.v6)
  /\ PhysicalInterfaceForSource(captured.interfaces, b.source, b.endpoint) # None

\* The server is a name or a literal address. The peer is the address the login
\* was answered from, unknown behind a proxy; a redirected login has another
\* origin.
Init ==
  \E peer \in Endpoints \cup {None}, literal \in Endpoints \cup {None}, redirected, disable, detect \in BOOLEAN, net \in Networks :
    s = [peer |-> peer, literal |-> literal, redirected |-> redirected, disable |-> disable, detect |-> detect,
         net |-> net, changes |-> 0, steady |-> TRUE, cancelled |-> FALSE,
         side |-> "client", pc |-> "start", capture |-> None, seen |-> None, binding |-> None]

\* The environment: another network, a cancellation.
Change ==
  /\ s.changes < MaxChanges /\ s.pc # "failed"
  /\ \E net \in Networks \ {s.net} : s' = [s EXCEPT !.net = net, !.changes = @ + 1, !.steady = FALSE]
Cancel ==
  /\ ~s.cancelled /\ s.pc # "failed"
  /\ s' = [s EXCEPT !.cancelled = TRUE]

\* The control of a capture, an inspection and a helper process.
Check == ~s.cancelled

Fail == [s EXCEPT !.pc = "failed"]
Go(pc) == [s EXCEPT !.pc = pc]

\* bind_non_tunnel before the first capture.
Start ==
  /\ s.pc = "start"
  /\ s' = IF s.redirected \/ s.peer = None THEN Fail ELSE Go("capture")

\* capture_controlled; a native collector that fails or times out is a failure.
Capture ==
  /\ s.pc = "capture"
  /\ \/ s' = Fail
     \/ /\ Check
        /\ s' = [Go(IF s.side = "client" THEN "current" ELSE "validate") EXCEPT !.capture = s.net, !.steady = TRUE]

\* ensure_current: inspect, and compare with the capture.
Inspect == s.net
EnsureCurrent(pc, next) ==
  /\ s.pc = pc
  /\ \/ s' = [Fail EXCEPT !.seen = Inspect]
     \/ /\ Check /\ Inspect = s.capture
        /\ s' = [next EXCEPT !.seen = Inspect]

\* The helper that resolves a name: no address of a family that is off.
Names(endpoint) == {{endpoint}, Endpoints, Endpoints \ {endpoint}}
Lookup(answers) == {a \in answers : s.disable => a.ip \in V4}
Resolve ==
  /\ s.pc = "resolve"
  /\ \E answers \in IF s.literal = None THEN {Lookup(names) : names \in Names(s.peer)} ELSE {{s.literal}} :
       LET binding == ResolveBinding(s.capture, s.net, s.peer, s.disable) IN
       s' = IF ~Check \/ s.peer \notin answers \/ binding = None THEN Fail
            ELSE [Go("recheck") EXCEPT !.binding = binding]

Resolvers ==
  /\ s.pc = "resolvers"
  /\ s' = IF s.capture.resolvers # {} /\ \A r \in s.capture.resolvers : ResolverSound(s.capture, s.net, r)
          THEN Go(IF s.detect THEN "detect" ELSE "last") ELSE Fail
Detect ==
  /\ s.pc = "detect"
  /\ \/ s' = Fail
     \/ Check /\ s' = Go("last")

\* validate_server, of bound_client and of ConnectionPlan::new.
ValidateServer(b) == s.literal \in {None, b.endpoint}

\* validate_internal ended well: the client builds its bound_client and hands
\* the binding over in a plan, the service captures the network for itself, and
\* then validates again and again.
Validated ==
  IF ~ValidateServer(s.binding) THEN Fail ELSE Go(IF s.side = "client" THEN "bound" ELSE "watching")
HandOver ==
  /\ s.pc = "bound"
  /\ s' = IF ValidateServer(s.binding) THEN [Go("capture") EXCEPT !.side = "service", !.seen = None] ELSE Fail
\* wait_for_change and validate_network
Watch ==
  /\ s.pc = "watching"
  /\ s' = Go("internal")

Stutter == UNCHANGED s
Next ==
  \/ Start \/ Capture \/ Resolve \/ Resolvers \/ Detect \/ HandOver \/ Watch \/ Change \/ Cancel
  \/ EnsureCurrent("current", Go("resolve"))
  \/ EnsureCurrent("recheck", Go("validate"))
  \/ EnsureCurrent("validate", IF BindingPresent(s.capture, s.binding) THEN Go("internal") ELSE Fail)
  \/ EnsureCurrent("internal", Go("resolvers"))
  \/ EnsureCurrent("last", Validated)
  \/ Stutter

\* What holds of a binding that was accepted: it is to the peer that answered the
\* login, from the one interface of the captured network that holds its addresses,
\* a physical one, with no address of a family that is off.  The last look at the
\* network found the captured one; service and client captured the same.  When the
\* network did not change on the way, the source is the one it routes
\* (network/mod.rs).
BindingHolds ==
  /\ (s.pc \in {"bound", "watching"}) =>
       /\ s.binding.endpoint = s.peer
       /\ s.literal \in {None, s.peer}
       /\ s.disable => s.binding.ipv6 = None /\ s.peer.ip \in V4
       /\ s.seen = s.capture /\ s.binding.network = s.capture
       /\ \E i \in s.capture.interfaces :
            (\A j \in s.capture.interfaces \ {i} : Holds(j, s.binding.source.ip) => s.binding.source.scope = i.index)
            /\ i.physical /\ i.index = s.binding.index /\ Holds(i, s.binding.source.ip)
            /\ \A ip \in {s.binding.ipv4, s.binding.ipv6} \ {None} : Holds(i, ip)
       /\ \A r \in s.capture.resolvers : r.server \notin Loopback
  /\ (s.pc = "bound" /\ s.steady) =>
       s.binding.source = Scoped(Route(s.net, s.peer), s.binding.index)
=============================================================================
