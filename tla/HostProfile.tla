----------------------------- MODULE HostProfile -----------------------------
(***************************************************************************)
(* The identity of the machine and the profile shown to the servers         *)
(* (crates/gpapi/src/os_profile): a login collects it as well as it can,     *)
(* a HIP report strictly, from the same sources, in another process and      *)
(* with a budget of its own (gpclient hip.rs, gpservice hip_source.rs).      *)
(*                                                                          *)
(* A value is a sequence of tags: Uuid and the serial and MAC formats are    *)
(* constructors, so that equal values are equal strings.                     *)
(***************************************************************************)
EXTENDS Integers, Sequences, TLC

CONSTANT None

VARIABLE s

Runtimes == {"Linux", "Mac", "Windows"}
ClientOs == Runtimes \cup {"iOS"}

Empty == <<>>
Hostname == <<"hostname">>
OrElse(value, fallback) == IF value = None THEN fallback ELSE value
NonEmpty(value, fallback) == IF value = Empty THEN fallback ELSE value

\* derive_uuid_from_seed and the values that are made of its digits.
Uuid(seed, parts) == <<"uuid">> \o seed \o parts
Vmware(uuid) == <<"vmware">> \o uuid
Mac(sep, digits) == <<"mac", sep>> \o digits
IsUuid(value) == value # Empty /\ value[1] = "uuid"
Native(name) == <<"native", name>>
NativeUuid == Uuid(<<"machine">>, <<"dmi">>)
NativeMac == Mac(":", <<"hardware">>)

\* replace('-', ":") and its inverse, on a MAC address and on any other value.
Separated(sep, value) ==
  IF value # Empty /\ value[1] = "mac" THEN [value EXCEPT ![2] = sep]
  ELSE IF IsUuid(value) /\ sep = ":" THEN <<"colons">> \o value ELSE value

FallbackHostId == Uuid(Hostname, <<"runtime-host-id">>)
DeriveSerialNumber(id) == Vmware(IF IsUuid(id) THEN id ELSE Uuid(id, <<"runtime-serialno">>))
DeriveMacAddress(id) == Mac(":", Uuid(id, <<"runtime-mac">>))
PrimaryMac(m) == IF m.mac THEN NativeMac ELSE None

IdentityFromParts(computer, id, serial, mac) ==
  LET hostId == NonEmpty(id, FallbackHostId) IN
  [computer |-> NonEmpty(computer, Hostname), hostId |-> hostId,
   serial |-> NonEmpty(serial, DeriveSerialNumber(hostId)),
   mac |-> IF mac = Empty THEN DeriveMacAddress(hostId) ELSE Separated(":", mac)]

ResolveHostId(override, collected) == IF override \in {None, Empty} THEN collected ELSE override

\* RuntimeNativeHostIdentity::collect of the three platforms. m says which of
\* the machine's sources answer: the first and the second of the host id, the
\* serial number, the address of the primary interface, the name macOS gives it.
CollectUnix(m, override) ==
  LET uuid == IF m.first THEN NativeUuid ELSE None IN
  [id |-> ResolveHostId(override, IF m.first THEN uuid ELSE Uuid(IF m.second THEN Native("machine-id") ELSE Hostname, <<>>)),
   serial |-> IF m.serial THEN Native("serial") ELSE IF m.first THEN Vmware(uuid) ELSE None,
   computer |-> Hostname, mac |-> PrimaryMac(m)]
CollectMacos(m, override) ==
  LET mac == IF m.first \/ m.second THEN Mac(":", <<"builtin">>) ELSE PrimaryMac(m) IN
  [id |-> ResolveHostId(override, OrElse(mac, DeriveMacAddress(Hostname))),
   serial |-> IF m.serial THEN Native("serial") ELSE None,
   computer |-> IF m.name THEN Native("computer-name") ELSE Hostname, mac |-> mac]
CollectWindows(m, override) ==
  [id |-> ResolveHostId(override, IF m.first THEN NativeUuid ELSE IF m.second THEN Native("machine-guid") ELSE Hostname),
   serial |-> IF m.serial THEN Native("serial") ELSE None, computer |-> Hostname, mac |-> PrimaryMac(m)]
IntoHostIdentity(n) ==
  LET id == NonEmpty(n.id, FallbackHostId) IN
  IdentityFromParts(n.computer, id, OrElse(n.serial, DeriveSerialNumber(id)), OrElse(n.mac, DeriveMacAddress(id)))
Collect(os, m, override) ==
  IntoHostIdentity(CASE os = "Linux" -> CollectUnix(m, override)
                     [] os = "Mac" -> CollectMacos(m, override)
                     [] os = "Windows" -> CollectWindows(m, override))
DefaultWithHostId(m, override) ==
  IdentityFromParts(Hostname, ResolveHostId(override, FallbackHostId), Empty, OrElse(PrimaryMac(m), Empty))

\* project: the host's identity as the client system shows it; another system
\* than the runtime's shows values derived from the host id alone.
Project(os, client, identity, override) ==
  LET sep == IF client \in {"Linux", "Windows"} THEN "-" ELSE ":"
      derived == Mac(sep, Uuid(identity.hostId, <<client, "mac">>))
      uuid == Uuid(identity.hostId, <<client, "host-id">>) IN
  [computer |-> NonEmpty(OrElse(override, Empty), identity.computer)] @@
  CASE client = os \/ client = "iOS" ->
         [hostId |-> IF client = "Mac" THEN Separated(":", identity.hostId) ELSE identity.hostId,
          serial |-> identity.serial, mac |-> Separated(sep, identity.mac)]
    [] client = "Linux" -> [hostId |-> uuid, serial |-> Vmware(uuid), mac |-> derived]
    [] client = "Windows" -> [hostId |-> uuid, serial |-> Vmware(Uuid(identity.hostId, <<client, "serialno">>)), mac |-> derived]
    [] client = "Mac" -> [hostId |-> derived, serial |-> Uuid(identity.hostId, <<client, "serialno">>), mac |-> derived]

Default(client) == <<"default", client>>
\* versions and fallback_versions: only macOS runs a command for its version.
Versions(os) == <<"version", os>>
FallbackVersions(os) == IF os = "Mac" THEN Default(os) ELSE Versions(os)

\* OsProfileBuilder::build: observed versions for the native system only, and
\* an explicit version before them.
Build(os, client, identity, name, observed, osVersion) ==
  Project(os, client, identity, name) @@
  [identity |-> identity, os |-> OrElse(osVersion, IF client = os THEN observed ELSE Default(client))]

Machines == [first : BOOLEAN, second : BOOLEAN, serial : BOOLEAN, mac : BOOLEAN, name : BOOLEAN]

\* way: a login of the command line, or of the widget with the identity that
\* the service collected; base is that identity. got: an identity collected,
\* while the versions are not. stop: the budget of the current collection ended.
Init ==
  \E os \in Runtimes, client \in ClientOs, m \in Machines, way \in {"cli", "service"},
     override \in {None, Empty, <<"given">>}, name \in {None, Empty, <<"name">>} :
    /\ way = "service" => override = None /\ name = None
    /\ s = [os |-> os, client |-> client, m |-> m, way |-> way, override |-> override, name |-> name,
            pc |-> IF way = "cli" THEN "login" ELSE "base", stop |-> FALSE, base |-> None, got |-> None, login |-> None, report |-> None]

OutOfTime == s.pc # "done" /\ ~s.stop /\ s' = [s EXCEPT !.stop = TRUE]

\* collect_identity of the service, once, for every client (collect_with_host_id).
CollectIdentity ==
  /\ s.pc = "base"
  /\ s' = [s EXCEPT !.pc = "login", !.stop = FALSE,
              !.base = IF s.stop THEN DefaultWithHostId(s.m, None) ELSE Collect(s.os, s.m, None)]

\* collect_profile_with_control: the identity, then the versions, with a check
\* after each; collect_profile starts again from the fallbacks.
Supplied ==
  CASE s.pc = "login" -> s.base
    [] s.way = "cli" -> None
    [] OTHER -> LET i == s.login.identity IN IdentityFromParts(i.computer, i.hostId, i.serial, i.mac)
Override == IF s.pc = "login" THEN s.override ELSE s.login.identity.hostId
Name == IF s.pc = "login" THEN s.name ELSE None
Negotiated == IF s.pc = "login" THEN None ELSE s.login.os
Put(profile) ==
  IF s.pc = "login" THEN [s EXCEPT !.login = profile, !.pc = "report", !.got = None, !.stop = FALSE]
                    ELSE [s EXCEPT !.report = profile, !.pc = "done", !.got = None]
Identified ==
  /\ s.pc \in {"login", "report"} /\ s.got = None /\ ~s.stop
  /\ s' = [s EXCEPT !.got = OrElse(Supplied, Collect(s.os, s.m, Override))]
Versioned ==
  /\ s.pc \in {"login", "report"} /\ s.got # None /\ ~s.stop
  /\ s' = Put(Build(s.os, s.client, s.got, Name, Versions(s.os), Negotiated))
\* The best-effort login goes on; the strict report does not.
LoginUnavailable ==
  /\ s.pc = "login" /\ s.stop
  /\ s' = Put(Build(s.os, s.client, OrElse(Supplied, DefaultWithHostId(s.m, Override)), Name, FallbackVersions(s.os), None))
ReportFails == s.pc = "report" /\ s.stop /\ s' = [s EXCEPT !.pc = "done", !.got = None]

Stutter == s.pc = "done" /\ UNCHANGED s
Next ==
  \/ OutOfTime \/ CollectIdentity \/ Identified \/ Versioned \/ LoginUnavailable \/ ReportFails
  \/ Stutter
Spec == Init /\ [][Next]_s

\* What a profile shows of the machine's own identifiers.
Own == {NativeUuid, Native("machine-id"), Native("machine-guid"), Native("serial"), <<"given">>}
         \cup {Mac(sep, digits) : sep \in {"-", ":"}, digits \in {<<"hardware">>, <<"builtin">>}}
Shown(profile) == {profile.hostId, profile.serial, profile.mac}

\* The report names the host id and the system that the login named, whatever
\* could not be collected the first or the second time (gpwidget build_os_profile:
\* the gateway sees the same host-id regardless of which component
\* authenticates); a login always names all of its identifiers, and a profile of
\* another desktop system shows none of the machine's own.
SameHost ==
  /\ s.report # None =>
       /\ s.report.hostId = s.login.hostId /\ s.report.os = s.login.os
       /\ s.way = "service" => s.report = s.login
  /\ s.login # None =>
       /\ Empty \notin Shown(s.login) \cup {s.login.computer, s.login.os}
       /\ s.client \notin {s.os, "iOS"} => Shown(s.login) \cap Own = {}
=============================================================================
