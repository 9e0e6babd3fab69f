------------------------------ MODULE HipReport -----------------------------
(***************************************************************************)
(* HIP reports: how one is put together, and the products it names. Each   *)
(* is a specification of its own over s.                                   *)
(***************************************************************************)
EXTENDS Integers, Sequences, SequencesExt, FiniteSets

CONSTANTS
  MaxEdits, MaxSessions, MaxBytes, None

VARIABLE s

-----------------------------------------------------------------------------
(***************************************************************************)
(* The text of a HIP report (crates/gphip/src/lib.rs): a preview is          *)
(* generated, the user edits and stores it, and every connection refreshes   *)
(* its identity and session values before it is submitted.                   *)
(*                                                                          *)
(* A report is how often each element occurs and with which value, in the    *)
(* root and in each host-info entry. A value is a tag and the number of the   *)
(* session it comes from, or 0.                                               *)
(***************************************************************************)
ClientOs == {"Linux", "Windows", "Mac", "iOS"}
SessionFields == {"md5-sum", "user-name", "ip-address", "ipv6-address", "generate-time"}
TopFields == SessionFields \cup {"domain", "host-name", "host-id", "hip-report-version"}
HostFields == {"client-version", "os", "os-vendor", "domain", "host-name", "host-id"}

V(tag, n) == <<tag, n>>
Blank == V("", 0)

\* ReportContext: the values of session n, or of a preview (n = 0); a session
\* without IPv6 has no such address.
Context(n) ==
  IF n = 0 THEN [user |-> V("[available after connection]", 0), md5 |-> V("[available after connection]", 0),
                 ip |-> None, ip6 |-> None, domain |-> Blank]
  ELSE [user |-> V("user", n), md5 |-> V("md5", n), ip |-> V("ip", n),
        ip6 |-> IF n % 2 = 0 THEN V("ip6", n) ELSE None, domain |-> V("domain", n)]

OrBlank(value) == IF value = None THEN Blank ELSE value

\* collect_network_interface: the default interface, or the session's addresses.
CollectNetworkInterface(netdev, c) ==
  IF netdev THEN [name |-> "runtime", mac |-> "a:b", ip |-> V("local", 0), ip6 |-> None]
            ELSE [name |-> "unknown", mac |-> None, ip |-> c.ip, ip6 |-> c.ip6]
PlaceholderInterfaceFor(os, runtime) ==
  CASE os = "iOS" -> runtime.name [] os = "Linux" -> "enp1s0f0" [] os = "Mac" -> "en0" [] os = "Windows" -> "{derived}"
FormatMacFor(os, mac) == IF os = "Windows" /\ mac # None THEN "a-b" ELSE mac
AdaptPrimaryInterface(p, runtime) ==
  [runtime EXCEPT !.name = IF p.native THEN @ ELSE PlaceholderInterfaceFor(p.os, runtime), !.mac = FormatMacFor(p.os, @)]
ExtraInterfaces(p) ==
  IF p.os = "Windows" THEN <<[name |-> "{loopback}", mac |-> "", ip |-> V("127.0.0.1", 0), ip6 |-> V("::1", 0)]>> ELSE <<>>

\* collect_identity. The domain is the session's, and Linux reports have none.
CollectIdentity(p, netdev, c) ==
  [interfaces |-> <<AdaptPrimaryInterface(p, CollectNetworkInterface(netdev, c))>> \o ExtraInterfaces(p),
   domain |-> IF p.os = "Linux" THEN Blank ELSE c.domain]
DefaultIpv4(identity) == OrBlank(Head(identity.interfaces).ip)
DefaultIpv6(identity) == OrBlank(Head(identity.interfaces).ip6)

\* The fields that both a generated and a refreshed report are given.
TopValues(p, netdev, n) ==
  LET c == Context(n) identity == CollectIdentity(p, netdev, c) IN
  [f \in TopFields \ {"hip-report-version"} |->
     CASE f = "md5-sum" -> c.md5 [] f = "user-name" -> c.user [] f = "domain" -> identity.domain
       [] f = "host-name" -> V("computer", 0) [] f = "host-id" -> V("host-id", 0)
       [] f = "ip-address" -> DefaultIpv4(identity) [] f = "ipv6-address" -> DefaultIpv6(identity)
       [] f = "generate-time" -> V("time", n)]
HostValues(p, netdev, n) ==
  [f \in HostFields |->
     CASE f = "client-version" -> V("client", 0) [] f = "os" -> V("os", 0) [] f = "os-vendor" -> V("vendor", 0)
       [] f = "domain" -> CollectIdentity(p, netdev, Context(n)).domain
       [] f = "host-name" -> V("computer", 0) [] f = "host-id" -> V("host-id", 0)]

\* generate_report_with_control, through the template hip_report.xml.
Generate(p, netdev, n) ==
  [text |-> "plain", root |-> "hip-report", categories |-> 1, pad |-> 0,
   top |-> [f \in TopFields |-> IF f = "hip-report-version" THEN <<V("4", 0)>> ELSE <<TopValues(p, netdev, n)[f]>>],
   hosts |-> <<[f \in HostFields |-> <<HostValues(p, netdev, n)[f]>>]>>,
   interfaces |-> CollectIdentity(p, netdev, Context(n)).interfaces]

\* The length of a report: what the user added, and one for each value.
Size(xml) == xml.pad + Cardinality({f \in TopFields : xml.top[f] # <<>> /\ Head(xml.top[f]) # Blank})

Unique(element, f) == Len(element[f]) = 1
ValidateEditedReport(xml) ==
  /\ Size(xml) <= MaxBytes
  /\ xml.text \notin {"doctype", "entity", "latin1", "malformed"}
  /\ xml.root = "hip-report"
  /\ \A f \in TopFields : Unique(xml.top, f)
  /\ xml.categories = 1
  /\ Len(xml.hosts) = 1
  /\ \A f \in HostFields : Unique(Head(xml.hosts), f)

\* set_field writes the first element of that name.
SetField(element, f, value) == [element EXCEPT ![f] = <<value>> \o Tail(@)]
SetFields(element, values) == [f \in DOMAIN element |-> IF f \in DOMAIN values THEN SetField(element, f, values[f])[f] ELSE element[f]]

\* refresh_edited_report_with_control: the second validation refuses a report
\* that the session's values made too long.
Refreshed(xml, p, netdev, n) ==
  [xml EXCEPT !.top = SetFields(@, TopValues(p, netdev, n)), !.hosts[1] = SetFields(@, HostValues(p, netdev, n))]

ReportInit ==
  \E os \in ClientOs, native, netdev \in BOOLEAN :
    LET p == [os |-> os, native |-> native] IN
    s = [p |-> p, netdev |-> netdev, xml |-> Generate(p, netdev, 0), edits |-> 0, stored |-> FALSE, n |-> 0,
         sent |-> None, source |-> "none"]

\* The user's edits, to the text of the preview.
Replace(element, f, values) == [element EXCEPT ![f] = values]
Edits(xml) ==
  UNION {{[xml EXCEPT !.top = Replace(@, f, values)] :
             f \in TopFields, values \in {<<>>, <<V("edited", 0)>>, <<V("edited", 0), V("edited", 0)>>}},
         {IF xml.hosts = <<>> THEN xml ELSE [xml EXCEPT !.hosts[1] = Replace(@, f, values)] :
             f \in HostFields, values \in {<<>>, <<V("edited", 0)>>, <<V("edited", 0), V("edited", 0)>>}},
         {[xml EXCEPT !.hosts = @ \o @], [xml EXCEPT !.hosts = <<>>], [xml EXCEPT !.root = "other"], [xml EXCEPT !.pad = @ + 1]},
         {[xml EXCEPT !.categories = n] : n \in {0, 2}},
         {[xml EXCEPT !.text = t] : t \in {"doctype", "entity", "latin1", "malformed"}}}
Edit ==
  /\ ~s.stored /\ s.edits < MaxEdits
  /\ \E xml \in Edits(s.xml) : s' = [s EXCEPT !.xml = xml, !.edits = @ + 1]
Store == ~s.stored /\ s.edits > 0 /\ ValidateEditedReport(s.xml) /\ s' = [s EXCEPT !.stored = TRUE]

\* A new session, with the interface the machine has by then, and its report:
\* of the stored text, or generated.
Connect ==
  /\ s.n < MaxSessions
  /\ \E netdev \in BOOLEAN : s' = [s EXCEPT !.n = @ + 1, !.netdev = netdev, !.sent = None, !.source = "none"]
RefreshEditedReport ==
  /\ s.stored /\ s.n > 0 /\ s.source = "none"
  /\ LET xml == Refreshed(s.xml, s.p, s.netdev, s.n) IN
     s' = IF ValidateEditedReport(xml) THEN [s EXCEPT !.sent = xml, !.source = "edited"] ELSE [s EXCEPT !.source = "refused"]
GenerateReport ==
  /\ ~s.stored /\ s.edits = 0 /\ s.n > 0 /\ s.source = "none"
  /\ s' = [s EXCEPT !.sent = Generate(s.p, s.netdev, s.n), !.source = "generated"]

ReportStutter == UNCHANGED s
ReportNext == Edit \/ Store \/ Connect \/ RefreshEditedReport \/ GenerateReport \/ ReportStutter
Values(xml) == UNION {Range(xml.top[f]) : f \in TopFields} \cup UNION {Range(xml.hosts[i][f]) : i \in DOMAIN xml.hosts, f \in HostFields}

\* Whatever the user changed, a submitted report has each required element once,
\* agrees with the report that would be generated for this session in all that
\* identifies the machine and the session, and carries no value of an earlier
\* session; it fits the limit that its stored text had to fit, and a refreshed one
\* is otherwise that text.  Every generated report, the preview too, passes the
\* validation that its edited form must pass, so that an unchanged preview can be
\* stored (gphip lib.rs).
ReportsExact ==
  /\ s.sent # None =>
       LET fresh == Generate(s.p, s.netdev, s.n) IN
       /\ \A f \in TopFields \ {"hip-report-version"} : s.sent.top[f] = fresh.top[f]
       /\ s.sent.hosts = fresh.hosts
       /\ \A v \in Values(s.sent) : v[2] \in {0, s.n}
       /\ Size(s.sent) <= MaxBytes
       /\ s.source = "edited" =>
            /\ s.sent.top["hip-report-version"] = s.xml.top["hip-report-version"]
            /\ s.sent.interfaces = s.xml.interfaces /\ s.sent.pad = s.xml.pad
       /\ s.source = "generated" => ValidateEditedReport(s.sent)
  /\ s.edits = 0 => ValidateEditedReport(s.xml)

-----------------------------------------------------------------------------
(***************************************************************************)
(* The products a HIP report names (crates/gphip: lib.rs, sentinel_unix.rs,  *)
(* sentinel_macos.rs) and the commands that find them                        *)
(* (crates/gpapi/src/process/collection.rs): which file is run, and what a    *)
(* report says when a command is missing, fails, is interrupted or answers   *)
(* something else.                                                            *)
(***************************************************************************)
\* A command answers a version, yes or no, something else ("other"), or it is
\* not there, not executable or ends with a failure (None).
Commands ==
  [Linux |-> <<"mdatp", "clamscan", "onaccess", "ufw version", "ufw status", "sentinel version", "sentinel control", "sentinel policy">>,
   Mac |-> <<"sentinel status", "scan-on-write", "firewall enabled">>]
Versions == {"clamscan", "ufw version", "sentinel version"}
Answers(command) ==
  {None, "other"} \cup
  CASE command \in Versions -> {"version"}
    [] command \in {"mdatp", "onaccess", "ufw status", "sentinel control", "sentinel policy", "sentinel status", "scan-on-write", "firewall enabled"} -> {"yes", "no"}

Product(on) == [on |-> on, firewall |-> None]
Bool(answer) == answer = "yes"

\* A path is the root directory, the directories in it and the file: each
\* part's owner, whether others may write it and its sticky bit. It is
\* canonical, so that no part is a link.
Parts == [owner : {"root", "agent", "user"}, writable : BOOLEAN, sticky : BOOLEAN]
RootDir == [owner |-> "root", writable |-> FALSE, sticky |-> FALSE]
RootOwnedPath(path) ==
  \A i \in DOMAIN path :
    path[i].owner = "root" /\ (path[i].writable => i < Len(path) /\ path[i].sticky)
ResolveExecutable(path, kind, requireRoot) == kind = "executable" /\ (requireRoot => RootOwnedPath(path))

\* trusted_cli of the Sentinel agent: on Linux its own directory, the second of
\* the path, may belong to the agent's account.
TrustedDir(part, owner) == part.owner = owner /\ ~part.writable
TrustedCliUnix(path, kind) ==
  /\ kind = "executable"
  /\ \A i \in DOMAIN path : TrustedDir(path[i], "root") \/ (i = 2 /\ TrustedDir(path[i], "agent"))
TrustedCliMacos(path, kind) == kind = "executable" /\ \A i \in DOMAIN path : TrustedDir(path[i], "root")

Kinds == {"executable", "plain", "directory"}
ProductInit ==
  \/ \E os \in {"Linux", "Mac"}, native \in BOOLEAN :
       s = [kind |-> "collect", os |-> os, native |-> native, pc |-> "run", i |-> 1, said |-> <<>>, stop |-> FALSE,
            products |-> [p \in {"defender", "clamav", "ufw", "sentinel"} |-> None]]
  \/ \E dir, file \in Parts, kind \in Kinds, use \in {"any", "privileged"} :
       s = [kind |-> "resolve", path |-> <<RootDir, dir, file>>, file |-> kind, use |-> use, run |-> None]
  \/ \E dir, bin, file \in {part \in Parts : ~part.sticky}, kind \in Kinds, use \in {"agent unix", "agent macos"} :
       s = [kind |-> "resolve", path |-> <<RootDir, dir, bin, file>>, file |-> kind, use |-> use, run |-> None]

\* run_path after resolve, or after trusted_cli.
Resolve ==
  /\ s.kind = "resolve" /\ s.run = None
  /\ s' = [s EXCEPT !.run = CASE s.use = "any" -> ResolveExecutable(s.path, s.file, FALSE)
                              [] s.use = "privileged" -> ResolveExecutable(s.path, s.file, TRUE)
                              [] s.use = "agent unix" -> TrustedCliUnix(s.path, s.file)
                              [] s.use = "agent macos" -> TrustedCliMacos(s.path, s.file)]

\* The budget ends or the attempt is cancelled, before or during a command.
Interrupt == s.kind = "collect" /\ s.pc = "run" /\ ~s.stop /\ s' = [s EXCEPT !.stop = TRUE]

All == IF s.native THEN Commands[s.os] ELSE <<>>
Answer(command) == s.said[CHOOSE k \in DOMAIN s.said : s.said[k][1] = command][2]
\* Whether the early returns leave a command unasked.
Skipped(command) ==
  CASE command = "onaccess" -> Answer("clamscan") # "version"
    [] command = "ufw status" -> Answer("ufw version") # "version"
    [] command = "sentinel control" -> Answer("sentinel version") # "version"
    [] command = "sentinel policy" -> Answer("sentinel version") # "version" \/ Answer("sentinel control") # "yes"
    [] command = "scan-on-write" -> Answer("sentinel status") # "yes"
    [] command = "firewall enabled" -> Answer("sentinel status") \notin {"yes", "no"}
                                        \/ (Answer("sentinel status") = "yes" /\ Answer("scan-on-write") \notin {"yes", "no"})
    [] OTHER -> FALSE

\* What an answer adds to the report.
Products(command, answer) ==
  CASE command = "mdatp" /\ answer \in {"yes", "no"} -> [s.products EXCEPT !["defender"] = Product(Bool(answer))]
    [] command = "onaccess" -> [s.products EXCEPT !["clamav"] = Product(Bool(answer))]
    [] command = "ufw status" /\ answer \in {"yes", "no"} -> [s.products EXCEPT !["ufw"] = Product(Bool(answer))]
    [] command = "sentinel control" /\ answer = "no" -> [s.products EXCEPT !["sentinel"] = Product(FALSE)]
    [] command = "sentinel policy" /\ answer \in {"yes", "no"} -> [s.products EXCEPT !["sentinel"] = Product(Bool(answer))]
    [] command = "firewall enabled" ->
         [s.products EXCEPT !["sentinel"] = [on |-> Answer("sentinel status") = "yes" /\ Answer("scan-on-write") = "yes",
                                             firewall |-> IF answer \in {"yes", "no"} THEN answer ELSE None]]
    [] OTHER -> s.products

\* CollectorCommands::run: checked before; a command that is stopped while it
\* runs is an error, like any other but a missing or forbidden file.
Run ==
  /\ s.kind = "collect" /\ s.pc = "run" /\ s.i <= Len(All) /\ ~s.stop
  /\ LET command == All[s.i] IN
     IF Skipped(command) THEN s' = [s EXCEPT !.i = @ + 1, !.said = Append(@, <<command, "unasked">>)]
     ELSE \/ \E answer \in Answers(command) :
               s' = [s EXCEPT !.i = @ + 1, !.said = Append(@, <<command, answer>>), !.products = Products(command, answer)]
          \/ s' = [s EXCEPT !.pc = "failed"]
Stopped == s.kind = "collect" /\ s.pc = "run" /\ s.stop /\ s' = [s EXCEPT !.pc = "failed"]
\* The last check of collect.
Collected == s.kind = "collect" /\ s.pc = "run" /\ s.i > Len(All) /\ ~s.stop /\ s' = [s EXCEPT !.pc = "report"]

ProductStutter == UNCHANGED s
ProductNext == Resolve \/ Interrupt \/ Run \/ Stopped \/ Collected \/ ProductStutter
\* Whether an account outside trusted could change what is run: write the file,
\* or replace an entry of a directory that it owns or may write.
Replaceable(path, trusted) ==
  \E i \in DOMAIN path :
    \/ path[i].owner \notin trusted
    \/ path[i].writable /\ (i = Len(path) \/ ~path[i].sticky)

\* What the answers together say of each product.
Told(command) == IF \E k \in DOMAIN s.said : s.said[k][1] = command THEN Answer(command) ELSE "unasked"
Defined(answer) == answer \in {"yes", "no"}
Named(p) ==
  CASE p = "defender" -> Defined(Told("mdatp"))
    [] p = "clamav" -> Told("clamscan") = "version"
    [] p = "ufw" -> Told("ufw version") = "version" /\ Defined(Told("ufw status"))
    [] p = "sentinel" ->
         \/ Told("sentinel version") = "version" /\ Told("sentinel control") = "no"
         \/ Told("sentinel version") = "version" /\ Told("sentinel control") = "yes" /\ Defined(Told("sentinel policy"))
         \/ Told("sentinel status") = "no"
         \/ Told("sentinel status") = "yes" /\ Defined(Told("scan-on-write"))
On(p) ==
  CASE p = "defender" -> Told("mdatp") = "yes"
    [] p = "clamav" -> Told("onaccess") = "yes"
    [] p = "ufw" -> Told("ufw status") = "yes"
    [] p = "sentinel" -> Told("sentinel policy") = "yes" \/ Told("scan-on-write") = "yes"

\* A report that was not interrupted names exactly the products whose commands
\* answered, with the protection they answered, and none for another system than
\* the machine's (collection.rs: interruption must never be treated as an
\* unavailable optional product); with privileges only a file is run that no
\* other account can change (run_executable: root only executes helpers
\* protected from unprivileged modification).
ProductsTrue ==
  /\ s.kind = "collect" /\ s.pc = "report" =>
       /\ ~s.stop
       /\ \A p \in DOMAIN s.products :
            IF ~s.native \/ ~Named(p) THEN s.products[p] = None
            ELSE s.products[p] # None /\ s.products[p].on = On(p)
  /\ s.kind = "resolve" /\ s.run = TRUE =>
       /\ s.file = "executable"
       /\ s.use \in {"privileged", "agent macos"} => ~Replaceable(s.path, {"root"})
       /\ s.use = "agent unix" => ~Replaceable(s.path, {"root", "agent"})
=============================================================================
