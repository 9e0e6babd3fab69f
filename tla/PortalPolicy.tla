---------------------------- MODULE PortalPolicy ----------------------------
(***************************************************************************)
(* The portal's answers and what is made of them: prelogin, configuration  *)
(* and gateways, and the report of client-system criteria. Each is a       *)
(* specification of its own over s.                                        *)
(***************************************************************************)
EXTENDS Integers, Sequences, FiniteSets, FiniteSetsExt, SequencesExt

CONSTANTS
  MaxPriority, None,
  Names, MaxChanges

VARIABLE s

-----------------------------------------------------------------------------
(***************************************************************************)
(* From the portal's answers to the gateways that are tried                  *)
(* (crates/gpapi/src/portal, gateway/parse_gateways.rs): the prelogin and    *)
(* its browser mode, the configuration and its second request, the internal  *)
(* host detection, the list that it chooses and the preferred gateway.       *)
(***************************************************************************)
ClientOs == {"Linux", "Windows", "Mac", "iOS"}

\* PreloginOptions::browser_mode, and its value for each system and server.
BrowserMode(o) == IF o.requested /\ (~o.gateway \/ o.allowed) THEN "External" ELSE "Embedded"
ExternalBrowserOsValue == [Linux |-> "4", Mac |-> "3", Windows |-> "2", iOS |-> "0"]
DefaultBrowser(o) ==
  IF BrowserMode(o) = "External" THEN ExternalBrowserOsValue[o.os] ELSE IF o.gateway THEN "0" ELSE "-10"
PreloginParamLocation(os) == IF os = "Windows" THEN "Query" ELSE "Body"
KerberosSupportInQuery(os) == os \in {"Mac", "Windows"}
\* portal_prelogin::build and gateway_prelogin::build.
PreloginRequest(o) ==
  LET params == <<[key |-> "clientos", value |-> o.os], [key |-> "default-browser", value |-> DefaultBrowser(o)]>>
      query == IF KerberosSupportInQuery(o.os) THEN <<[key |-> "kerberos-support", value |-> "yes"]>> ELSE <<>> IN
  IF PreloginParamLocation(o.os) = "Body" THEN [body |-> params, query |-> query]
                                          ELSE [body |-> <<>>, query |-> params \o query]

\* parse_prelogin_response. A request that is not base64 is "bad".
Orders == [os : ClientOs, gateway : BOOLEAN, requested : BOOLEAN, allowed : BOOLEAN]
Responses ==
  [status : {None, "success", "error"}, method : {None, "REDIRECT", "POST", "OTHER"}, request : {None, "saml", "bad"},
   browser : {None, "yes", "no"}]
ParsePrelogin(r) ==
  CASE r.status # "success" -> "error"
    [] r.method # None /\ r.request # None /\ (r.method = "OTHER" \/ r.request = "bad") -> "error"
    [] r.method # None /\ r.request # None -> IF r.browser = "yes" THEN "samlBrowser" ELSE "saml"
    [] OTHER -> "standard"

\* The gateways of a configuration. A list may be missing; a priority that is
\* missing or not a number is the largest; names are descriptions.
Rules == [name : {"here", "Any", "there"}, priority : {1, MaxPriority}]
Entries == [name : {"a", "b"}, priority : {1, 2, MaxPriority}, rules : {<<>>} \cup {<<r>> : r \in Rules}]
Gateway(name, kind, priority, rules) == [name |-> name, kind |-> kind, priority |-> priority, rules |-> rules]
Gateways(list, kind) == [i \in 1 .. Len(list) |-> Gateway(list[i].name, kind, list[i].priority, list[i].rules)]
\* parse_gateways: without a list of internal gateways, the external ones.
ParseGateways(root, preferInternal) ==
  IF preferInternal /\ root.internal # None THEN Gateways(root.internal, "Internal")
  ELSE IF root.external = None THEN <<>> ELSE Gateways(root.external, "External")
SelectGateways(root, preferInternal) ==
  LET list == ParseGateways(root, preferInternal) IN
  IF list = <<>> THEN <<Gateway("portal", "External", 0, <<>>)>> ELSE list

\* find_preferred_gateway: the lowest priority of a rule for the region so far.
FindPreferred(list, region) ==
  LET matching == [i \in 1 .. Len(list) |-> {r.priority : r \in {x \in Range(list[i].rules) : x.name \in {region, "Any"}}}]
      Better(best, i) == IF matching[i] # {} /\ Min(matching[i]) < best.priority
                         THEN [at |-> i, priority |-> Min(matching[i])] ELSE best
      best == FoldLeft(Better, [at |-> 0, priority |-> MaxPriority], [i \in 1 .. Len(list) |-> i])
      lowest == Min({list[i].priority : i \in 1 .. Len(list)}) IN
  IF best.at # 0 THEN best.at ELSE Min({i \in 1 .. Len(list) : list[i].priority = lowest})
\* sort_gateways: the preferred one, found again by its name, goes to the front.
SortGateways(list, region) ==
  LET at == Min({i \in 1 .. Len(list) : list[i].name = list[FindPreferred(list, region)].name}) IN
  [list EXCEPT ![1] = list[at], ![at] = list[1]]

\* parse_internal_detection and InternalHostDetection::new, for a pair.
Pairs == {"none", "valid", "half", "invalid"}
ParseDetection(pairs) ==
  IF \E i \in 1 .. 2 : pairs[i] \in {"half", "invalid"} THEN None
  ELSE IF \A i \in 1 .. 2 : pairs[i] = "none" THEN None
  ELSE {i \in 1 .. 2 : pairs[i] = "valid"}
\* parse_internal_session_policy: a bad number or word means no policy.
Intervals == {None, "bad", "zero", "huge", "60"}
SessionPolicy(interval, collect) ==
  IF interval \in {"bad", "zero", "huge"} \/ collect = "bad" THEN None
  ELSE [interval |-> IF interval = None THEN "3600" ELSE interval, collect |-> collect # "no"]

\* CscMode::effective.
CscSupport(mode, os) == mode = "Yes" \/ (mode = "Auto" /\ os \in {"Mac", "Windows"})

Lists == {None, <<>>, <<[name |-> "a", priority |-> 1, rules |-> <<>>]>>}
Roots == [internal : Lists, external : Lists, pairs : [1 .. 2 -> Pairs]]
NoPolicy == [internal |-> None, external |-> None, pairs |-> [i \in 1 .. 2 |-> "none"]]
Failures == {"network", "tls", "rejected", "notFound", "status", "unreadable", "empty", "malformed"}

Base == [what |-> None, pc |-> "start", order |-> None, response |-> None, list |-> <<>>, answer |-> None,
         os |-> "Linux", csc |-> "Auto", root |-> None, cancelled |-> FALSE, declared |-> FALSE, second |-> FALSE, detected |-> None]
PortalInit ==
  \/ \E o \in Orders, r \in Responses : s = [Base EXCEPT !.what = "prelogin", !.order = o, !.response = r]
  \/ \E n \in 1 .. 3 : \E list \in [1 .. n -> Entries] :
       s = [Base EXCEPT !.what = "order", !.list = Gateways(list, "External")]
  \/ \E os \in ClientOs, mode \in {"Auto", "Yes", "No"} : s = [Base EXCEPT !.what = "discover", !.os = os, !.csc = mode]
  \/ \E i \in Intervals, c \in {None, "yes", "no", "bad"} : s = [Base EXCEPT !.what = "policy", !.order = i, !.response = c]

Prelogin ==
  /\ s.what = "prelogin" /\ s.pc = "start"
  /\ s' = [s EXCEPT !.pc = "done", !.answer = [request |-> PreloginRequest(s.order), result |-> ParsePrelogin(s.response)]]
Order ==
  /\ s.what = "order" /\ s.pc = "start"
  /\ s' = [s EXCEPT !.pc = "done", !.answer = [preferred |-> FindPreferred(s.list, "here"), sorted |-> SortGateways(s.list, "here")]]
Policy == s.what = "policy" /\ s.pc = "start" /\ s' = [s EXCEPT !.pc = "done", !.answer = SessionPolicy(s.order, s.response)]

Fail(why) == [s EXCEPT !.pc = "failed", !.answer = why]
Cancel == s.what = "discover" /\ ~s.cancelled /\ s.pc \notin {"done", "failed"} /\ s' = [s EXCEPT !.cancelled = TRUE]
Retrieve ==
  /\ s.what = "discover" /\ s.pc = "start"
  /\ s' = [s EXCEPT !.pc = "config", !.declared = CscSupport(s.csc, s.os)]
\* Both requests select on the cancellation first.
CancelRequest == s.pc \in {"config", "second"} /\ s.cancelled /\ s' = Fail("Cancelled")
Refused(failure) ==
  /\ s.pc \in {"config", "second"} /\ ~s.cancelled
  /\ s' = Fail(IF failure = "rejected" /\ s.os = "iOS" /\ s.pc = "config" THEN "AuthenticationRejected" ELSE failure)
\* A root named config-criteria asks for a second request, once.
PortalCriteria(cookie) ==
  /\ s.pc \in {"config", "second"} /\ ~s.cancelled
  /\ s' = CASE s.pc = "second" -> [s EXCEPT !.pc = "parse", !.root = NoPolicy]
            [] ~CscSupport(s.csc, s.os) -> Fail("CscDisabled")
            [] ~cookie -> Fail("NoCscCookie")
            [] OTHER -> [s EXCEPT !.pc = "second", !.second = TRUE]
Configured(root) == s.pc \in {"config", "second"} /\ ~s.cancelled /\ s' = [s EXCEPT !.pc = "parse", !.root = root]
ParsePortalPolicy ==
  /\ s.pc = "parse"
  /\ s' = IF s.cancelled THEN Fail("Cancelled") ELSE [s EXCEPT !.pc = "detect"]
\* discover: a detection that fails says external; it ends before the check.
Detect(found) ==
  /\ s.pc = "detect" /\ (ParseDetection(s.root.pairs) = None => ~found)
  /\ s' = [s EXCEPT !.pc = "select", !.detected = IF ParseDetection(s.root.pairs) = None THEN None ELSE found]
Select ==
  /\ s.pc = "select"
  /\ s' = IF s.cancelled THEN Fail("Cancelled")
          ELSE [s EXCEPT !.pc = "done", !.list = SelectGateways(s.root, s.detected = TRUE)]

PortalStutter == s.pc \in {"done", "failed"} /\ UNCHANGED s
PortalNext ==
  \/ Prelogin \/ Order \/ Policy \/ Cancel \/ Retrieve \/ CancelRequest \/ ParsePortalPolicy \/ Select
  \/ \E f \in Failures : Refused(f)
  \/ \E b \in BOOLEAN : PortalCriteria(b) \/ Detect(b)
  \/ \E root \in Roots : Configured(root)
  \/ PortalStutter
\* The value of a parameter, wherever the request carries it.
Carried(request, key) == {p.value : p \in {x \in Range(request.body) \cup Range(request.query) : x.key = key}}
\* A gateway's own rank: its best rule for the region, or none.
Ranks(g) == {r.priority : r \in {x \in Range(g.rules) : x.name \in {"here", "Any"} /\ x.priority < MaxPriority}}
Beats(g, h) ==
  CASE Ranks(g) # {} /\ Ranks(h) # {} -> Min(Ranks(g)) < Min(Ranks(h))
    [] OTHER -> Ranks(g) # {}
Unranked(list) == \A i \in 1 .. Len(list) : Ranks(list[i]) = {}
\* The external browser is offered to a gateway only when its portal allows it,
\* once in the request; a sign-in page is one whose method and request are both
\* known. A cancelled discovery gives no configuration; internal gateways are
\* tried only inside the network, the portal itself where no list names one; the
\* second request follows a declared support. The preferred gateway is the
\* first that no other beats for the region, and heads the sorted list when the
\* names tell gateways apart (prelogin.rs, config.rs, discovery.rs).
GatewaysChosen ==
  s.pc = "done" =>
    CASE s.what = "prelogin" ->
           /\ Carried(s.answer.request, "default-browser") =
                {IF s.order.requested /\ (s.order.gateway => s.order.allowed) THEN ExternalBrowserOsValue[s.order.os]
                 ELSE IF s.order.gateway THEN "0" ELSE "-10"}
           /\ Len(s.answer.request.body) > 0 <=> s.order.os # "Windows"
           /\ s.answer.result \in {"saml", "samlBrowser"} =>
                s.response.status = "success" /\ s.response.method \in {"REDIRECT", "POST"} /\ s.response.request = "saml"
           /\ s.answer.result = "standard" => {s.response.method, s.response.request} \cap {None} # {}
      [] s.what = "order" ->
           LET at == s.answer.preferred
               names == {s.list[i].name : i \in 1 .. Len(s.list)} IN
           /\ \A i \in 1 .. Len(s.list) : ~Beats(s.list[i], s.list[at]) /\ (i < at /\ ~Unranked(s.list) => Beats(s.list[at], s.list[i]))
           /\ Unranked(s.list) => \A i \in 1 .. Len(s.list) :
                /\ s.list[at].priority <= s.list[i].priority
                /\ i < at => s.list[at].priority < s.list[i].priority
           /\ Cardinality(names) = Len(s.list) => s.answer.sorted[1] = s.list[at]
           /\ \A g \in Range(s.list) : Cardinality({i \in 1 .. Len(s.list) : s.list[i] = g})
                                     = Cardinality({i \in 1 .. Len(s.list) : s.answer.sorted[i] = g})
      [] s.what = "discover" ->
           /\ ~s.cancelled /\ s.list # <<>> /\ (s.second => s.declared)
           /\ (\E g \in Range(s.list) : g.kind = "Internal") <=> (s.detected = TRUE /\ s.root.internal \notin {None, <<>>})
           /\ s.detected # None => \E i \in 1 .. 2 : s.root.pairs[i] = "valid" /\ s.root.pairs[3 - i] \in {"none", "valid"}
      [] OTHER -> s.answer # None <=> s.order \in {None, "60"} /\ s.response # "bad"

-----------------------------------------------------------------------------
(***************************************************************************)
(* The answer to a portal's selection criteria                               *)
(* (crates/gpapi/src/portal/csc.rs): the names it asks about, what the       *)
(* machine says of each while programs come and go, and the report with the  *)
(* digest of itself.                                                         *)
(***************************************************************************)
Blank == 0
\* A list of names: the text of its members, possibly blank, and the names of
\* its entries. A plist has one entry, with the keys of its members.
NameLists == [members : SeqOf(Names \cup {Blank}, 2), entries : SeqOf(Names, 1)]

\* process_list_names and registry_key_names: sorted, without duplicates.
ListNames(list) == SetToSortSeq((Range(list.members) \ {Blank}) \cup Range(list.entries), <)
\* plist_entry_keys: the members as they are, or the name of the entry.
PlistKeys(list) ==
  IF list.members # <<>> THEN list.members ELSE IF list.entries = <<>> THEN <<>> ELSE list.entries

\* build_custom_checks: each system answers its own kind of check, under its
\* own element or, but for plists, directly under the checks.
Requested(os, c) ==
  LET nested == IF c.nested = None /\ os # "Mac" THEN c.top ELSE c.nested IN
  IF os = "iOS" THEN None ELSE nested
Questions(os, c) ==
  LET list == Requested(os, c) IN
  IF list = None THEN <<>> ELSE IF os = "Mac" THEN PlistKeys(list) ELSE ListNames(list)

CscCriteria == [cookie : {None, "", "cookie"}, nested : {None} \cup NameLists, top : {None} \cup NameLists]
CscInit ==
  \E os \in ClientOs, c \in CscCriteria, present \in SUBSET Names :
    /\ c.nested # None => c.top \in {None} \cup [members : {<<>>}, entries : {<<>>}]
    /\ s = [os |-> os, c |-> c, present |-> present, changes |-> 0, seen |-> [n \in Names |-> {n \in present}],
            pc |-> "start", todo |-> <<>>, checks |-> <<>>, sum |-> [entries |-> 0, present |-> 0, missing |-> 0], request |-> None]

\* A program starts or stops, a preference is set or removed.
Change(n) ==
  /\ s.pc = "check" /\ s.changes < MaxChanges
  /\ LET now == IF n \in s.present THEN s.present \ {n} ELSE s.present \cup {n} IN
     s' = [s EXCEPT !.present = now, !.changes = @ + 1, !.seen[n] = @ \cup {n \in now}]

\* build_csc_request_with_reader: without the cookie there is no request.
BuildRequest ==
  /\ s.pc = "start"
  /\ s' = IF s.c.cookie \in {None, ""} THEN [s EXCEPT !.pc = "failed"]
          ELSE [s EXCEPT !.pc = "check", !.todo = Questions(s.os, s.c)]
\* read_preference or process_exists, again for each name. The registry is
\* never read.
Check ==
  /\ s.pc = "check" /\ s.todo # <<>>
  /\ LET n == Head(s.todo)
         exists == s.os # "Windows" /\ n \in s.present IN
     s' = [s EXCEPT !.todo = Tail(@), !.checks = Append(@, [name |-> n, exist |-> exists]),
              !.sum = IF s.os = "Windows" THEN @
                      ELSE [entries |-> @.entries + 1, present |-> @.present + (IF exists THEN 1 ELSE 0),
                            missing |-> @.missing + (IF exists THEN 0 ELSE 1)]]

\* build_csc_data, with the place of the digest, then with the digest.
Placeholder == "__#_PAN_CSC_DATA_DIGEST_#__"
Data(digest) == [cookie |-> s.c.cookie, digest |-> digest, checks |-> s.checks]
Md5(data) == <<"md5", data>>
Finish ==
  /\ s.pc = "check" /\ s.todo = <<>>
  /\ LET digest == Md5(Data(Placeholder)) IN
     s' = [s EXCEPT !.pc = "done", !.request = [digest |-> digest, data |-> Data(digest)]]

CscStutter == s.pc \in {"done", "failed"} /\ UNCHANGED s
CscNext == BuildRequest \/ Check \/ Finish \/ (\E n \in Names : Change(n)) \/ CscStutter
\* Every name that the criteria ask this system about is answered, a process or
\* key once, with what was true at some moment of the report and never present
\* where nothing is read; the counts add up; and the digest is the one that the
\* portal computes from the report that it receives (csc.rs).
CriteriaAnswered ==
  s.pc = "done" =>
    LET asked == IF Requested(s.os, s.c) = None THEN {} ELSE
                   LET list == Requested(s.os, s.c) IN
                   IF s.os = "Mac" /\ list.members # <<>> THEN Range(list.members)
                   ELSE (Range(list.members) \cup Range(list.entries)) \ {Blank} IN
    /\ {c.name : c \in Range(s.checks)} = asked
    /\ s.os # "Mac" => Len(s.checks) = Cardinality(asked)
    /\ \A c \in Range(s.checks) :
         IF s.os = "Windows" \/ c.name = Blank THEN ~c.exist ELSE c.exist \in s.seen[c.name]
    /\ s.sum.entries = s.sum.present + s.sum.missing
    /\ Md5([s.request.data EXCEPT !.digest = Placeholder]) = s.request.digest
    /\ s.request.data.digest = s.request.digest
=============================================================================
