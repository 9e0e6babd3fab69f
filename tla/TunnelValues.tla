---------------------------- MODULE TunnelValues ----------------------------
(***************************************************************************)
(* The data of a tunnel: values that cross the C boundary, the options of  *)
(* a connection, and the bounds of what is put in a message. Each is a     *)
(* specification of its own over s.                                        *)
(***************************************************************************)
EXTENDS Integers, Sequences, SequencesExt, FiniteSets

CONSTANTS
  TextLimit, CopyBudget, ListLimit, Width, None,
  MaxCalls,
  AddressMax,  \* 128: the bytes an address keeps when space is short
  ConfigurationMax,  \* MAX_CONFIGURATION_BYTES
  PlaintextMax,  \* MAX_PLAINTEXT
  Shape,  \* keys and punctuation of a configuration
  AddressShape,  \* keys and punctuation of an address
  Bits,  \* the width of a netmask
  Rests  \* how many bytes a snapshot has beside the configuration

VARIABLE s

-----------------------------------------------------------------------------
(***************************************************************************)
(* Values that cross from the native library (openconnect ffi and vpn.rs):  *)
(* bounded copies of the configuration's text and lists, the order of the   *)
(* gateway's addresses, and the session's numbers.                          *)
(***************************************************************************)
\* Native text: "a" is a character, "x" a byte that is not UTF-8 and becomes a
\* replacement of three bytes.
NativeTexts(n) == UNION {[1 .. k -> {"a", "x"}] : k \in 0 .. n}
NativeBytes(t) == FoldLeft(LAMBDA n, c : n + (IF c = "x" THEN 3 ELSE 1), 0, t)
NativeLeast(a, b) == IF a < b THEN a ELSE b

\* CopyBudget::text: a prefix, made valid, and cut at a character boundary so
\* that it is no longer than the bytes it was allowed.
CopyText(b, t) ==
  LET limit == NativeLeast(NativeLeast(b.remaining, TextLimit), Len(t))
      Fits(k) == NativeBytes(SubSeq(t, 1, k)) <= limit
      text == SubSeq(t, 1, CHOOSE k \in 0 .. limit : Fits(k) /\ \A j \in k + 1 .. limit : ~Fits(j))
  IN [b EXCEPT !.remaining = @ - NativeBytes(text), !.truncated = @ \/ NativeBytes(text) < Len(t), !.text = text]

\* CopyBudget::push: whole entries, or none.
NativeNewList == [items |-> <<>>, total |-> 0, truncated |-> FALSE]
PushEntry(b, t) ==
  LET copied == CopyText(b, t)
  IN IF Len(b.list.items) >= ListLimit \/ Len(t) > TextLimit \/ Len(t) > b.remaining
     THEN [b EXCEPT !.list.total = @ + 1, !.list.truncated = TRUE, !.truncated = TRUE]
     ELSE [copied EXCEPT !.list.total = @ + 1, !.list.items = Append(@, copied.text),
             !.list.truncated = @ \/ NativeBytes(copied.text) # Len(t)]

\* configuration: the scalar fields, then every list, from one budget.
CopyList(b, entries) ==
  LET filled == FoldLeft(PushEntry, [b EXCEPT !.list = NativeNewList], entries)
  IN [filled EXCEPT !.lists = Append(@, filled.list)]
Configuration(scalars, lists) ==
  LET new == [remaining |-> CopyBudget, truncated |-> FALSE, text |-> <<>>, list |-> NativeNewList, lists |-> <<>>]
  IN FoldLeft(CopyList, FoldLeft(CopyText, new, scalars), lists)

\* prefer_family: a stable sort on whether the family is the preferred one.
PreferFamily(list, family) ==
  SelectSeq(list, LAMBDA a : a.family = family) \o SelectSeq(list, LAMBDA a : a.family # family)
\* vpn_resolve_gateway: without a preference the resolver's order stays.
ResolveGateway(list, preference) == IF preference \in {4, 6} THEN PreferFamily(list, preference) ELSE list

\* session_info_from_raw: numbers that are positive and fit; the user's expiry,
\* or else the authentication's; a warning only with both its parts.
PositiveU32(v) == IF v > 0 /\ v < 2 ^ Width THEN v ELSE None
SessionInfo(raw) ==
  [expires |-> IF PositiveU32(raw.user) # None THEN PositiveU32(raw.user) ELSE PositiveU32(raw.auth),
   warning |-> IF raw.message THEN PositiveU32(raw.prior) ELSE None]

Copies(t, n) == [i \in 1 .. n |-> t]
Numbers == {-1, 0, 1, 2 ^ Width - 1, 2 ^ Width}
NativeInit ==
  \/ \E t \in NativeTexts(TextLimit + 1), n \in 0 .. 2, e \in NativeTexts(TextLimit + 1), k, l \in 0 .. ListLimit + 1 :
       s = [kind |-> "text", in |-> [scalars |-> Copies(t, n), lists |-> <<Copies(e, k), Copies(e, l)>>], out |-> None]
  \/ \E n \in 0 .. 4, p \in {0, 4, 6} : \E f \in [1 .. n -> {4, 6}] :
       s = [kind |-> "order", in |-> [list |-> [i \in 1 .. n |-> [family |-> f[i], index |-> i]], prefer |-> p], out |-> None]
  \/ \E u, a, w \in Numbers, m \in BOOLEAN :
       s = [kind |-> "session", in |-> [user |-> u, auth |-> a, prior |-> w, message |-> m], out |-> None]

Convert ==
  /\ s.out = None
  /\ s' = [s EXCEPT !.out =
       CASE s.kind = "text" -> Configuration(s.in.scalars, s.in.lists)
         [] s.kind = "order" -> ResolveGateway(s.in.list, s.in.prefer)
         [] s.kind = "session" -> SessionInfo(s.in)]
NativeStutter == s.out # None /\ UNCHANGED s
NativeNext == Convert \/ NativeStutter

Done(kind) == s.kind = kind /\ s.out # None
Plain(t) == \A i \in DOMAIN t : t[i] = "a"

\* The copies stay within the budget together and within the limits one by one,
\* every entry is counted, and what is not marked truncated is complete; that
\* last is claimed for text that is UTF-8, as replacements may displace text
\* of the same length unnoticed.
CopiesAccounted ==
  Done("text") =>
    /\ s.out.remaining >= 0
    /\ \A i \in DOMAIN s.out.lists : LET l == s.out.lists[i] entries == s.in.lists[i] IN
         /\ l.total = Len(entries) /\ Len(l.items) <= ListLimit
         /\ \A j \in DOMAIN l.items : NativeBytes(l.items[j]) <= TextLimit
         /\ (~l.truncated /\ \A j \in DOMAIN entries : Plain(entries[j])) => l.items = entries
         /\ l.truncated => s.out.truncated

\* No address is lost or repeated, the preferred family comes first, and the
\* resolver's order is kept within each family.
OrderKeepsAll ==
  Done("order") =>
    /\ ToSet(s.out) = ToSet(s.in.list) /\ Len(s.out) = Len(s.in.list)
    /\ \A i, j \in DOMAIN s.out : (i < j /\ s.out[i].index > s.out[j].index) =>
         s.out[i].family = s.in.prefer /\ s.out[j].family # s.in.prefer
    /\ s.in.prefer # 0 => \A i, j \in DOMAIN s.out : (i < j /\ s.out[j].family = s.in.prefer) => s.out[i].family = s.in.prefer

\* An expiry is reported exactly when the gateway sent a usable one, the
\* user's own first.
ExpiryUsable ==
  Done("session") =>
    LET usable == {v \in {s.in.user, s.in.auth} : v \in 1 .. 2 ^ Width - 1}
    IN /\ (s.out.expires = None) = (usable = {})
       /\ usable # {} => s.out.expires = IF s.in.user \in usable THEN s.in.user ELSE s.in.auth

ValuesExact == CopiesAccounted /\ OrderKeepsAll /\ ExpiryUsable

-----------------------------------------------------------------------------
(***************************************************************************)
(* How a tunnel is configured before it is opened (crates/openconnect:       *)
(* vpn.rs VpnBuilder, vpn_utils.rs, hip.rs): the builder's calls in any       *)
(* order, the choice of what configures the network, and the options that    *)
(* OpenConnect receives.                                                     *)
(***************************************************************************)
\* The options that are only passed on, two texts and a flag for all of them.
\* A NUL byte cannot be.
OptionsTexts == {"os", "host_id"}
Flags == {"no_dtls"}
Values == {None, "x", "nul"}

\* A script file is there and executable, there and not, or not there.
Files == {"ok", "plain", "missing"}

\* What find_vpnc_script finds: GP_VPNC_SCRIPT if it is set, and nothing else
\* then; the file installed beside the program; the first known location.
ConfiguredScript(file) == file = "ok"
FindVpncScript(e) ==
  IF e.configured # None THEN (IF ConfiguredScript(e.configured) THEN "configured" ELSE None)
  ELSE IF ConfiguredScript(e.installed) THEN "installed"
  ELSE IF e.known # <<>> THEN "known" ELSE None
\* check_executable lets a file through that is not there.
CheckExecutable(file) == file # "plain"

New == [script |-> None, isPath |-> FALSE, handler |-> FALSE, tun |-> FALSE, launch |-> FALSE,
        text |-> [f \in OptionsTexts |-> None], flag |-> [f \in Flags |-> FALSE]]

Script(b, file) == [b EXCEPT !.script = file, !.isPath = FALSE]
ScriptPath(b, file) == [b EXCEPT !.script = file, !.isPath = TRUE]
NetworkConfigurationHandler(b) == [b EXCEPT !.handler = TRUE]
ScriptTun(b, on) == [b EXCEPT !.tun = on]
\* An absolute path without a NUL byte, in it or in an argument.
ScriptTunProgram(b) == [b EXCEPT !.script = None, !.tun = TRUE, !.isPath = FALSE, !.launch = TRUE]
SetText(b, f, value) == [b EXCEPT !.text[f] = value]
SetFlag(b, f, value) == [b EXCEPT !.flag[f] = value]

Failed(why) == [ok |-> FALSE, why |-> why]
\* resolve_script. quoted: made one word for the shell that runs it.
ResolveScript(b, e) ==
  CASE b.handler -> IF b.script # None \/ b.tun THEN Failed("conflict") ELSE [ok |-> TRUE, script |-> None, quoted |-> FALSE]
    [] ~b.handler /\ b.launch -> [ok |-> TRUE, script |-> None, quoted |-> FALSE]
    [] OTHER ->
         LET found == FindVpncScript(e) IN
         CASE b.script # None /\ b.isPath /\ b.script = "missing" -> Failed("missing")
           [] b.script # None /\ ~CheckExecutable(b.script) -> Failed("not executable")
           [] b.script = None /\ found = None -> Failed("no script")
           [] OTHER -> [ok |-> TRUE, script |-> IF b.script # None THEN "given" ELSE found, quoted |-> b.isPath \/ b.script = None]
\* build and build_connect_options. A text with a NUL byte ends the program.
Build(b, e) ==
  LET script == ResolveScript(b, e) IN
  IF b.launch /\ ~b.tun THEN Failed("no script-tun")
  ELSE IF ~script.ok THEN script
  ELSE IF \E f \in OptionsTexts : b.text[f] = "nul" THEN Failed("panic")
  ELSE [ok |-> TRUE, script |-> script.script, quoted |-> script.quoted, configure |-> b.handler, tun |-> b.tun, launch |-> b.launch,
        text |-> [b.text EXCEPT !["os"] = IF @ = None THEN "linux" ELSE @], flag |-> b.flag]

OptionsInit == \E e \in [configured : {None} \cup Files, installed : {"ok", "missing"}, known : {<<>>, <<"ok">>}] :
  s = [b |-> New, e |-> e, calls |-> <<>>, out |-> None]

Call(name, value, b) ==
  /\ s.out = None /\ Len(s.calls) < MaxCalls
  /\ s' = [s EXCEPT !.calls = Append(@, <<name, value>>), !.b = b]
Bools == {"true", "false"}
Calls ==
  \/ \E file \in Files : Call("script", file, Script(s.b, file)) \/ Call("script_path", file, ScriptPath(s.b, file))
  \/ Call("handler", "true", NetworkConfigurationHandler(s.b))
  \/ \E on \in Bools : Call("script_tun", on, ScriptTun(s.b, on = "true"))
  \/ Call("program", "true", ScriptTunProgram(s.b))
  \/ \E f \in OptionsTexts, value \in Values : Call(f, value, SetText(s.b, f, value))
  \/ \E f \in Flags, on \in Bools : Call(f, on, SetFlag(s.b, f, on = "true"))
Built == s.out = None /\ s' = [s EXCEPT !.out = Build(s.b, s.e)]

OptionsStutter == s.out # None /\ UNCHANGED s
OptionsNext == Calls \/ Built \/ OptionsStutter
\* The last value given to a call, from the history of calls.
OptionsLast(name, default) ==
  LET at == {i \in DOMAIN s.calls : s.calls[i][1] = name} IN
  IF at = {} THEN default ELSE s.calls[CHOOSE i \in at : \A j \in at : j <= i][2]
Asked(name) == \E i \in DOMAIN s.calls : s.calls[i][1] = name

\* Whatever the order of the builder's calls, one thing configures the network
\* of a built tunnel: the handler, the program that was launched, or a script
\* that was executable when it was chosen; a path is one word for the shell, and
\* only a command line that the caller wrote is not; GP_VPNC_SCRIPT is never
\* passed over; and OpenConnect receives the last value given to each option.
OneConfiguration ==
  s.out # None /\ s.out.ok =>
    /\ Cardinality({c \in {"handler", "launch", "script"} :
          \/ c = "handler" /\ s.out.configure
          \/ c = "launch" /\ s.out.launch
          \/ c = "script" /\ s.out.script # None}) = 1
    /\ s.out.launch => s.out.tun /\ Asked("program")
    /\ Asked("program") => s.out.launch
    /\ s.out.configure <=> Asked("handler")
    /\ s.out.script = "installed" => s.e.configured = None /\ s.e.installed = "ok"
    /\ s.out.script = "known" => s.e.configured = None
    /\ s.out.script \notin {None, "given"} => s.out.quoted
    /\ s.out.script = "given" /\ ~s.out.quoted => Asked("script")
    /\ \A f \in OptionsTexts : s.out.text[f] = OptionsLast(f, IF f = "os" THEN "linux" ELSE None) \/ (f = "os" /\ OptionsLast(f, None) = None)
    /\ \A f \in Flags : s.out.flag[f] = (OptionsLast(f, "false") = "true")

-----------------------------------------------------------------------------
(***************************************************************************)
(* The bounds on a tunnel's configuration as clients see it: normalize of   *)
(* gptunnel, limit_encoded_size of gpapi's tunnel.rs, and the fitting of    *)
(* a snapshot message to one frame (fit_snapshot_message of ws_server.rs).  *)
(* Sizes are those of the JSON encoding; the scaled limits are constants.   *)
(***************************************************************************)
\* Text: "a" is plain, "c" a control character (escaped as six bytes), "u" a
\* character of two bytes.
LimitsBytes(t) == FoldLeft(LAMBDA n, c : n + (IF c = "u" THEN 2 ELSE 1), 0, t)
Encoded(t) == FoldLeft(LAMBDA n, c : n + (CASE c = "a" -> 1 [] c = "c" -> 6 [] c = "u" -> 2), 2, t)
\* floor_char_boundary and truncate: the longest prefix of at most n bytes.
Cut(t, n) == SubSeq(t, 1, CHOOSE k \in 0 .. Len(t) :
               /\ LimitsBytes(SubSeq(t, 1, k)) <= n
               /\ \A j \in k + 1 .. Len(t) : LimitsBytes(SubSeq(t, 1, j)) > n)

OptionSize(t) == IF t = None THEN 4 ELSE Encoded(t)
FlagSize(b) == IF b THEN 4 ELSE 5
ListSize(l) == FoldLeft(LAMBDA n, t : n + Encoded(t) + 1, IF l.items = <<>> THEN 0 ELSE -1, l.items) + FlagSize(l.truncated)
AddressSize(a) == IF a = None THEN 4
                  ELSE AddressShape + Encoded(a.address) + OptionSize(a.netmask) + (IF a.prefix = None THEN 4 ELSE 1)
\* The order in which limit_encoded_size gives up entries (two of the five
\* lists; the others are handled alike).
Lists == <<"excluded", "included">>
Size(c) ==
  Shape + OptionSize(c.interface) + OptionSize(c.server) + AddressSize(c.ipv4) + FlagSize(c.truncated)
    + FoldLeft(LAMBDA n, l : n + ListSize(c[l]), 0, Lists)

\* ipv4_prefix: the leading ones, when nothing but zeros follows them.
LeadingOnes(mask) == CHOOSE p \in 0 .. Bits :
  /\ \A i \in 1 .. p : (mask \div 2 ^ (Bits - i)) % 2 = 1
  /\ p < Bits => (mask \div 2 ^ (Bits - p - 1)) % 2 = 0
Prefix(mask) ==
  LET prefix == LeadingOnes(mask)
      expected == IF prefix = 0 THEN 0 ELSE ((2 ^ Bits - 1) * 2 ^ (Bits - prefix)) % 2 ^ Bits
  IN IF mask = expected THEN prefix ELSE None

\* The text of an address or mask that parses is short and plain; the value of
\* the mask is kept beside its text.
Parses(t) == Len(t) <= AddressMax /\ \A i \in DOMAIN t : t[i] = "a"
\* normalize, before it bounds the size.
Normalize(n) ==
  [interface |-> n.interface, server |-> n.server, excluded |-> n.excluded, included |-> n.included,
   truncated |-> n.truncated,
   ipv4 |-> IF n.address = None THEN None
            ELSE [address |-> n.address, netmask |-> n.netmask,
                  prefix |-> IF Parses(n.address) /\ n.mask # None THEN Prefix(n.mask) ELSE None]]

FirstFilled(c) == SelectInSeq(Lists, LAMBDA l : c[l].items # <<>>)
\* One turn of limit_encoded_size while the encoding is too long: an entry, or
\* the addresses' excess and half of the longest scalar.
PopEntry(c) == LET l == Lists[FirstFilled(c)]
               IN [c EXCEPT !.truncated = TRUE, ![l] = [@ EXCEPT !.items = Front(@), !.truncated = TRUE]]
CutAddress(c) == IF c.ipv4 # None /\ LimitsBytes(c.ipv4.address) > AddressMax
                 THEN [c EXCEPT !.truncated = TRUE, !.ipv4.address = Cut(@, AddressMax), !.ipv4.prefix = None]
                 ELSE [c EXCEPT !.truncated = TRUE]
Length(t) == IF t = None THEN 0 ELSE LimitsBytes(t)
\* max_by_key keeps the last of several longest.
Scalars(c) == <<c.interface, c.server>> \o (IF c.ipv4 = None THEN <<>> ELSE <<c.ipv4.netmask>>)
Longest(c) == CHOOSE i \in DOMAIN Scalars(c) : \A j \in DOMAIN Scalars(c) :
                Length(Scalars(c)[j]) <= Length(Scalars(c)[i]) /\ (j > i => Length(Scalars(c)[j]) < Length(Scalars(c)[i]))
Half(t) == Cut(t, LimitsBytes(t) \div 2)
HalveScalar(c) == CASE Longest(c) = 1 -> [c EXCEPT !.interface = Half(@)]
                    [] Longest(c) = 2 -> [c EXCEPT !.server = Half(@)]
                    [] Longest(c) = 3 -> [c EXCEPT !.ipv4.netmask = Half(@)]

\* Native values that are within the limits of the copies above.
Names == {None, <<"a", "a", "a">>, <<"c", "u">>}
Addresses == {None, <<"a">>, <<"c">>, <<"a", "u">>}
Entries == {<<>>, <<<<"a">>>>, <<<<"a">>, <<"c">>>>}
LimitsNewList(items, cut) == [items |-> items, total |-> Len(items) + (IF cut THEN 1 ELSE 0), truncated |-> cut]
Natives ==
  {[interface |-> i, server |-> i, address |-> a, netmask |-> m.text, mask |-> m.value,
    excluded |-> LimitsNewList(e, FALSE), included |-> LimitsNewList(n, cut), truncated |-> cut] :
     i \in Names, a \in Addresses,
     m \in {[text |-> None, value |-> None], [text |-> <<"c">>, value |-> None]}
             \cup {[text |-> <<"a", "a">>, value |-> v] : v \in 0 .. 2 ^ Bits - 1},
     e \in Entries, n \in Entries, cut \in BOOLEAN}

\* An observed configuration is bounded; then one snapshot with rest other
\* bytes carries it.
LimitsInit == \E n \in Natives :
  s = [phase |-> "limit", native |-> n, full |-> Normalize(n), now |-> Normalize(n), limit |-> ConfigurationMax,
       rest |-> None, answer |-> None]

Exceeds == Size(s.now) > s.limit
\* limit_encoded_size returns true to normalize, which asserts it, or to the
\* fitting, which measures the message once more.
Accept ==
  /\ s.phase \in {"limit", "fit"} /\ ~Exceeds
  /\ s' = IF s.phase = "limit" THEN [s EXCEPT !.phase = "observed"]
          ELSE [s EXCEPT !.phase = "fitted", !.answer = IF s.rest + Size(s.now) > PlaintextMax THEN "error" ELSE "sent"]
OmitEntry ==
  /\ s.phase \in {"limit", "fit"} /\ Exceeds /\ FirstFilled(s.now) # 0
  /\ s' = [s EXCEPT !.now = PopEntry(@)]
Shorten ==
  /\ s.phase \in {"limit", "fit"} /\ Exceeds /\ FirstFilled(s.now) = 0
  /\ LET cut == CutAddress(s.now) IN
       IF Length(Scalars(cut)[Longest(cut)]) > 0
       THEN s' = [s EXCEPT !.now = HalveScalar(cut)]
       ELSE s' = [s EXCEPT !.now = cut,
                    !.phase = IF Size(cut) <= s.limit THEN (IF @ = "limit" THEN "observed" ELSE "fitted")
                              ELSE (IF @ = "limit" THEN "panicked" ELSE "fitted"),
                    !.answer = IF s.phase = "limit" THEN None
                               ELSE IF Size(cut) <= s.limit /\ s.rest + Size(cut) <= PlaintextMax THEN "sent" ELSE "error"]
\* fit_snapshot_message: nothing to do, or the configuration gives up the excess.
Fit(rest) ==
  LET excess == rest + Size(s.now) - PlaintextMax
      fits == [s EXCEPT !.phase = "fitted", !.rest = rest, !.answer = "sent"]
  IN /\ s.phase = "observed"
     /\ s' = IF excess <= 0 THEN fits
             ELSE IF Size(s.now) < excess THEN [fits EXCEPT !.answer = "error"]
             ELSE [s EXCEPT !.phase = "fit", !.rest = rest, !.full = s.now, !.limit = Size(s.now) - excess]
LimitsStutter == s.phase \in {"fitted", "panicked"} /\ UNCHANGED s
LimitsNext == Accept \/ OmitEntry \/ Shorten \/ (\E rest \in Rests : Fit(rest)) \/ LimitsStutter

\* What no further omission can shorten.
LimitsLeast(t) == IF t = None THEN None ELSE <<>>
Barest(c) ==
  [interface |-> LimitsLeast(c.interface), server |-> LimitsLeast(c.server), truncated |-> TRUE,
   excluded |-> [items |-> <<>>, total |-> 0, truncated |-> c.excluded.truncated \/ c.excluded.items # <<>>],
   included |-> [items |-> <<>>, total |-> 0, truncated |-> c.included.truncated \/ c.included.items # <<>>],
   ipv4 |-> IF c.ipv4 = None THEN None
            ELSE [address |-> Cut(c.ipv4.address, AddressMax), netmask |-> LimitsLeast(c.ipv4.netmask), prefix |-> c.ipv4.prefix]]

\* A reader can tell omitted from absent: entries are a prefix of what was
\* negotiated, their total is kept, and whatever is missing is flagged
\* (limit_encoded_size). Entries go before any scalar is shortened, and a
\* prefix length always belongs to a whole address and a contiguous mask.
OmissionsMarked ==
  LET c == s.now n == s.native full == Normalize(n) IN
  /\ \A i \in DOMAIN Lists : LET l == c[Lists[i]] was == n[Lists[i]] IN
       /\ IsPrefix(l.items, was.items) /\ l.total = was.total
       /\ Len(l.items) < l.total => l.truncated /\ c.truncated
  /\ [c EXCEPT !.truncated = FALSE, !.excluded = None, !.included = None]
       # [full EXCEPT !.truncated = FALSE, !.excluded = None, !.included = None]
       => c.truncated /\ \A i \in DOMAIN Lists : c[Lists[i]].items = <<>>
  /\ c.ipv4 # None /\ c.ipv4.prefix # None =>
       /\ c.ipv4.address = n.address
       /\ n.mask = 2 ^ Bits - 2 ^ (Bits - c.ipv4.prefix)

\* Every configuration can be brought under its limit, so normalize's assertion
\* holds; a snapshot is refused only when not even the barest configuration
\* leaves room for it, and one that is sent fits its frame.
LimitsReached ==
  /\ s.phase # "panicked"
  /\ s.phase = "observed" => Size(s.now) <= ConfigurationMax
  /\ s.answer = "sent" => s.rest + Size(s.now) <= PlaintextMax
  /\ s.answer = "error" => s.rest + Size(Barest(s.full)) > PlaintextMax

LimitsSound == OmissionsMarked /\ LimitsReached
=============================================================================
