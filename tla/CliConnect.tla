----------------------------- MODULE CliConnect -----------------------------
(***************************************************************************)
(* `gpclient connect`: the connection flow, and the store of portal        *)
(* cookies it uses. Each is a specification of its own over s.             *)
(***************************************************************************)
EXTENDS Integers, Sequences, FiniteSets, SequencesExt

CONSTANTS
  None,  \* no value
  MaxPrompts,  \* bound on passphrase prompts
  Procs, MaxCookies, MaxCrashes

VARIABLE s

-----------------------------------------------------------------------------
(***************************************************************************)
(* `gpclient connect` (apps/gpclient/src/connect): the cached cookie, the   *)
(* portal workflow with its choice of gateways, the direct gateway          *)
(* workflow, and the ledger of gateway sessions (gpapi's GatewaySessions)   *)
(* that must be empty when the command returns.                             *)
(*                                                                          *)
(* A login is a number; a member of the ledger is [gw, id]. `live` is what  *)
(* the gateways still hold open.                                            *)
(***************************************************************************)
Portal == "p"
\* What the portal may offer: nothing, one gateway, an external one before an
\* internal one, two internal ones.
Offers == {<<>>, <<"e1">>, <<"e1", "i1">>, <<"i1", "i2">>}
Internal(g) == g \in {"i1", "i2"}

Arguments == {a \in [mode : {"gateway", "auto", "pick"}, out : {"plain", "cookie", "background"}, stdin : BOOLEAN] :
                a.stdin => a.out = "plain"}

ConnectInit ==
  s \in [args : Arguments, cache : {"off", "weak", "good"},
         pc : {"begin"}, route : {None}, gw : {None}, todo : {<<>>}, usable : {FALSE}, fresh : {FALSE}, mode : {None}, auth : {0},
         inner : {FALSE}, modes : {{}}, members : {<<>>}, live : {{}},
         native : {0}, owned : {0}, est : {FALSE}, ready : {FALSE}, disc : {FALSE}, pid : {FALSE},
         cancel : {FALSE}, crashed : {FALSE}, prompts : {0}, err : {None}, res : {None}]

At(pc) == s.pc = pc
Goto(t, pc) == [t EXCEPT !.pc = pc]

\* RecoveryState::terminal: after a rendering crash every other error is final.
Terminal(t, e) == IF t.crashed /\ e /= "cancelled" THEN "recovery" ELSE e

\* `after` tells GatewayConnectFailureStage::AfterEstablishment.
Fail(t, e, after) == [t EXCEPT !.pc = "failed", !.err = Terminal(t, e), !.est = after, !.auth = 0, !.mode = None]
Cancelled(t) == Fail(t, "cancelled", FALSE)

\* The first member with that server.
MemberOf(t, g) == SelectInSeq(t.members, LAMBDA m : m.gw = g)

\* Mutant: the member is removed without a logout.
LogoutForgets(t, g) == LET i == MemberOf(t, g) IN IF i = 0 THEN t ELSE [t EXCEPT !.members = RemoveAt(@, i)]

\* GatewaySessions::logout_gateway, and relinquish_gateway, which leaves the
\* session open.
LogoutGateway(t, g) ==
  LET i == MemberOf(t, g) IN
  IF i = 0 THEN t ELSE [t EXCEPT !.members = RemoveAt(@, i), !.live = @ \ {t.members[i].id}]
RelinquishGateway(t, g) ==
  LET i == MemberOf(t, g) IN
  IF i = 0 THEN t ELSE [t EXCEPT !.members = RemoveAt(@, i), !.owned = t.members[i].id]
LogoutAll(t) == [t EXCEPT !.members = <<>>, !.live = @ \ {t.members[i].id : i \in DOMAIN t.members}]

-----------------------------------------------------------------------------
\* cookie_store::load, and clear of a cookie that cannot authenticate.
Loaded == s.cache \in {"weak", "good"} /\ ~s.args.stdin
ClearCache(t) == [t EXCEPT !.cache = IF @ = "off" THEN "off" ELSE "none"]

\* handle_impl
HandleImpl ==
  /\ At("begin")
  /\ \/ s.cancel /\ s' = Cancelled(s)
     \/ ~s.cancel /\ s.args.stdin /\ s' = Fail(s, "other", FALSE)
     \/ /\ ~s.cancel
        /\ s' = CASE s.args.mode = "gateway" -> [s EXCEPT !.pc = "prelogin", !.route = "direct", !.gw = Portal]
                  [] s.args.mode /= "gateway" /\ Loaded /\ s.cache = "good" ->
                       [s EXCEPT !.pc = "login", !.route = "cached", !.gw = "e1", !.fresh = FALSE]
                  [] OTHER -> [IF Loaded THEN ClearCache(s) ELSE s EXCEPT !.pc = "prelogin", !.route = "portal", !.gw = Portal]

\* The prelogin request of connect_portal_with_prelogin,
\* connect_gateway_with_prelogin and authenticate_gateway. An unreadable client
\* identity is found here.
Prelogin ==
  /\ At("prelogin")
  /\ \/ s.cancel /\ s' = Cancelled(s)
     \/ ~s.cancel /\ \E e \in {"portal", "identity", "nokey", "other"} : s' = Fail(s, e, FALSE)
     \/ /\ ~s.cancel
        /\ s' = CASE s.route = "portal" /\ Loaded /\ s.cache = "good" -> Goto(s, "rediscover")
                  [] s.route = "portal" -> Goto(IF Loaded THEN ClearCache(s) ELSE s, "obtain")
                  [] s.route = "gateways" /\ s.usable -> [s EXCEPT !.pc = "login", !.fresh = FALSE]
                  [] OTHER -> Goto(s, "obtain")

\* The rest of connect_portal_with_prelogin up to the first gateway.
Offered ==
  IF s.cancel THEN s' = Cancelled(s)
  ELSE \E offer \in Offers, usable \in BOOLEAN :
         IF offer = <<>> THEN s' = Fail(s, "other", FALSE)
         ELSE LET t == [s EXCEPT !.route = "gateways", !.pc = "prelogin", !.usable = usable]
              IN IF s.args.mode = "auto" THEN s' = [t EXCEPT !.gw = Head(offer), !.todo = Tail(offer)]
                 ELSE \/ \E g \in ToSet(offer) : s' = [t EXCEPT !.gw = g, !.todo = <<>>]
                      \/ s' = Fail(s, "other", FALSE)

\* discover with the cached credential: its failure only costs the cache.
Rediscover ==
  /\ At("rediscover")
  /\ \/ Offered
     \/ s' = IF s.cancel THEN Cancelled(s) ELSE Goto(ClearCache(s), "obtain")

\* obtain_credential_with_recovery: a rendering crash is retried once, with a
\* fresh prelogin response. A credential on stdin needs no authenticator.
Obtain ==
  /\ At("obtain")
  /\ LET webview == ~(s.args.stdin /\ (s.route = "portal" \/ s.args.mode = "gateway"))
         t == [s EXCEPT !.fresh = TRUE]
     IN \/ s.cancel /\ s' = Cancelled(s)
        \/ ~s.cancel /\ s' = Goto(t, IF s.route = "portal" THEN "discover" ELSE "login")
        \/ ~s.cancel /\ s' = Fail(t, "other", FALSE)
        \/ ~s.cancel /\ webview /\ ~s.crashed /\ \E ok \in BOOLEAN :
             s' = IF ok THEN [t EXCEPT !.crashed = TRUE] ELSE Fail([t EXCEPT !.crashed = TRUE], "other", FALSE)

\* discover with a fresh credential.
Discover ==
  /\ At("discover")
  /\ \/ s.cancel /\ s' = Cancelled(s)
     \/ ~s.cancel /\ Offered
     \/ ~s.cancel /\ \E e \in {"portal", "other"} : s' = Fail(s, e, FALSE)

-----------------------------------------------------------------------------
\* A portal cookie that is refused leads to the gateway's own authentication.
LoginFailed(t, e) ==
  IF t.route = "gateways" /\ ~t.fresh /\ e = "refused" /\ ~t.crashed
  THEN Goto(t, "obtain")
  ELSE Fail(IF t.route = "cached" /\ e = "refused" THEN ClearCache(t) ELSE t, e, FALSE)

\* login_gateway; the ledger owns a session as soon as it is issued.
Login ==
  /\ At("login")
  /\ \/ s.cancel /\ s' = Cancelled(s)
     \/ ~s.cancel /\ \E e \in {"protocol", "refused"} : s' = LoginFailed(s, e)
     \/ /\ ~s.cancel
        /\ \E mode \in {"tunnel", "nontunnel"} :
             LET id == Min(1..(Cardinality(s.live) + 1) \ s.live)
                 t == [s EXCEPT !.live = @ \cup {id}, !.auth = id, !.mode = mode,
                                !.members = Append(@, [gw |-> s.gw, id |-> id])]
             IN s' = Goto(t, "accepted")

\* What the callers do with an accepted login: bind a non-tunnel session,
\* save the cookie, print it, refuse it, or open the tunnel.
Accepted ==
  /\ At("accepted")
  /\ LET cookieOnly == s.args.out = "cookie"
         saved == IF s.route = "gateways" /\ ~s.fresh /\ s.cache /= "off" THEN [s EXCEPT !.cache = "good"] ELSE s
     IN IF s.cancel THEN s' = Cancelled(s)
        ELSE IF s.route = "gateways" /\ Internal(s.gw) /\ s.mode = "nontunnel" /\ ~cookieOnly
        THEN \E bound \in BOOLEAN : s' = IF bound THEN Goto(saved, "internal") ELSE Fail(s, "protocol", FALSE)
        ELSE IF s.inner THEN s' = Goto(saved, "internal")
        ELSE IF cookieOnly THEN s' = [saved EXCEPT !.pc = "finish", !.res = "ok"]
        ELSE IF s.mode = "nontunnel"
        THEN s' = IF s.route = "cached" THEN [LogoutGateway(s, s.gw) EXCEPT !.pc = "prelogin", !.route = "portal", !.gw = Portal]
                  ELSE Fail(saved, "other", TRUE)
        ELSE s' = Goto(saved, "connect")

\* connect_internal_gateways: the other candidates are authenticated too, and
\* they must agree on the mode; then run_internal_session.
InternalNext ==
  /\ At("internal")
  /\ LET t == [s EXCEPT !.inner = TRUE, !.modes = @ \cup {s.mode}] IN
     IF ~s.inner /\ (s.args.out = "background" \/ \E g \in ToSet(s.todo) : ~Internal(g))
     THEN s' = Fail(s, "other", TRUE)
     ELSE IF s.cancel THEN s' = Fail(t, "cancelled", TRUE)
     ELSE IF t.todo /= <<>> THEN s' = [t EXCEPT !.pc = "prelogin", !.gw = Head(t.todo), !.todo = Tail(t.todo)]
     ELSE IF t.modes /= {"nontunnel"} THEN s' = Fail(t, "other", TRUE)
     ELSE s' = Goto(t, "maintain")

\* run_internal_session: set-up may fail before the PID file is written.
Maintain ==
  /\ At("maintain")
  /\ \/ s' = Fail(s, "other", TRUE)
     \/ \E wrote, ok \in BOOLEAN :
          LET t == [s EXCEPT !.pid = wrote] IN
          s' = IF ok /\ s.cancel THEN [t EXCEPT !.pc = "finish", !.res = "ok"] ELSE Fail(t, "other", TRUE)

-----------------------------------------------------------------------------
\* connect_gateway up to the start of the native worker.
Connect ==
  /\ At("connect")
  /\ \/ s.cancel /\ s' = Fail(s, "cancelled", TRUE)
     \/ ~s.cancel /\ s' = Fail(s, "other", FALSE)
     \/ ~s.cancel /\ s' = [RelinquishGateway(s, s.gw) EXCEPT !.pc = "tunnel", !.native = s.auth, !.est = FALSE,
                                                             !.ready = FALSE, !.disc = FALSE]

\* The callback of vpn.connect.
Established ==
  /\ At("tunnel") /\ s.native /= 0 /\ ~s.est /\ ~s.cancel
  /\ \E wrote \in BOOLEAN : s' = [s EXCEPT !.est = TRUE, !.pid = wrote]

\* wait_for_tunnel_exit: log out what is not used, then publish readiness;
\* a background worker may fail to detach, and does not try without a PID file.
OnReady ==
  /\ At("tunnel") /\ s.native /= 0 /\ s.est /\ ~s.ready
  /\ \E failed \in BOOLEAN :
       LET t == FoldLeft(LAMBDA acc, m : IF m.gw = s.gw THEN acc ELSE LogoutGateway(acc, m.gw), s, s.members) IN
       /\ failed => s.args.out = "background"
       /\ s.args.out = "background" /\ ~s.pid => failed
       /\ s' = [t EXCEPT !.ready = TRUE, !.cancel = @ \/ failed, !.err = IF failed THEN "output" ELSE @]

\* The task that waits for the cancellation asks the tunnel to stop.
DisconnectTask == At("tunnel") /\ s.cancel /\ ~s.disc /\ s' = [s EXCEPT !.disc = TRUE]

\* The worker returns; classify_openconnect_result. OpenConnect has logged its
\* own session out.
WorkerExit ==
  /\ At("tunnel") /\ s.native /= 0
  /\ \E code \in {"zero", "interrupted", "error"} :
       LET t == [s EXCEPT !.native = 0, !.owned = 0, !.live = @ \ {s.native}] IN
       s' = IF s.err = "output" THEN Fail(t, "other", TRUE)
            ELSE IF code = "zero" \/ (code = "interrupted" /\ s.disc) THEN [t EXCEPT !.pc = "finish", !.res = "ok"]
            ELSE Fail(t, "other", s.est)

-----------------------------------------------------------------------------
\* Where a failed step leads. LoggedOut: what the caller did before.
Over(t) == [t EXCEPT !.pc = "finish", !.res = "err"]
LoggedOut == LogoutGateway(s, s.gw)
NextGateway(t) == [t EXCEPT !.pc = "prelogin", !.gw = Head(s.todo), !.todo = Tail(s.todo)]

\* try_cached_cookie falls back to the portal.
CachedFailed ==
  /\ At("failed") /\ s.route = "cached"
  /\ s' = IF s.cancel \/ s.err = "protocol" THEN Over(s)
          ELSE [LoggedOut EXCEPT !.pc = "prelogin", !.route = "portal", !.gw = Portal, !.est = FALSE]

\* connect_internal_gateways goes on with the other candidates.
InternalFailed ==
  /\ At("failed") /\ s.route = "gateways" /\ s.inner
  /\ s' = IF s.est THEN Over(s)
          ELSE IF s.cancel \/ s.crashed THEN Over(LoggedOut)
          ELSE IF s.todo /= <<>> THEN NextGateway(LoggedOut)
          ELSE IF s.modes = {"nontunnel"} THEN Goto(LoggedOut, "maintain") ELSE Over(LoggedOut)

\* --auto-gateway tries the next gateway until one was established.
AutoFailed ==
  /\ At("failed") /\ s.route = "gateways" /\ s.args.mode = "auto" /\ ~s.inner
  /\ s' = IF s.crashed \/ s.est \/ s.todo = <<>> THEN Over(LoggedOut) ELSE NextGateway(LoggedOut)

\* A portal error leads to the direct workflow (handle_impl), an unreadable key
\* to a prompt (handle_attempt), everything else to the end.
AttemptFailed ==
  /\ At("failed") /\ s.route /= "cached" /\ ~(s.route = "gateways" /\ (s.inner \/ s.args.mode = "auto"))
  /\ IF s.err = "portal" /\ s.route /= "direct" THEN s' = [s EXCEPT !.pc = "prelogin", !.route = "direct", !.gw = Portal]
     ELSE IF s.err = "nokey" THEN s' = [Over(s) EXCEPT !.res = "ok"]
     ELSE \/ s.err = "identity" /\ s.prompts < MaxPrompts /\ s' = [s EXCEPT !.pc = "begin", !.prompts = @ + 1]
          \/ s' = Over(s)

\* handle: the ledger is drained, except for the cookie that was asked for.
Handle ==
  /\ At("finish")
  /\ LET t == IF s.args.out = "cookie" /\ s.res = "ok" THEN [s EXCEPT !.members = <<>>] ELSE LogoutAll(s)
     IN s' = [t EXCEPT !.pc = "done", !.pid = FALSE, !.todo = <<>>, !.modes = {}, !.gw = None, !.mode = None,
                       !.route = None, !.err = None, !.auth = 0]

\* A signal (gpapi::utils::shutdown_signal).
Interrupt == s.pc /= "done" /\ ~s.cancel /\ s' = [s EXCEPT !.cancel = TRUE]

Done == At("done") /\ UNCHANGED s

ConnectNext == HandleImpl \/ Prelogin \/ Rediscover \/ Obtain \/ Discover \/ Login \/ Accepted \/ InternalNext \/ Maintain
        \/ Connect \/ Established \/ OnReady \/ DisconnectTask \/ WorkerExit \/ CachedFailed \/ InternalFailed
        \/ AutoFailed \/ AttemptFailed \/ Handle \/ Interrupt \/ Done

-----------------------------------------------------------------------------
\* No gateway session is forgotten: what a gateway holds open is in the ledger
\* or belongs to the tunnel; a tunnel was given the very login it runs on; a
\* published tunnel is the only session left; and when the command returns,
\* only `--cookie-only` leaves one behind (gateway_sessions.rs, gateway.rs).
SessionsOwned ==
  /\ s.live \subseteq {s.members[i].id : i \in DOMAIN s.members} \cup {s.native}
       \/ (At("done") /\ s.args.out = "cookie" /\ s.res = "ok")
  /\ s.native /= 0 => s.owned = s.native
  /\ s.ready /\ s.native /= 0 => s.members = <<>>
  /\ At("done") /\ s.live /= {} => s.args.out = "cookie" /\ s.res = "ok"

-----------------------------------------------------------------------------
(***************************************************************************)
(* The portal cookie that `gpclient connect --cookie-cache` keeps in a file *)
(* (gpapi cookie_store.rs, gpclient connect/gateway.rs): several gpclients  *)
(* load, clear and replace one file, and nothing is synced.                 *)
(***************************************************************************)
Gateways == 1..2
Servers == {"s1", "s2"}

\* StoredCookie; version 0 is a file that does not parse.
StoredCookie == [version : 0..2, server : Servers, host_id : {"h", "old"}, last_gateway : Gateways,
                 cookie : 0..MaxCookies, strong : BOOLEAN]
Torn(r) == [r EXCEPT !.version = 0]
Named(r) == <<r.cookie, r.last_gateway>>
New(server, cookie) ==
  [version |-> 1, server |-> server, host_id |-> "h", last_gateway |-> 1, cookie |-> cookie, strong |-> TRUE]
First == New("s1", 0)

\* accepted: which gateway took which cookie; dropped: the records that someone
\* cleared because they were refused, since the last crash.
CookieInit ==
  \E file \in {None, First, Torn(First)} \cup {[First EXCEPT !.version = 2], [First EXCEPT !.host_id = "old"], [First EXCEPT !.strong = FALSE]},
     server \in {f \in [Procs -> Servers] : "s1" \in {f[p] : p \in Procs}} :
    s = [file |-> file, disk |-> file, server |-> server, issued |-> 0, accepted |-> {Named(First)}, dropped |-> {},
         pc |-> [p \in Procs |-> "idle"], got |-> [p \in Procs |-> None], tried |-> [p \in Procs |-> 0], crashes |-> 0]

CookieAt(p, pc) == s.pc[p] = pc
CookieTo(p, pc) == [s EXCEPT !.pc[p] = pc]
End(p) == [s EXCEPT !.pc[p] = "idle", !.got[p] = None, !.tried[p] = 0]

\* load: a file that is missing, unreadable or another's is as none.
Load(p) ==
  IF s.file # None /\ s.file.version = 1 /\ s.file.server = s.server[p] /\ s.file.host_id = "h" THEN s.file ELSE None

\* clear: whatever is at the path is removed.
Clear(p, next) ==
  s' = [CookieTo(p, next) EXCEPT !.file = None, !.got[p] = None,
          !.dropped = IF s.got[p].strong THEN @ \cup {Named(s.got[p])} ELSE @]

Start(p) == CookieAt(p, "idle") /\ s' = CookieTo(p, "try")

\* try_cached_cookie and cached_portal_credential: the file is read, and a
\* cookie that cannot authenticate is cleared, in two steps.
ReadCookie(p, at, use, clear, none) ==
  /\ CookieAt(p, at)
  /\ LET r == Load(p)
     IN s' = CASE r = None -> CookieTo(p, none)
               [] r # None /\ r.strong -> [CookieTo(p, use) EXCEPT !.got[p] = r]
               [] OTHER -> [CookieTo(p, clear) EXCEPT !.got[p] = r]

\* try_cached_cookie: the stored gateway takes the cookie or refuses it; a
\* cancellation, or an answer that is not understood, leaves the file alone, and
\* so does a login that only the connection after it fails.
TryCachedCookie(p) ==
  \/ ReadCookie(p, "try", "login", "clearCached", "portal")
  \/ CookieAt(p, "login") /\ (s' = End(p) \/ s' = CookieTo(p, "clearCached") \/ s' = [CookieTo(p, "portal") EXCEPT !.got[p] = None])
  \/ CookieAt(p, "clearCached") /\ Clear(p, "portal")

\* connect_portal_with_prelogin: the cached credential of the portal, cleared
\* when the portal refuses it, then a fresh one; either brings a new cookie.
CookieDiscover(p) ==
  /\ s.issued < MaxCookies
  /\ s' = [CookieTo(p, "gateways") EXCEPT !.issued = @ + 1, !.got[p] = New(s.server[p], s.issued + 1)]
CachedPortalCredential(p) ==
  \/ ReadCookie(p, "portal", "discover", "clearPortal", "fresh")
  \/ CookieAt(p, "discover") /\ (CookieDiscover(p) \/ s' = End(p) \/ s' = CookieTo(p, "clearPortal"))
  \/ CookieAt(p, "clearPortal") /\ Clear(p, "fresh")
  \/ CookieAt(p, "fresh") /\ (CookieDiscover(p) \/ s' = End(p))

\* authenticate_gateway: the gateways in turn; the one that takes the portal's
\* cookie is saved with it.  A portal's cookie that cannot authenticate is taken
\* by none.
AuthenticateGateway(p) ==
  /\ CookieAt(p, "gateways")
  /\ \/ s' = End(p)
     \/ LET g == s.tried[p] + 1
            r == [s.got[p] EXCEPT !.last_gateway = g]
            after == [s EXCEPT !.tried[p] = g]
        IN /\ g \in Gateways
           /\ \/ s' = after
              \/ s' = [after EXCEPT !.pc[p] = "save", !.got[p] = r, !.accepted = @ \cup {Named(r)}]

\* save: a private file beside the cookie, renamed over it; an error leaves the
\* file as it was, and is only logged.
Save(p) ==
  CookieAt(p, "save") /\ (s' = CookieTo(p, "gateways") \/ s' = [CookieTo(p, "gateways") EXCEPT !.file = s.got[p]])

\* The system writes back when it likes; a crash before that keeps the old file,
\* the new one, or the new name without its bytes.
Writeback == s.disk # s.file /\ s' = [s EXCEPT !.disk = s.file]
Crash ==
  /\ s.crashes < MaxCrashes
  /\ \E f \in {s.file, s.disk} \cup (IF s.file \in {None, s.disk} THEN {} ELSE {Torn(s.file)}) :
       s' = [s EXCEPT !.crashes = @ + 1, !.file = f, !.disk = f, !.dropped = {},
               !.pc = [p \in Procs |-> "idle"], !.got = [p \in Procs |-> None], !.tried = [p \in Procs |-> 0]]

CookieConnect(p) == Start(p) \/ TryCachedCookie(p) \/ CachedPortalCredential(p) \/ AuthenticateGateway(p) \/ Save(p)
CookieNext == Writeback \/ Crash \/ \E p \in Procs : CookieConnect(p)

\* A gpclient presents only a whole cookie, of its own portal and host, to the
\* gateway that took it before (gateway.rs:80-132); and a cookie that was cleared
\* because it was refused is not found again, whoever saves in between.
CookiesSound ==
  /\ s.file \in StoredCookie \cup {None}
  /\ \A p \in Procs : s.pc[p] \in {"login", "discover"} =>
       /\ s.got[p].version = 1 /\ s.got[p].server = s.server[p] /\ s.got[p].host_id = "h"
       /\ Named(s.got[p]) \in s.accepted
  /\ (s.file # None /\ s.file.version = 1 /\ s.file.strong) => Named(s.file) \in s.accepted \ s.dropped
=============================================================================
