---------------------------- MODULE GatewayLogin ----------------------------
(***************************************************************************)
(* The gateway login (crates/gpapi/src/gateway/login.rs): the request and    *)
(* what it carries, its cancellation, the challenges of a second factor, the *)
(* reading of an issued session, the clean-up of one that cannot be used,    *)
(* and the same request again to extend a session (gateway/session.rs).      *)
(*                                                                          *)
(* A session has the number of the request that opened it. An extension is   *)
(* about the session it extends.                                             *)
(***************************************************************************)
EXTENDS Integers, Sequences

CONSTANTS MaxRounds, None

VARIABLE s

\* Mac and Windows differ from iOS in no answer and from Linux in no field but one.
ClientOs == {"Linux", "iOS"}

\* A cookie of the portal: absent, blank, the text "empty", or one that counts.
Cookies == {"", "blank", "empty", "cookie"}
Credentials ==
  [kind : {"password"}, password : {"pw"}, cookie : {None}, prelogon : {None}, prelogin : {None}]
  \cup [kind : {"prelogin"}, password : {None}, cookie : {None, "cookie"}, prelogon : {None}, prelogin : {None, "cookie"}]
  \cup [kind : {"authCookie"}, password : {None, "pw"}, cookie : Cookies, prelogon : {"", "cookie"}, prelogin : {None}]
  \cup [kind : {"cached"}, password : {None, "pw"}, cookie : Cookies \cup {None}, prelogon : {"", "cookie"}, prelogin : {None}]

IsGatewayAuthCookie(c) == c \notin {None, "", "blank", "empty"}
CanAuthenticateGateway(cred) ==
  cred.kind \in {"password", "prelogin"} \/ IsGatewayAuthCookie(cred.cookie)
  \/ (cred.cookie # None /\ IsGatewayAuthCookie(cred.prelogon))

SamlPassword(os) == IF os = "Linux" THEN "SAMLPASS" ELSE ""
PortalCookieParam(c) == IF c \in {None, ""} THEN "empty" ELSE c
OrDefault(value, default) == IF value = None THEN default ELSE value

\* params::credential::build: the fields of each kind of credential.
CredentialParams(cred, os) ==
  [passwd |-> CASE cred.kind \in {"prelogin", "authCookie"} -> OrDefault(cred.password, SamlPassword(os))
                [] OTHER -> OrDefault(cred.password, ""),
   prelogin |-> OrDefault(cred.prelogin, ""),
   cookie |-> PortalCookieParam(cred.cookie),
   prelogon |-> PortalCookieParam(IF cred.cookie = None THEN None ELSE cred.prelogon)]

\* params::gateway_login::build: an answer to a challenge replaces the password.
Request(extend) ==
  LET body == CredentialParams(s.cred, s.os) IN
  [passwd |-> OrDefault(s.otp, body.passwd), input |-> OrDefault(s.input, ""), extend |-> extend,
   cookie |-> body.cookie, prelogon |-> body.prelogon]

Challenges == <<"c1", "c2", "c3">>
Codes == <<"o1", "o2", "o3">>

\* What the gateway, or the network, answers. An argument is a value, one of
\* the texts for none (empty, "(null)", "-1"), or cannot be decoded.
Plain(kind) == [kind |-> kind, user |-> "x", cookie |-> "x", other |-> "x", mode |-> "tunnel", fits |-> TRUE]
Issues ==
  [kind : {"jnlp"}, user : {"x", "null"}, cookie : {"x", "null", "bad"}, other : {"x", "bad"},
   mode : {"tunnel", "other", "blank", "null", "bad"}, fits : BOOLEAN]
Kinds == {"network", "tls", "rejected", "status", "empty", "challenge", "badChallenge", "entity", "malformed", "notJnlp", "refused"}
Answers == Issues \cup {Plain(k) : k \in Kinds}

\* read_required_arg, read_optional_arg and build_gateway_token.
ReadArg(raw) == IF raw = "null" THEN None ELSE raw
Required(raw) == ReadArg(raw) \notin {None, "bad"}
BuildGatewayToken(a) == Required(a.cookie) /\ Required(a.user) /\ ReadArg(a.other) # "bad"
\* GatewayAuthentication::new, on a token that has been built, and a mode.
Usable(a) == a.fits /\ ReadArg(a.mode) \notin {None, "bad", "blank"}
Mode(a) == IF a.mode = "tunnel" THEN "Tunnel" ELSE "NonTunnel"

Init ==
  \E cred \in Credentials, os \in ClientOs :
    s = [pc |-> "ready", cancelled |-> FALSE, cred |-> cred, os |-> os, input |-> None, otp |-> None, req |-> None,
         answer |-> None, arrived |-> FALSE, round |-> 0, opened |-> {}, read |-> {}, owned |-> {}, mode |-> None,
         logouts |-> {}, url |-> 0, result |-> None]

Cancel == ~s.cancelled /\ s' = [s EXCEPT !.cancelled = TRUE]

Failed(why) == [s EXCEPT !.pc = "failed", !.result = why, !.answer = None]

\* GatewayLoginClient::login, up to the request.
Login ==
  /\ s.pc = "ready" /\ s.round < MaxRounds
  /\ s' = IF s.cancelled THEN Failed("Cancelled")
          ELSE [s EXCEPT !.pc = "sent", !.round = @ + 1, !.req = Request(FALSE), !.answer = None, !.arrived = FALSE]

\* The gateway, and the network. A session is open once the gateway answers
\* with its cookie; challenges end with the bound.
Subject == IF s.req.extend THEN s.owned ELSE {s.round}
Serve(a) ==
  /\ s.pc \in {"sent", "extending"} /\ s.answer = None
  /\ a.kind = "challenge" => s.round < MaxRounds \/ s.req.extend
  /\ s' = [s EXCEPT !.answer = a,
              !.opened = IF a.kind = "jnlp" /\ a.cookie = "x" THEN @ \cup Subject ELSE @]
Arrive == s.pc \in {"sent", "extending"} /\ s.answer # None /\ ~s.arrived /\ s' = [s EXCEPT !.arrived = TRUE]

\* The biased select: a whole answer before the cancellation.
CancelRequest == s.pc = "sent" /\ s.cancelled /\ ~s.arrived /\ s' = Failed("Cancelled")

\* receive_gateway_login and parse_login_response.
Errors(a) ==
  CASE a.kind = "tls" -> "ServerTlsError"
    [] a.kind = "network" -> "NetworkError"
    [] a.kind = "rejected" /\ s.os = "iOS" -> "AuthenticationRejected"
    [] a.kind \in {"rejected", "status"} -> "Response"
    [] a.kind = "empty" -> "Empty"
    [] a.kind = "badChallenge" -> "Challenge"
    [] a.kind \in {"entity", "malformed", "notJnlp", "refused"} -> "ProtocolError"
    [] a.kind = "jnlp" /\ ~BuildGatewayToken(a) -> "ProtocolError"
    [] OTHER -> None
Receive ==
  /\ s.pc = "sent" /\ s.arrived
  /\ LET a == s.answer IN
     s' = CASE Errors(a) # None -> Failed(Errors(a))
            [] a.kind = "challenge" -> [s EXCEPT !.pc = "challenge", !.url = s.round]
            [] Usable(a) ->
                 [s EXCEPT !.pc = "done", !.url = s.round, !.read = @ \cup Subject, !.owned = {s.round}, !.mode = Mode(a), !.answer = None]
            [] OTHER -> [s EXCEPT !.pc = "cleanup", !.read = @ \cup Subject]

\* The caller asks the user; respond_mfa keeps the two parts of the answer.
RespondMfa ==
  /\ s.pc = "challenge"
  /\ s' = [s EXCEPT !.pc = "ready", !.input = Challenges[s.round], !.otp = Codes[s.round], !.answer = None]
Dismiss == s.pc = "challenge" /\ s' = Failed("Dismissed")

\* The clean-up goes on when the caller is cancelled; its own result is only
\* logged. logout_cookie has the cookie and the origin, no mode.
LogoutCookie ==
  /\ s.pc = "cleanup"
  /\ s' = [Failed("ProtocolError") EXCEPT !.logouts = @ \cup Subject]

\* extend_session_lifetime: the retained client, parameters and credential.
Extend == s.pc = "done" /\ s.result = None /\ s' = [s EXCEPT !.pc = "extending", !.req = Request(TRUE), !.answer = None, !.arrived = FALSE]
ExtendAnswered ==
  /\ s.pc = "extending" /\ s.arrived
  /\ LET a == s.answer IN
     s' = CASE Errors(a) # None -> [s EXCEPT !.pc = "done", !.result = "NotExtended", !.answer = None]
            [] a.kind = "challenge" -> [s EXCEPT !.pc = "done", !.result = "Interactive", !.answer = None]
            [] Usable(a) -> [s EXCEPT !.pc = "message", !.answer = None]
            [] OTHER -> [s EXCEPT !.pc = "cleanup"]
\* extend_session: agentmessage.esp, with the cookie of the running session.
AgentMessage ==
  s.pc = "message" /\ \E result \in {"Extended", "NotExtended"} : s' = [s EXCEPT !.pc = "done", !.result = result]

Stutter == (s.pc = "failed" \/ (s.pc = "done" /\ s.result # None)) /\ UNCHANGED s
Next ==
  \/ Cancel \/ Login \/ Arrive \/ CancelRequest \/ Receive \/ RespondMfa \/ Dismiss \/ LogoutCookie
  \/ Extend \/ ExtendAnswered \/ AgentMessage
  \/ \E a \in Answers : Serve(a)
  \/ Stutter
Spec == Init /\ [][Next]_s

\* A session whose cookie the client could read is with the caller or a logout
\* was sent for it, also when the login was cancelled in the meantime; only the
\* answer to an extension ends one that a caller owns. The code of the user goes
\* with the challenge that it answers, in place of the password; the certificate
\* and address that a caller pins are those of the answer that issued its
\* session; a stored cookie is said to authenticate a gateway just when the
\* request carries one (login.rs, gateway_login.rs, credential.rs).
LoginAccounted ==
  /\ s.pc \in {"ready", "challenge", "failed", "done"} => s.read \subseteq s.owned \cup s.logouts
  /\ (\E i \in s.owned \cap s.logouts : TRUE) => s.req.extend
  /\ s.owned # {} => s.owned = {s.url} /\ s.mode # None
  /\ s.pc \in {"sent", "extending"} =>
       /\ s.req.input = "" <=> s.otp = None
       /\ s.req.input # "" => \E r \in 1 .. s.round : s.req.input = Challenges[r] /\ s.req.passwd = Codes[r]
       /\ s.cred.kind \in {"authCookie", "cached"} =>
            CanAuthenticateGateway(s.cred) = (\E c \in {s.req.cookie, s.req.prelogon} : c \notin {"empty", "blank"})
=============================================================================
