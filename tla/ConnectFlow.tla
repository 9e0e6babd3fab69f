---------------------------- MODULE ConnectFlow ----------------------------
(***************************************************************************)
(* One connect flow of the gpwidget daemon (daemon/connect_flow.rs): portal *)
(* prelogin, SAML login, portal config, gateway selection, gateway login   *)
(* with its fallback and one-time passwords, and the Connect request.      *)
(* s.cancel is the flow's CancellationToken; the answers of the servers    *)
(* and of the login window are chosen by the environment.                  *)
(***************************************************************************)
EXTENDS Integers, Sequences

CONSTANT MaxOtp    \* one-time passwords a gateway may ask for

VARIABLE s

Modes == {"embedded", "default", "named"}
Pins == {"none", "known", "unknown"}

\* FlowCtx and the configuration the flow runs with.
Init ==
  \E m \in Modes, p \in Pins, allowed \in BOOLEAN :
    s = [pc |-> "prelogin", cancel |-> FALSE, browser |-> m, pin |-> p,
         portalBrowser |-> allowed, window |-> "none", refused |-> FALSE,
         cred |-> "none", prompts |-> 0, sent |-> FALSE, end |-> "none"]

Go(pc) == s' = [s EXCEPT !.pc = pc]
EndWith(kind) == s' = [s EXCEPT !.pc = "ended", !.end = kind]
Cancel == s.end = "none" /\ ~s.cancel /\ s' = [s EXCEPT !.cancel = TRUE]

\* cancellable: a token that is set ends the step that is being awaited.  The
\* future of a login is dropped, but gpauth is run by a blocking thread with a
\* token of its own that nobody sets (SamlAuthLauncher::launch): it goes on.
Awaiting == {"prelogin", "saml", "gw-prelogin", "gw-saml", "otp"}
StepCancelled == s.pc \in Awaiting /\ s.cancel /\ EndWith("cancelled")

\* A step that fails while it is not the portal-cookie login ends the flow.
StepFails ==
  /\ s.pc \in {"prelogin", "saml", "gw-prelogin", "gw-saml"}
  /\ s' = [s EXCEPT !.pc = "ended", !.end = "failed", !.window = "none"]

\* The user finishes or closes a login that no flow waits for any more.
WindowEnds == s.pc = "ended" /\ s.window # "none" /\ s' = [s EXCEPT !.window = "none"]

\* saml_auth: the external browser needs the server's support and, for a
\* gateway, the portal's permission; otherwise the embedded webview is used.
Window(supported, isGateway, allowed) ==
  IF s.browser # "embedded" /\ supported /\ (~isGateway \/ allowed) THEN s.browser ELSE "embedded"
GatewayBrowserAllowed == s.portalBrowser \/ s.browser # "embedded"

\* prelogin answers SAML or Standard; only SAML is supported (obtain_credential).
PortalPrelogin ==
  /\ s.pc = "prelogin"
  /\ \/ \E sup \in BOOLEAN : s' = [s EXCEPT !.pc = "saml", !.window = Window(sup, FALSE, FALSE)]
     \/ EndWith("failed")

PortalSaml == s.pc = "saml" /\ s' = [s EXCEPT !.pc = "discover", !.window = "none", !.cred = "portal"]

\* discover runs to completion; its error counts as a cancellation when the
\* token is set.
Discover ==
  /\ s.pc = "discover"
  /\ \/ Go("select")
     \/ EndWith(IF s.cancel THEN "cancelled" ELSE "failed")

\* No gateways, or a pin that names none of them, ends the flow; the portal
\* cookie is tried first when it can authenticate a gateway.
Select ==
  /\ s.pc = "select"
  /\ \/ EndWith("failed")
     \/ /\ s.pin # "unknown"
        /\ \/ s' = [s EXCEPT !.pc = "cookie-login", !.cred = "cookie"]
           \/ Go("gw-prelogin")

\* gateway_login_with_fallback and login_gateway: a refused cookie falls back
\* to the gateway's own prelogin, unless the flow was cancelled.
LoginRefused ==
  /\ s.pc \in {"cookie-login", "gw-login"}
  /\ IF s.cancel THEN EndWith("cancelled")
     ELSE IF s.pc = "gw-login" THEN EndWith("failed")
     ELSE s' = [s EXCEPT !.pc = "gw-prelogin", !.refused = TRUE, !.cred = "none"]

LoginAccepted == s.pc \in {"cookie-login", "gw-login"} /\ Go("authenticated")

\* GatewayLogin::Mfa: request_otp reports a prompt and waits for the answer.
LoginAsksOtp ==
  /\ s.pc \in {"cookie-login", "gw-login"} /\ s.prompts < MaxOtp
  /\ s' = [s EXCEPT !.pc = "otp", !.prompts = @ + 1]

LoginOfCred == IF s.cred = "cookie" THEN "cookie-login" ELSE "gw-login"
OtpAnswered == s.pc = "otp" /\ Go(LoginOfCred)

\* A prompt that times out or is dismissed fails the login it belongs to.
OtpExpires ==
  /\ s.pc = "otp"
  /\ IF s.cred = "cookie"
     THEN s' = [s EXCEPT !.pc = "gw-prelogin", !.refused = TRUE, !.cred = "none"]
     ELSE EndWith("failed")

GatewayPrelogin ==
  /\ s.pc = "gw-prelogin"
  /\ \E sup \in BOOLEAN :
       s' = [s EXCEPT !.pc = "gw-saml", !.window = Window(sup, TRUE, GatewayBrowserAllowed)]

GatewaySaml ==
  s.pc = "gw-saml" /\ s' = [s EXCEPT !.pc = "gw-login", !.window = "none", !.cred = "gateway"]

\* A non-tunnel session is refused; a tunnel session becomes a Connect request.
CheckMode == s.pc = "authenticated" /\ (EndWith("failed") \/ Go("send"))

SendConnect ==
  /\ s.pc = "send"
  /\ \/ s' = [s EXCEPT !.pc = "ended", !.sent = TRUE, !.end = "submitted"]
     \/ EndWith("failed")

FlowStep ==
  \/ StepCancelled \/ StepFails \/ PortalPrelogin \/ PortalSaml \/ Discover \/ Select
  \/ LoginRefused \/ LoginAccepted \/ LoginAsksOtp \/ OtpAnswered \/ OtpExpires
  \/ GatewayPrelogin \/ GatewaySaml \/ CheckMode \/ SendConnect
Next == FlowStep \/ Cancel \/ WindowEnds
FairSpec == Init /\ [][Next]_s /\ WF_s(FlowStep)

\* The cookie that a gateway refused is never offered again, a request is sent
\* only on a login that the gateway accepted, and a window is open only while
\* its login is awaited or after a cancellation took its flow away.
FlowSafe ==
  /\ s.refused => s.cred # "cookie"
  /\ s.sent => s.cred \in {"cookie", "gateway"} /\ s.end = "submitted"
  /\ s.window # "none" => s.pc \in {"saml", "gw-saml"} \/ s.end = "cancelled"
  /\ s.end = "cancelled" => s.cancel

\* A cancelled flow ends, whatever it was waiting for; without the token it
\* may wait for the user forever.
Owed == s.cancel /\ FlowStep
Ended == s.end # "none"

=============================================================================
