--------------------------- MODULE WebviewSignIn ----------------------------
(***************************************************************************)
(* The embedded sign-in window (crates/auth/src/webview: webview_auth.rs,   *)
(* auth_messenger.rs, recovery.rs, gtk.rs, gtk_tls.rs, gtk_recovery.rs,     *)
(* macos.rs, macos/tls.rs). Three parties: the task that waits for events,  *)
(* the main thread that runs its jobs in order, and the web engine.         *)
(* An event is [k, gen, of]: its kind, the generation it was tagged with,   *)
(* and the generation in which its navigation was really begun.             *)
(***************************************************************************)
EXTENDS Integers, Sequences

CONSTANTS None, MaxNav, MaxQueue, MaxJobs, MaxClicks   \* bounds on navigations, events, jobs and clicks

VARIABLE s

Platforms == {"gtk", "mac"}
Tls == {"tlsOpen", "tlsFixed", "handshake"}     \* a certificate that may be accepted, one that may not, no certificate
Results == {"data", "nodata", "temp", "invalid"}
HeaderResults == {"data", "nodata", "invalid"}

Init ==
  \E p \in Platforms, supplied \in BOOLEAN :
    s = [platform |-> p, supplied |-> supplied, task |-> "wait", outcome |-> None, gen |-> 0, q |-> <<>>, jobs |-> <<[k |-> "load", gen |-> 0]>>,
         status |-> "Hidden", auto |-> 0, bypassed |-> FALSE, restart |-> None, deadline |-> FALSE, shown |-> "Hidden",
         visible |-> FALSE, raise |-> "none", requested |-> None, pending |-> None, nav |-> None, navs |-> 0, reads |-> {},
         cert |-> None, dialog |-> None, clicks |-> 0]

\* RecoveryStatus.
CanContinue(st) == st = "tlsOpen"
CanRetry(st) == st \in {"Failed", "Rejected", "handshake"}
BlocksPage(st) == st \notin {"Hidden", "CertificateBypassed"}
AcceptsAuthData(st) == st \in {"Hidden", "Loading", "CertificateBypassed"}

-----------------------------------------------------------------------------
\* wait_for_auth ends each round with update_recovery, which raises the window.
Job(t, j) == [t EXCEPT !.jobs = Append(@, j)]
UpdateRecovery(t) == Job([t EXCEPT !.visible = @ \/ t.status /= "Hidden"], [k |-> "show", status |-> t.status])
\* A retry plan starts a new attempt: older events no longer count.
Retrying(t, source) == Job([t EXCEPT !.gen = @ + 1, !.deadline = FALSE, !.status = "Restarting", !.restart = source], [k |-> "stop"])
Settled(t) == UpdateRecovery(IF t.status = "Loading" THEN t ELSE [t EXCEPT !.deadline = FALSE])

Ready == s.task = "wait" /\ Len(s.jobs) + 2 <= MaxJobs

\* authenticate: after the wait, late events and a scheduled raise are void.
Finish(t, outcome) == [t EXCEPT !.task = "done", !.outcome = [k |-> outcome.k, of |-> outcome.of], !.gen = @ + 1, !.raise = "none", !.restart = None, !.deadline = FALSE]

\* Mutant: an event of an earlier attempt is handled as one of this attempt.
StaleIgnored(e) == FALSE
Stale(e) == e.k \in Results \cup Tls \cup {"load", "loaded", "accepted"} /\ e.gen /= s.gen

\* Recovery::failure, retry and certificate_accepted, page_loaded.
Failure(t, temporary) ==
  IF ~AcceptsAuthData(t.status) THEN t
  ELSE IF temporary /\ t.auto = 0 THEN Retrying([t EXCEPT !.auto = 1], "fresh")
  ELSE [t EXCEPT !.status = IF temporary THEN "Failed" ELSE "Rejected"]
Retry(t) ==
  IF ~CanRetry(t.status) THEN t ELSE Retrying(t, IF t.status = "handshake" THEN "supplied" ELSE "fresh")
CertificateAccepted(t) ==
  IF ~CanContinue(t.status) THEN t ELSE Retrying([t EXCEPT !.bypassed = TRUE], "supplied")
PageLoaded(t) ==
  IF t.status /= "Loading" THEN t
  ELSE [t EXCEPT !.status = IF t.bypassed THEN "CertificateBypassed" ELSE "Hidden", !.deadline = FALSE]

ScheduleRaiseWindow(t) == IF t.raise = "armed" THEN t ELSE [t EXCEPT !.raise = "armed"]

Handled(t, e) ==
  CASE e.k \in Tls -> [t EXCEPT !.restart = None, !.deadline = FALSE, !.status = e.k]
    [] e.k = "reqTls" -> IF CanContinue(t.status) THEN Job(t, [k |-> "confirm"]) ELSE t
    [] e.k = "accepted" -> CertificateAccepted(t)
    [] e.k = "nodata" -> IF t.visible THEN t ELSE ScheduleRaiseWindow(t)
    [] e.k = "invalid" -> Failure(t, FALSE)
    [] e.k = "temp" -> Failure(t, TRUE)
    [] e.k = "load" -> IF AcceptsAuthData(t.status) THEN [t EXCEPT !.status = "Failed", !.deadline = FALSE] ELSE t
    [] e.k = "retry" -> Retry(t)
    [] e.k = "loaded" -> PageLoaded(t)
    [] e.k = "raise" -> [t EXCEPT !.visible = TRUE]

\* One event of the channel.
Event ==
  /\ Ready /\ s.q /= <<>>
  /\ LET e == Head(s.q)   t == [s EXCEPT !.q = Tail(@)] IN
     s' = IF e.k = "close" THEN Finish(t, e)
          ELSE IF Stale(e) \/ (e.k = "data" /\ ~AcceptsAuthData(s.status)) THEN t
          ELSE IF e.k = "data" THEN Finish(t, e)
          ELSE Settled(Handled(t, e))

\* request_sign_in answers, fails, or runs into its time limit. A request over
\* the network outlasts the job that stops the old page.
Network == s.restart = "fresh" \/ ~s.supplied
Restarted ==
  /\ Ready /\ s.restart /= None
  /\ Network => \A i \in DOMAIN s.jobs : s.jobs[i].k /= "stop"
  /\ \/ s' = UpdateRecovery(Job([s EXCEPT !.restart = None, !.gen = @ + 1, !.status = "Loading", !.deadline = TRUE], [k |-> "load", gen |-> s.gen + 1]))
     \/ s' = UpdateRecovery([s EXCEPT !.restart = None, !.status = "Failed"])
     \/ Network /\ s' = Finish(s, [k |-> "serverTls", of |-> None])
LoadingTimeout == Ready /\ s.deadline /\ s' = UpdateRecovery([s EXCEPT !.deadline = FALSE, !.status = "Failed"])

-----------------------------------------------------------------------------
Send(t, k, gen, of) == [t EXCEPT !.q = Append(@, [k |-> k, gen |-> gen, of |-> of])]
Room == s.task = "wait" /\ Len(s.q) < MaxQueue

\* The main thread. GTK notes the generation of the load it requests and gives it
\* to the next navigation that starts; macOS notes it with the navigation itself.
RunJob ==
  /\ s.task = "wait" /\ s.jobs /= <<>>
  /\ LET j == Head(s.jobs)   t == [s EXCEPT !.jobs = Tail(@)] IN
     CASE j.k = "show" -> s' = [t EXCEPT !.shown = j.status]
       [] j.k = "stop" -> s' = [t EXCEPT !.nav = None, !.requested = None]
       [] j.k = "confirm" -> s' = IF t.cert /= None /\ t.cert = s.gen /\ t.dialog = None THEN [t EXCEPT !.dialog = t.cert] ELSE t
       [] j.k = "load" ->
            IF j.gen /= s.gen THEN s' = t
            ELSE \/ s' = [t EXCEPT !.requested = s.gen, !.pending = s.gen]
                 \/ Room /\ j.gen > 0 /\ s' = Send(t, "load", j.gen, j.gen)

GtkGeneration == IF s.pending /= None THEN s.pending ELSE s.gen
MacGeneration(own) == IF own THEN s.gen ELSE s.requested

\* A navigation starts: the one that was requested, or one of the page itself.
NavigationStarts(own) ==
  /\ s.task = "wait" /\ s.nav = None /\ s.navs < MaxNav
  /\ ~own => s.requested /= None
  /\ LET of == IF own THEN s.gen ELSE s.requested
         tag == IF s.platform = "mac" THEN MacGeneration(own) ELSE GtkGeneration
     IN s' = [s EXCEPT !.nav = [tag |-> tag, of |-> of], !.requested = IF own THEN @ ELSE None, !.pending = None,
                       !.navs = @ + 1, !.raise = "none"]

\* The page is read when it is committed and when it has finished; the engine
\* evaluates both later. A page whose replacement was requested goes no further.
\* One read at a time. The headers and PageLoaded are reported at once.
Read(t, i) == [t EXCEPT !.reads = @ \cup {[tag |-> s.nav.tag, of |-> s.nav.of, n |-> 2 * s.navs + i]}]
Goes == s.task = "wait" /\ s.nav /= None /\ s.requested = None
Committed == Goes /\ s.reads = {} /\ s' = Read(s, 0)
Finished ==
  /\ Goes /\ s.reads = {} /\ Room /\ Len(s.q) + 2 <= MaxQueue
  /\ \/ \E k \in HeaderResults :
          s' = [Send(Send(Read(s, 1), k, s.nav.tag, s.nav.of), "loaded", s.nav.tag, s.nav.of) EXCEPT !.nav = None]
     \/ s' = [Send(Read(s, 1), "loaded", s.nav.tag, s.nav.of) EXCEPT !.nav = None]
ReadDone ==
  /\ Room
  /\ \E r \in s.reads :
       LET t == [s EXCEPT !.reads = @ \ {r}] IN
       s' = t \/ \E k \in Results : s' = Send(t, k, r.tag, r.of)

\* A failed navigation is reported when it is of this attempt.
Failed ==
  /\ Room /\ s.nav /= None
  /\ LET t == [s EXCEPT !.nav = None] IN
     \E k \in IF Goes THEN Tls \cup {"load", "cancelled"} ELSE {"cancelled"} :
       s' = IF k = "cancelled" \/ s.nav.tag /= s.gen THEN t
            ELSE [Send(t, k, s.nav.tag, s.nav.of) EXCEPT !.cert = IF k = "tlsOpen" THEN s.nav.tag ELSE IF k = "tlsFixed" THEN None ELSE @]

\* The certificate dialog; the answer counts for the attempt that it was shown for.
Answered ==
  /\ Room /\ s.dialog /= None
  /\ LET t == [s EXCEPT !.dialog = None] IN
     \/ s' = t
     \/ s.dialog = s.gen /\ s.cert = s.dialog /\ s' = Send([t EXCEPT !.cert = None], "accepted", s.gen, s.gen)

\* The user's buttons are those of the status that is shown.
Click ==
  /\ Room /\ s.clicks < MaxClicks
  /\ \E k \in {"retry", "reqTls", "close"} :
       /\ k = "retry" => CanRetry(s.shown)
       /\ k = "reqTls" => CanContinue(s.shown)
       /\ s' = [Send(s, k, None, None) EXCEPT !.clicks = @ + 1]

RaiseDue == Room /\ s.raise = "armed" /\ s' = [Send(s, "raise", None, None) EXCEPT !.raise = "fired"]

Stutter == UNCHANGED s
Next ==
  \/ Event \/ Restarted \/ LoadingTimeout \/ RunJob \/ Committed \/ Finished \/ ReadDone \/ Failed \/ Answered \/ Click \/ RaiseDue
  \/ (\E own \in BOOLEAN : NavigationStarts(own)) \/ Stutter

-----------------------------------------------------------------------------
\* The data that signs the user in was read from a navigation of the attempt in
\* progress, never of one that was retried since (wait_for_auth's generations);
\* while it waits, a restarting dialog has its request under way and a loading
\* one its deadline, so neither shows a spinner for ever; whatever covers the
\* page is in a raised window; and there is one automatic restart
\* (recovery.rs: "one automatic restart per dialog").
SignInCurrent ==
  /\ s.outcome /= None => (s.outcome.k = "data" => s.outcome.of + 1 = s.gen)
  /\ s.task = "wait" =>
       /\ (s.status = "Restarting") = (s.restart /= None)
       /\ (s.status = "Loading") = s.deadline
       /\ BlocksPage(s.status) => s.visible
       /\ s.dialog /= None => s.dialog <= s.gen
=============================================================================
