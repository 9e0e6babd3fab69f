--------------------------- MODULE TunnelMonitor ----------------------------
(***************************************************************************)
(* One tunnel's observed state and statistics (gptunnel monitor.rs): native *)
(* events, the demand for statistics and the sampler meet at one lock, and  *)
(* every change is published with a sequence number.                        *)
(***************************************************************************)
EXTENDS Integers

CONSTANTS Configs, Transports, None, MaxSeq

VARIABLE s

Init ==
  s = [phase |-> "Establishing", transport |-> "Negotiating", config |-> None, observed |-> FALSE,
       revision |-> 0, stateSeq |-> 1, seq |-> 1, statSeq |-> 1, started |-> FALSE, enabled |-> FALSE,
       generation |-> 0, pending |-> None, sample |-> None, stat |-> "Disabled", finished |-> FALSE,
       native |-> "idle"]

Active(f) == ~f.finished /\ f.phase = "Connected" /\ f.transport \in {"IpsecEsp", "SslTls"}

\* invalidate_statistics and state_changed: the state takes the next number and
\* the statistics the one after it.
InvalidState(f) ==
  IF f.finished THEN "Ended"
  ELSE IF ~f.enabled THEN "Disabled"
  ELSE IF f.sample # None \/ ~Active(f) THEN "Stale"
  ELSE "Waiting"
\* Mutant: one number for the state and its statistics.
StateChangedOnce(f) ==
  [f EXCEPT !.seq = @ + 1, !.stateSeq = f.seq + 1, !.statSeq = f.seq + 1, !.stat = InvalidState(f)]

StateChanged(f) ==
  [f EXCEPT !.seq = @ + 2, !.stateSeq = f.seq + 1, !.statSeq = f.seq + 2, !.stat = InvalidState(f)]
StatChanged(f) == [f EXCEPT !.seq = @ + 1, !.statSeq = f.seq + 1]

Bounded == s.seq < MaxSeq
Event == ~s.finished /\ Bounded
Changed(f, g) == s' = IF f = g THEN f ELSE StateChanged(g)

\* apply, one event each.
Configuration ==
  /\ Event
  /\ \E c \in Configs \cup {None} :
       Changed(s, IF s.observed /\ s.config = c THEN s
                  ELSE [s EXCEPT !.observed = TRUE, !.config = c, !.revision = @ + 1])
Established ==
  /\ Event
  /\ s' = IF s.phase = "Connected" THEN [s EXCEPT !.started = TRUE]
          ELSE StateChanged([s EXCEPT !.started = TRUE, !.phase = "Connected"])
Reconnected == Event /\ Changed(s, IF s.started THEN [s EXCEPT !.phase = "Connected"] ELSE s)
Reconnecting == Event /\ Changed(s, [s EXCEPT !.phase = IF s.started THEN "Reconnecting" ELSE "Establishing"])
Transport == Event /\ \E t \in Transports : Changed(s, [s EXCEPT !.transport = t])

\* receive_statistics: an answer counts only for the demand and the state it
\* was requested in.
Current(f) ==
  /\ f.enabled /\ Active(f)
  /\ f.pending.generation = f.generation /\ f.pending.state = f.stateSeq
Statistics ==
  /\ s.native = "asked" /\ ~s.finished
  /\ s' = IF s.pending = None THEN [s EXCEPT !.native = "idle"]
          ELSE IF ~Current(s) THEN [s EXCEPT !.native = "idle", !.pending = None]
          ELSE [StatChanged(s) EXCEPT !.native = "idle", !.pending = None, !.stat = "Fresh",
                  !.sample = [state |-> s.stateSeq, revision |-> s.revision, seq |-> s.seq + 1]]

\* finish, at the native Ended event and again when the owner stops.
Finish ==
  /\ ~s.finished
  /\ s' = StateChanged([s EXCEPT !.finished = TRUE, !.enabled = FALSE, !.pending = None,
                          !.phase = "Ended", !.transport = "Unavailable"])

\* set_statistics_enabled.
Enable(on) ==
  /\ ~s.finished /\ s.enabled # on /\ Bounded
  /\ s' = [StatChanged(s) EXCEPT !.enabled = on, !.generation = @ + 1,
             !.stat = IF on THEN "Waiting" ELSE "Disabled"]

\* request_sample: the sampler asks the native side, which may be busy or fail;
\* one request is outstanding, and one that is late makes the view stale.
Asking == ~s.finished /\ s.enabled /\ Active(s) /\ Bounded
RequestSample ==
  /\ Asking /\ s.pending = None /\ s.native = "idle"
  /\ s' = [s EXCEPT !.native = "asked", !.pending = [generation |-> s.generation, state |-> s.stateSeq]]
RequestFails ==
  /\ Asking /\ s.pending = None
  /\ s' = [StatChanged(s) EXCEPT !.stat = "Stale"]
SampleLate == Asking /\ s.pending # None /\ s.stat # "Stale" /\ s' = [StatChanged(s) EXCEPT !.stat = "Stale"]

Sampler == RequestSample \/ Statistics
Next ==
  \/ Configuration \/ Established \/ Reconnected \/ Reconnecting \/ Transport \/ Finish
  \/ Statistics \/ RequestSample \/ RequestFails \/ SampleLate
  \/ \E on \in BOOLEAN : Enable(on)

\* Statistics shown as fresh were asked for and received in the state that is
\* shown with them, while they were wanted.
FreshIsCurrent ==
  /\ s.stat = "Fresh" => s.enabled /\ Active(s) /\ s.sample.state = s.stateSeq /\ s.sample.revision = s.revision
  /\ s.finished => s.stat = "Ended"
  /\ (~s.finished /\ ~s.enabled) => s.stat = "Disabled"

\* What clients order updates by: a change of the published state or of the
\* published statistics comes with a larger number than any before.
Shown(f) == <<f.phase, f.transport, f.config, f.revision>>
SequencesOrder ==
  /\ Shown(s)' # Shown(s) => s'.stateSeq > s.seq /\ s'.statSeq > s'.stateSeq
  /\ <<s.stat, s.sample>>' # <<s.stat, s.sample>> => s'.statSeq > s.seq
  /\ s'.seq >= s.seq

\* Statistics that are wanted of an active tunnel arrive.
Shows == s.stat = "Fresh" \/ ~Asking
=============================================================================
