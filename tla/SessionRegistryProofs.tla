----------------------- MODULE SessionRegistryProofs -----------------------
(***************************************************************************)
(* Proofs about SessionRegistry: types, the inductive invariant RegistryInv *)
(* and what follows from it, for any sessions, connections and attempts.   *)
(***************************************************************************)
EXTENDS SessionRegistry, FiniteSetTheorems, TLAPS

-----------------------------------------------------------------------------
(* Lemmas *)

\* Only an active session has an attachment
LEMMA AttachedIsActive ==
  ASSUME TypeOK, RegistryInv, NEW s \in Sessions, Present(s), attached[s] # None
  PROVE  status[s] = "active"
  BY Zenon DEF TypeOK, RegistryInv, FreshRecord, Present

\* Steps that leave active sessions and attachments alone keep served
\* connections accounted for
LEMMA ServedKept ==
  ASSUME TypeOK, RegistryInv,
         UNCHANGED <<attached, session, replaced, revoking>>,
         \A c \in Conns : closed[c] => closed'[c],
         \A c \in Conns : task'[c] \in {"replacing", "running"} => task'[c] = task[c],
         \A s \in Sessions : status[s] = "active" => status'[s] = "active"
  PROVE  ServedIsAttached'
<1> SUFFICES ASSUME NEW c \in Conns, task'[c] \in {"replacing", "running"}
             PROVE  \/ Present(session[c])' /\ attached[session[c]] = c
                    \/ closed'[c] \/ c \in revoking \/ \E d \in Conns : replaced[d] = c
  BY Zenon DEF ServedIsAttached
<1>1. task[c] \in {"replacing", "running"}
  OBVIOUS
<1>2. CASE Present(session[c]) /\ attached[session[c]] = c
  <2>1. session[c] \in Sessions
    BY <1>1, Zenon DEF RegistryInv, JoinedGeneration
  <2>2. status[session[c]] = "active"
    BY <1>2, <2>1, AttachedIsActive, RegistryAssumption, Zenon
  <2> QED BY <1>2, <2>1, <2>2, Zenon DEF Present
<1>3. CASE closed[c] \/ c \in revoking \/ \E d \in Conns : replaced[d] = c
  BY <1>3, Zenon
<1> QED BY <1>1, <1>2, <1>3, Zenon DEF RegistryInv, ServedIsAttached

\* The attachment and any other served connection of a session differ in
\* generation
LEMMA AttachedByGeneration ==
  ASSUME TypeOK, RegistryInv, NEW c \in Conns, task[c] \in Serving,
         Present(session[c]), attached[session[c]] # None,
         generation[session[c]] = joined[c]
  PROVE  attached[session[c]] = c
<1> DEFINE d == attached[session[c]]
<1>1. session[c] \in Sessions /\ d \in Conns
  BY Zenon DEF TypeOK, RegistryInv, JoinedGeneration, Serving
<1>2. task[d] \in Serving /\ session[d] = session[c] /\ joined[d] = joined[c]
  BY <1>1, Zenon DEF RegistryInv, AttachmentIsLast, Serving
<1> QED BY <1>1, <1>2, Zenon DEF RegistryInv, GenerationsDistinct
-----------------------------------------------------------------------------
(* Every action preserves RegistryInv *)

LEMMA IssueInv ==
  ASSUME TypeOK, RegistryInv, NEW s \in Sessions, Issue(s)
  PROVE  RegistryInv'
<1>1. JoinedGeneration' /\ ReplacedWhileReplacing' /\ GenerationsDistinct' /\
     SlotHeld'
  BY Zenon DEF JoinedGeneration, ReplacedWhileReplacing, GenerationsDistinct,
       SlotHeld, Serving, Live, Issue, recordVars, taskVars, attemptVars,
       RegistryInv
<1>2. FreshRecord'
  BY RegistryAssumption, Zenon DEF FreshRecord, Issue, BelowLimit, Stale, Pending,
       recordVars, taskVars, attemptVars, TypeOK, RegistryInv
<1>3. TokenHasHolder'
  <2> SUFFICES ASSUME NEW t \in Sessions, Present(t)', token[t] # None
               PROVE  /\ task[token[t]] \in Permitted /\ session[token[t]] = t
                      /\ observed[token[t]] = generation[t]
    BY Zenon DEF TokenHasHolder, Issue, recordVars, taskVars, attemptVars
  <2>1. t # s
    BY Zenon DEF Issue, RegistryInv, FreshRecord
  <2>2. Present(t)
    BY <2>1, Zenon DEF Present, Issue, TypeOK
  <2> QED BY <2>2, Zenon DEF RegistryInv, TokenHasHolder
<1>4. AttachmentIsLast'
  <2> SUFFICES ASSUME NEW t \in Sessions, Present(t)', attached[t] # None
               PROVE  /\ task[attached[t]] \in {"replacing", "running", "leaving"}
                      /\ session[attached[t]] = t
                      /\ joined[attached[t]] = generation[t]
    BY Zenon DEF AttachmentIsLast, Issue, recordVars, taskVars, attemptVars
  <2>1. t # s
    BY Zenon DEF Issue, RegistryInv, FreshRecord
  <2>2. Present(t)
    BY <2>1, Zenon DEF Present, Issue, TypeOK
  <2> QED BY <2>2, Zenon DEF RegistryInv, AttachmentIsLast
<1>5. ServedIsAttached'
  <2>1. UNCHANGED <<task, closed, attached, session, replaced, revoking>>
    BY Zenon DEF Issue, recordVars, taskVars, attemptVars
  <2>2. \A t \in Sessions : status[t] = "active" => status'[t] = "active"
    BY Zenon DEF Issue, Stale, TypeOK
  <2> QED BY <2>1, <2>2, ServedKept, Zenon
<1>6. RecordedAttempt'
  BY RegistryAssumption DEF RecordedAttempt, AttemptRecorded, Live, Issue, BelowLimit, Stale,
       Pending, recordVars, taskVars, attemptVars, TypeOK, RegistryInv
<1> QED BY <1>1, <1>2, <1>3, <1>4, <1>5, <1>6, Zenon DEF RegistryInv

LEMMA DropStaleInv ==
  ASSUME TypeOK, RegistryInv, DropStale
  PROVE  RegistryInv'
<1>1. JoinedGeneration' /\ ReplacedWhileReplacing' /\ GenerationsDistinct' /\
     SlotHeld'
  BY Zenon DEF JoinedGeneration, ReplacedWhileReplacing, GenerationsDistinct,
       SlotHeld, Serving, Live, DropStale, recordVars, taskVars, attemptVars,
       RegistryInv
<1>2. FreshRecord'
  BY RegistryAssumption, Zenon DEF FreshRecord, DropStale, Stale, recordVars,
       taskVars, attemptVars, TypeOK, RegistryInv
<1>3. TokenHasHolder'
  BY RegistryAssumption, Zenon DEF TokenHasHolder, Present, Permitted, DropStale,
       Stale, recordVars, taskVars, attemptVars, TypeOK, RegistryInv
<1>4. AttachmentIsLast'
  BY RegistryAssumption, Zenon DEF AttachmentIsLast, Present, DropStale, Stale,
       recordVars, taskVars, attemptVars, TypeOK, RegistryInv
<1>5. ServedIsAttached'
  <2>1. UNCHANGED <<task, closed, attached, session, replaced, revoking>>
    BY Zenon DEF DropStale, recordVars, taskVars, attemptVars
  <2>2. \A t \in Sessions : status[t] = "active" => status'[t] = "active"
    BY Zenon DEF DropStale, Stale, TypeOK
  <2> QED BY <2>1, <2>2, ServedKept, Zenon
<1>6. RecordedAttempt'
  BY RegistryAssumption DEF RecordedAttempt, AttemptRecorded, Live, DropStale, Stale,
       recordVars, taskVars, attemptVars, TypeOK, RegistryInv
<1> QED BY <1>1, <1>2, <1>3, <1>4, <1>5, <1>6, Zenon DEF RegistryInv

LEMMA DeadlineInv ==
  ASSUME TypeOK, RegistryInv, NEW s \in Sessions, Deadline(s)
  PROVE  RegistryInv'
<1>1. FreshRecord' /\ TokenHasHolder' /\ JoinedGeneration' /\
     AttachmentIsLast' /\ ReplacedWhileReplacing' /\ ServedIsAttached' /\
     GenerationsDistinct' /\ SlotHeld' /\ RecordedAttempt'
  BY DEF FreshRecord, TokenHasHolder, JoinedGeneration, AttachmentIsLast,
       ReplacedWhileReplacing, ServedIsAttached, GenerationsDistinct, SlotHeld,
       RecordedAttempt, AttemptRecorded, Present, Permitted, Serving, Live, Deadline, recordVars,
       taskVars, attemptVars, RegistryInv
<1> QED BY <1>1, Zenon DEF RegistryInv

LEMMA RevokeInv ==
  ASSUME TypeOK, RegistryInv, NEW s \in Sessions, Revoke(s)
  PROVE  RegistryInv'
<1>1. JoinedGeneration' /\ ReplacedWhileReplacing' /\ GenerationsDistinct' /\
     SlotHeld'
  BY Zenon DEF JoinedGeneration, ReplacedWhileReplacing, GenerationsDistinct,
       SlotHeld, Serving, Live, Revoke, Cancel, recordVars, taskVars, attemptVars,
       RegistryInv
<1>2. FreshRecord'
  BY RegistryAssumption, Zenon DEF FreshRecord, Revoke, Present, Cancel, Recorded,
       recordVars, taskVars, attemptVars, TypeOK, RegistryInv
<1>3. TokenHasHolder'
  BY RegistryAssumption, ZenonT(60) DEF TokenHasHolder, Present, Permitted, Revoke,
       Cancel, Recorded, recordVars, taskVars, attemptVars, TypeOK, RegistryInv
<1>4. AttachmentIsLast'
  BY RegistryAssumption, Zenon DEF AttachmentIsLast, Present, Revoke, Cancel,
       Recorded, recordVars, taskVars, attemptVars, TypeOK, RegistryInv
<1>5. ServedIsAttached'
  BY RegistryAssumption DEF ServedIsAttached, Present, Revoke, Cancel,
       Recorded, recordVars, taskVars, attemptVars, TypeOK, RegistryInv
<1>6. RecordedAttempt'
  <2> SUFFICES ASSUME NEW b \in Attempts PROVE AttemptRecorded(b)'
    BY Zenon DEF RecordedAttempt
  <2>1. UNCHANGED <<nonTunnel, attempt, owner, session, task, tunnel, attached, closing>>
    BY Zenon DEF Revoke
  <2>2. /\ cancelled[b] => cancelled'[b]
        /\ nonTunnel[s] = b => cancelled'[b]
    BY Zenon DEF Revoke, Cancel, Recorded
  <2>3. \A t \in Sessions : t = s \/ status'[t] = status[t]
    BY Zenon DEF Revoke, TypeOK
  <2> QED BY <2>1, <2>2, <2>3 DEF RegistryInv, RecordedAttempt, AttemptRecorded, Live
<1> QED BY <1>1, <1>2, <1>3, <1>4, <1>5, <1>6, Zenon DEF RegistryInv

LEMMA PrepareAttachInv ==
  ASSUME TypeOK, RegistryInv, NEW c \in Conns, PrepareAttach(c)
  PROVE  RegistryInv'
<1>1. FreshRecord' /\ SlotHeld'
  BY Zenon DEF FreshRecord, SlotHeld, Live, PrepareAttach, recordVars, taskVars,
       attemptVars, RegistryInv
<1>2. TokenHasHolder'
  BY RegistryAssumption DEF TokenHasHolder, Present, Permitted, PrepareAttach,
       Valid, NextGeneration, recordVars, taskVars, attemptVars, TypeOK,
       RegistryInv
<1>3. JoinedGeneration'
  BY RegistryAssumption DEF JoinedGeneration, Serving, PrepareAttach, Valid,
       NextGeneration, Present, recordVars, taskVars, attemptVars, TypeOK,
       RegistryInv
<1>4. AttachmentIsLast'
  BY RegistryAssumption DEF AttachmentIsLast, Present, PrepareAttach, Valid,
       NextGeneration, recordVars, taskVars, attemptVars, TypeOK, RegistryInv
<1>5. ReplacedWhileReplacing'
  BY RegistryAssumption, Zenon DEF ReplacedWhileReplacing, PrepareAttach, Valid,
       NextGeneration, Present, recordVars, taskVars, attemptVars, TypeOK,
       RegistryInv
<1>6. ServedIsAttached'
  BY RegistryAssumption DEF ServedIsAttached, Present, PrepareAttach, Valid,
       NextGeneration, recordVars, taskVars, attemptVars, TypeOK, RegistryInv
<1>7. GenerationsDistinct'
  BY RegistryAssumption DEF GenerationsDistinct, Serving, PrepareAttach,
       Valid, NextGeneration, Present, recordVars, taskVars, attemptVars, TypeOK,
       RegistryInv
<1>8. RecordedAttempt'
  BY RegistryAssumption DEF RecordedAttempt, AttemptRecorded, Live, PrepareAttach, Valid,
       NextGeneration, Present, recordVars, taskVars, attemptVars, TypeOK,
       RegistryInv
<1> QED BY <1>1, <1>2, <1>3, <1>4, <1>5, <1>6, <1>7, <1>8, Zenon DEF RegistryInv

LEMMA CommitAttachInv ==
  ASSUME TypeOK, RegistryInv, NEW c \in Conns, CommitAttach(c)
  PROVE  RegistryInv'
<1>1. SlotHeld'
  BY Zenon DEF SlotHeld, Live, CommitAttach, Cancel, recordVars, taskVars,
       attemptVars, RegistryInv
<1>2. FreshRecord'
  BY RegistryAssumption DEF FreshRecord, CommitAttach, Valid, NextGeneration,
       Present, Cancel, CancelOnReattach, Recorded, recordVars, taskVars,
       attemptVars, TypeOK, RegistryInv
<1>3. TokenHasHolder'
  BY RegistryAssumption DEF TokenHasHolder, Present, Permitted, CommitAttach,
       Valid, NextGeneration, Cancel, CancelOnReattach, Recorded, recordVars,
       taskVars, attemptVars, TypeOK, RegistryInv
<1>4. JoinedGeneration'
  BY RegistryAssumption DEF JoinedGeneration, Serving, CommitAttach, Valid,
       NextGeneration, Present, Cancel, CancelOnReattach, Recorded, recordVars,
       taskVars, attemptVars, TypeOK, RegistryInv
<1>5. AttachmentIsLast'
  <2>1. CASE ~closed[c] /\ Valid(c)
    <3> SUFFICES ASSUME NEW t \in Sessions, Present(t)', attached'[t] # None
                 PROVE  /\ task'[attached'[t]] \in {"replacing", "running", "leaving"}
                        /\ session[attached'[t]] = t
                        /\ joined[attached'[t]] = generation'[t]
      BY Zenon DEF AttachmentIsLast, CommitAttach
    <3>1. session[c] \in Sessions /\ joined[c] = generation[session[c]] + 1
      BY <2>1, Zenon DEF RegistryInv, JoinedGeneration, CommitAttach, Valid
    <3>2. CASE t = session[c]
      BY <2>1, <3>1, <3>2 DEF CommitAttach, NextGeneration, TypeOK
    <3>3. CASE t # session[c]
      <4>1. Present(t) /\ attached'[t] = attached[t] /\ generation'[t] = generation[t]
        BY <2>1, <3>1, <3>3 DEF CommitAttach, Present, TypeOK
      <4>2. /\ task[attached[t]] \in {"replacing", "running", "leaving"}
            /\ session[attached[t]] = t /\ joined[attached[t]] = generation[t]
            /\ attached[t] \in Conns
        BY <4>1 DEF RegistryInv, AttachmentIsLast, TypeOK
      <4> QED BY <2>1, <4>1, <4>2 DEF CommitAttach, TypeOK
    <3> QED BY <3>2, <3>3, Zenon
  <2>2. CASE ~(~closed[c] /\ Valid(c))
    BY <2>2 DEF AttachmentIsLast, Present, CommitAttach, TypeOK, RegistryInv
  <2> QED BY <2>1, <2>2, Zenon
<1>6. ReplacedWhileReplacing'
  BY RegistryAssumption DEF ReplacedWhileReplacing, CommitAttach, Valid,
       NextGeneration, Present, Cancel, CancelOnReattach, Recorded, recordVars,
       taskVars, attemptVars, TypeOK, RegistryInv
<1>7. ServedIsAttached'
  <2>1. CASE ~closed[c] /\ Valid(c)
    <3> SUFFICES ASSUME NEW d \in Conns, task'[d] \in {"replacing", "running"}
                 PROVE  \/ Present(session[d])' /\ attached'[session'[d]] = d
                        \/ closed'[d] \/ d \in revoking' \/ \E e \in Conns : replaced'[e] = d
      BY Zenon DEF ServedIsAttached
    <3>1. UNCHANGED <<session, closed, revoking>> /\ session[c] \in Sessions
      BY Zenon DEF CommitAttach, RegistryInv, JoinedGeneration
    <3>2. replaced[c] = None /\ replaced'[c] = attached[session[c]]
      BY <2>1, Zenon DEF CommitAttach, RegistryInv, ReplacedWhileReplacing, TypeOK
    <3>3. \A e \in Conns : replaced[e] = d => replaced'[e] = d
      BY <2>1, <3>2, RegistryAssumption DEF CommitAttach, TypeOK
    <3>4. CASE d = c
      BY <2>1, <3>1, <3>4 DEF CommitAttach, Present, TypeOK
    <3>5. CASE d # c
      <4>1. task[d] = task'[d] /\ session[d] \in Sessions
        BY <2>1, <3>5, Zenon DEF CommitAttach, TypeOK, RegistryInv, JoinedGeneration
      <4>2. CASE Present(session[d]) /\ attached[session[d]] = d /\ session[d] = session[c]
        BY <3>2, <4>2, Zenon
      <4>3. CASE Present(session[d]) /\ attached[session[d]] = d /\ session[d] # session[c]
        BY <2>1, <3>1, <4>1, <4>3 DEF CommitAttach, Present, TypeOK
      <4>4. CASE closed[d] \/ d \in revoking \/ \E e \in Conns : replaced[e] = d
        BY <3>1, <3>3, <4>4, Zenon
      <4> QED BY <4>1, <4>2, <4>3, <4>4, Zenon DEF RegistryInv, ServedIsAttached
    <3> QED BY <3>4, <3>5, Zenon
  <2>2. CASE ~(~closed[c] /\ Valid(c))
    BY <2>2 DEF ServedIsAttached, Present, CommitAttach, TypeOK, RegistryInv
  <2> QED BY <2>1, <2>2, Zenon
<1>8. GenerationsDistinct'
  <2>1. CASE ~closed[c] /\ Valid(c)
    <3>1. joined[c] = generation[session[c]] + 1 /\ generation[session[c]] \in Nat
      BY <2>1, Zenon DEF RegistryInv, JoinedGeneration, CommitAttach, Valid, TypeOK
    <3>2. \A d \in Conns : d # c /\ task[d] \in Serving /\ session[d] = session[c] =>
            joined[d] # joined[c]
      BY <3>1 DEF RegistryInv, JoinedGeneration, TypeOK
    <3>3. \A d \in Conns : d # c => task'[d] = task[d]
      BY <2>1, Zenon DEF CommitAttach, TypeOK
    <3>4. UNCHANGED <<session, joined>>
      BY Zenon DEF CommitAttach
    <3> QED BY <3>2, <3>3, <3>4 DEF RegistryInv, GenerationsDistinct
  <2>2. CASE ~(~closed[c] /\ Valid(c))
    BY <2>2 DEF GenerationsDistinct, Serving, CommitAttach, TypeOK, RegistryInv
  <2> QED BY <2>1, <2>2, Zenon
<1>9. RecordedAttempt'
  <2> SUFFICES ASSUME NEW b \in Attempts PROVE AttemptRecorded(b)'
    BY Zenon DEF RecordedAttempt
  <2>1. UNCHANGED <<nonTunnel, attempt, owner, session, tunnel>>
    BY Zenon DEF CommitAttach
  <2>2. \A d \in Conns : task[d] # "idle" => task'[d] # "idle"
    BY Zenon DEF CommitAttach, TypeOK
  <2>3. cancelled[b] => cancelled'[b]
    BY Zenon DEF CommitAttach, Cancel
  <2>4. ASSUME NEW t \in Sessions, nonTunnel[t] = b, ~cancelled'[b]
        PROVE  UNCHANGED <<status[t], attached[t], closing[t]>>
    <3>1. status[t] = "active"
      BY <2>3, <2>4 DEF RegistryInv, RecordedAttempt, AttemptRecorded
    <3>2. CASE ~closed[c] /\ Valid(c)
      <4>1. t # session[c]
        BY <2>4, <3>1, <3>2, Zenon DEF CommitAttach, Cancel, CancelOnReattach, Recorded
      <4> QED BY <3>2, <4>1 DEF CommitAttach, TypeOK
    <3>3. CASE ~(~closed[c] /\ Valid(c))
      BY <3>3, Zenon DEF CommitAttach
    <3> QED BY <3>2, <3>3, Zenon
  <2> QED BY <2>1, <2>2, <2>3, <2>4 DEF RegistryInv, RecordedAttempt, AttemptRecorded, Live
<1> QED BY <1>1, <1>2, <1>3, <1>4, <1>5, <1>6, <1>7, <1>8, <1>9, Zenon DEF RegistryInv

LEMMA CloseReplacedInv ==
  ASSUME TypeOK, RegistryInv, NEW c \in Conns, CloseReplaced(c)
  PROVE  RegistryInv'
<1>1. FreshRecord' /\ SlotHeld'
  BY Zenon DEF FreshRecord, SlotHeld, Live, CloseReplaced, recordVars, taskVars,
       attemptVars, RegistryInv
<1>2. TokenHasHolder'
  BY RegistryAssumption DEF TokenHasHolder, Present, Permitted, CloseReplaced,
       ToClose, recordVars, taskVars, attemptVars, TypeOK, RegistryInv
<1>3. JoinedGeneration'
  BY RegistryAssumption, Zenon DEF JoinedGeneration, Serving, CloseReplaced, ToClose,
       recordVars, taskVars, attemptVars, TypeOK, RegistryInv
<1>4. AttachmentIsLast'
  BY RegistryAssumption DEF AttachmentIsLast, Present, CloseReplaced, ToClose,
       recordVars, taskVars, attemptVars, TypeOK, RegistryInv
<1>5. ReplacedWhileReplacing'
  BY RegistryAssumption, Zenon DEF ReplacedWhileReplacing, CloseReplaced, ToClose,
       recordVars, taskVars, attemptVars, TypeOK, RegistryInv
<1>6. ServedIsAttached'
  BY RegistryAssumption, Zenon DEF ServedIsAttached, Present, CloseReplaced, ToClose,
       recordVars, taskVars, attemptVars, TypeOK, RegistryInv
<1>7. GenerationsDistinct'
  BY RegistryAssumption DEF GenerationsDistinct, Serving, CloseReplaced,
       ToClose, recordVars, taskVars, attemptVars, TypeOK, RegistryInv
<1>8. RecordedAttempt'
  BY RegistryAssumption DEF RecordedAttempt, AttemptRecorded, Live, CloseReplaced, ToClose,
       recordVars, taskVars, attemptVars, TypeOK, RegistryInv
<1> QED BY <1>1, <1>2, <1>3, <1>4, <1>5, <1>6, <1>7, <1>8, Zenon DEF RegistryInv

LEMMA DropPermitInv ==
  ASSUME TypeOK, RegistryInv, NEW c \in Conns, DropPermit(c)
  PROVE  RegistryInv'
<1>1. SlotHeld'
  BY Zenon DEF SlotHeld, Live, DropPermit, CancelHandshake, recordVars, taskVars,
       attemptVars, RegistryInv
<1>2. FreshRecord'
  BY RegistryAssumption, Zenon DEF FreshRecord, DropPermit, CancelHandshake, Valid,
       Present, recordVars, taskVars, attemptVars, TypeOK, RegistryInv
<1>3. TokenHasHolder'
  BY RegistryAssumption DEF TokenHasHolder, Present, Permitted, DropPermit,
       CancelHandshake, Valid, recordVars, taskVars, attemptVars, TypeOK,
       RegistryInv
<1>4. JoinedGeneration'
  BY RegistryAssumption, Zenon DEF JoinedGeneration, Serving, DropPermit,
       CancelHandshake, Valid, Present, recordVars, taskVars, attemptVars, TypeOK,
       RegistryInv
<1>5. AttachmentIsLast'
  BY RegistryAssumption DEF AttachmentIsLast, Present, DropPermit,
       CancelHandshake, Valid, recordVars, taskVars, attemptVars, TypeOK,
       RegistryInv
<1>6. ReplacedWhileReplacing'
  BY RegistryAssumption, Zenon DEF ReplacedWhileReplacing, DropPermit,
       CancelHandshake, Valid, Present, recordVars, taskVars, attemptVars, TypeOK,
       RegistryInv
<1>7. ServedIsAttached'
  <2>1. UNCHANGED <<attached, session, replaced, revoking>>
    BY Zenon DEF DropPermit, attemptVars
  <2>2. \A t \in Sessions : status[t] = "active" => status'[t] = "active"
    BY Zenon DEF DropPermit, CancelHandshake, TypeOK
  <2>3. \A d \in Conns : /\ closed[d] => closed'[d]
                         /\ task'[d] \in {"replacing", "running"} => task'[d] = task[d]
    BY Zenon DEF DropPermit, TypeOK
  <2> QED BY <2>1, <2>2, <2>3, ServedKept, Zenon
<1>8. GenerationsDistinct'
  BY RegistryAssumption, Zenon DEF GenerationsDistinct, Serving, DropPermit,
       CancelHandshake, Valid, Present, recordVars, taskVars, attemptVars, TypeOK,
       RegistryInv
<1>9. RecordedAttempt'
  BY RegistryAssumption DEF RecordedAttempt, AttemptRecorded, Live, DropPermit,
       CancelHandshake, Valid, Present, recordVars, taskVars, attemptVars, TypeOK,
       RegistryInv
<1> QED BY <1>1, <1>2, <1>3, <1>4, <1>5, <1>6, <1>7, <1>8, <1>9, Zenon DEF RegistryInv

LEMMA DisconnectIfCurrentInv ==
  ASSUME TypeOK, RegistryInv, NEW c \in Conns, DisconnectIfCurrent(c)
  PROVE  RegistryInv'
<1>1. SlotHeld'
  BY Zenon DEF SlotHeld, Live, DisconnectIfCurrent, Cancel, recordVars, taskVars,
       attemptVars, RegistryInv
<1>2. FreshRecord'
  BY RegistryAssumption, Zenon DEF FreshRecord, DisconnectIfCurrent, Cancel,
       Detached, Recorded, Present, recordVars, taskVars, attemptVars, TypeOK,
       RegistryInv
<1>3. TokenHasHolder'
  BY RegistryAssumption DEF TokenHasHolder, Present, Permitted,
       DisconnectIfCurrent, Cancel, Detached, Recorded, recordVars, taskVars,
       attemptVars, TypeOK, RegistryInv
<1>4. JoinedGeneration'
  BY RegistryAssumption, Zenon DEF JoinedGeneration, Serving, DisconnectIfCurrent,
       Cancel, Detached, Recorded, Present, recordVars, taskVars, attemptVars,
       TypeOK, RegistryInv
<1>5. AttachmentIsLast'
  <2> SUFFICES ASSUME NEW t \in Sessions, Present(t), attached'[t] # None
               PROVE  /\ task'[attached'[t]] \in {"replacing", "running", "leaving"}
                      /\ session[attached'[t]] = t
                      /\ joined[attached'[t]] = generation[t]
    BY ZenonT(40) DEF AttachmentIsLast, Present, DisconnectIfCurrent
  <2>1. attached'[t] = attached[t] /\ attached[t] \in Conns
    BY DEF DisconnectIfCurrent, TypeOK
  <2>2. /\ task[attached[t]] \in {"replacing", "running", "leaving"}
        /\ session[attached[t]] = t /\ joined[attached[t]] = generation[t]
    BY <2>1, Zenon DEF RegistryInv, AttachmentIsLast
  <2>3. attached[t] # c
    <3> SUFFICES ASSUME attached[t] = c PROVE FALSE
      OBVIOUS
    <3>1. status[t] = "active" /\ session[c] = t /\ generation[t] = joined[c]
      BY <2>1, <2>2, AttachedIsActive, Zenon
    <3>2. attached'[t] = None
      BY <3>1, Zenon DEF DisconnectIfCurrent, TypeOK
    <3> QED BY <3>2, Zenon
  <2>4. task'[attached[t]] = task[attached[t]]
    BY <2>1, <2>3, Zenon DEF DisconnectIfCurrent, TypeOK
  <2> QED BY <2>1, <2>2, <2>4, Zenon
<1>6. ReplacedWhileReplacing'
  BY RegistryAssumption, Zenon DEF ReplacedWhileReplacing, DisconnectIfCurrent,
       Cancel, Detached, Recorded, Present, recordVars, taskVars, attemptVars,
       TypeOK, RegistryInv
<1>7. ServedIsAttached'
  <2> SUFFICES ASSUME NEW d \in Conns, task'[d] \in {"replacing", "running"}
               PROVE  \/ Present(session[d])' /\ attached'[session'[d]] = d
                      \/ closed'[d] \/ d \in revoking' \/ \E e \in Conns : replaced'[e] = d
    BY Zenon DEF ServedIsAttached
  <2>1. d # c /\ task[d] = task'[d]
    BY Zenon DEF DisconnectIfCurrent, TypeOK
  <2>2. UNCHANGED <<status, session, closed, revoking, replaced>>
    BY Zenon DEF DisconnectIfCurrent
  <2>3. CASE Present(session[d]) /\ attached[session[d]] = d
    <3>1. session[d] \in Sessions /\ session[c] \in Sessions /\ task[c] \in Serving
      BY <2>1, Zenon DEF RegistryInv, JoinedGeneration, DisconnectIfCurrent, Serving
    <3>2. CASE session[c] = session[d] /\ generation[session[c]] = joined[c]
      <4>1. attached[session[c]] = c
        BY <2>3, <3>1, <3>2, AttachedByGeneration, RegistryAssumption, Zenon
      <4> QED BY <2>1, <2>3, <3>2, <4>1, Zenon
    <3>3. CASE ~(session[c] = session[d] /\ generation[session[c]] = joined[c])
      <4>1. attached'[session[d]] = attached[session[d]]
        BY <3>1, <3>3, Zenon DEF DisconnectIfCurrent, TypeOK
      <4> QED BY <2>2, <2>3, <4>1, Zenon DEF Present
    <3> QED BY <3>2, <3>3, Zenon
  <2>4. CASE closed[d] \/ d \in revoking \/ \E e \in Conns : replaced[e] = d
    BY <2>2, <2>4, Zenon
  <2> QED BY <2>1, <2>3, <2>4, Zenon DEF RegistryInv, ServedIsAttached
<1>8. GenerationsDistinct'
  BY RegistryAssumption DEF GenerationsDistinct, Serving, DisconnectIfCurrent,
       Cancel, Detached, Recorded, Present, recordVars, taskVars, attemptVars,
       TypeOK, RegistryInv
<1>9. RecordedAttempt'
  <2> SUFFICES ASSUME NEW b \in Attempts PROVE AttemptRecorded(b)'
    BY Zenon DEF RecordedAttempt
  <2>1. UNCHANGED <<nonTunnel, attempt, owner, session, tunnel, status, closing, joined>>
    BY Zenon DEF DisconnectIfCurrent
  <2>2. \A d \in Conns : task[d] # "idle" => task'[d] # "idle"
    BY Zenon DEF DisconnectIfCurrent, TypeOK
  <2>3. cancelled[b] => cancelled'[b]
    BY Zenon DEF DisconnectIfCurrent, Cancel
  <2>4. ASSUME NEW t \in Sessions, nonTunnel[t] = b, ~cancelled'[b]
        PROVE  attached'[t] = owner[b]
    <3>1. status[t] = "active" /\ attached[t] = owner[b] /\ owner[b] \in Conns /\ session[owner[b]] = t
      BY <2>3, <2>4 DEF RegistryInv, RecordedAttempt, AttemptRecorded
    <3>2. joined[owner[b]] = generation[t]
      BY <3>1, RegistryAssumption DEF RegistryInv, AttachmentIsLast, Present
    <3>3. ~(session[c] = t /\ generation[t] = joined[c])
      BY <2>4, <3>1, <3>2, Zenon DEF DisconnectIfCurrent, Cancel, Detached, Recorded, Present
    <3> QED BY <3>1, <3>3, Zenon DEF DisconnectIfCurrent, TypeOK
  <2> QED BY <2>1, <2>2, <2>3, <2>4 DEF RegistryInv, RecordedAttempt, AttemptRecorded, Live
<1> QED BY <1>1, <1>2, <1>3, <1>4, <1>5, <1>6, <1>7, <1>8, <1>9, Zenon DEF RegistryInv

LEMMA HandshakeFailsInv ==
  ASSUME TypeOK, RegistryInv, NEW c \in Conns, HandshakeFails(c)
  PROVE  RegistryInv'
<1>1. FreshRecord' /\ SlotHeld'
  BY Zenon DEF FreshRecord, SlotHeld, Live, HandshakeFails, recordVars, taskVars,
       attemptVars, RegistryInv
<1>2. TokenHasHolder'
  BY RegistryAssumption DEF TokenHasHolder, Present, Permitted,
       HandshakeFails, recordVars, taskVars, attemptVars, TypeOK, RegistryInv
<1>3. JoinedGeneration'
  BY RegistryAssumption, Zenon DEF JoinedGeneration, Serving, HandshakeFails,
       recordVars, taskVars, attemptVars, TypeOK, RegistryInv
<1>4. AttachmentIsLast'
  BY RegistryAssumption DEF AttachmentIsLast, Present, HandshakeFails,
       recordVars, taskVars, attemptVars, TypeOK, RegistryInv
<1>5. ReplacedWhileReplacing'
  BY RegistryAssumption, Zenon DEF ReplacedWhileReplacing, HandshakeFails,
       recordVars, taskVars, attemptVars, TypeOK, RegistryInv
<1>6. ServedIsAttached'
  BY RegistryAssumption DEF ServedIsAttached, Present, HandshakeFails,
       recordVars, taskVars, attemptVars, TypeOK, RegistryInv
<1>7. GenerationsDistinct'
  BY RegistryAssumption, Zenon DEF GenerationsDistinct, Serving, HandshakeFails,
       recordVars, taskVars, attemptVars, TypeOK, RegistryInv
<1>8. RecordedAttempt'
  BY RegistryAssumption DEF RecordedAttempt, AttemptRecorded, Live, HandshakeFails, recordVars,
       taskVars, attemptVars, TypeOK, RegistryInv
<1> QED BY <1>1, <1>2, <1>3, <1>4, <1>5, <1>6, <1>7, <1>8, Zenon DEF RegistryInv

LEMMA CloseSlowInv ==
  ASSUME TypeOK, RegistryInv, NEW cs \in SUBSET Conns, CloseSlow(cs)
  PROVE  RegistryInv'
<1>1. FreshRecord' /\ TokenHasHolder' /\ JoinedGeneration' /\
     AttachmentIsLast' /\ ReplacedWhileReplacing' /\ GenerationsDistinct' /\
     SlotHeld' /\ RecordedAttempt'
  BY DEF FreshRecord, TokenHasHolder, JoinedGeneration, AttachmentIsLast,
       ReplacedWhileReplacing, GenerationsDistinct, SlotHeld, RecordedAttempt, AttemptRecorded,
       Present, Permitted, Serving, Live, CloseSlow, recordVars, taskVars,
       attemptVars, RegistryInv
<1>2. ServedIsAttached'
  BY RegistryAssumption DEF ServedIsAttached, Present, CloseSlow, recordVars,
       taskVars, attemptVars, TypeOK, RegistryInv
<1> QED BY <1>1, <1>2, Zenon DEF RegistryInv

LEMMA LeaveInv ==
  ASSUME TypeOK, RegistryInv, NEW c \in Conns, Leave(c)
  PROVE  RegistryInv'
<1>1. FreshRecord' /\ SlotHeld'
  BY Zenon DEF FreshRecord, SlotHeld, Live, Leave, recordVars, taskVars,
       attemptVars, RegistryInv
<1>2. TokenHasHolder'
  BY RegistryAssumption DEF TokenHasHolder, Present, Permitted, Leave,
       recordVars, taskVars, attemptVars, TypeOK, RegistryInv
<1>3. JoinedGeneration'
  BY RegistryAssumption, Zenon DEF JoinedGeneration, Serving, Leave, recordVars,
       taskVars, attemptVars, TypeOK, RegistryInv
<1>4. AttachmentIsLast'
  BY RegistryAssumption DEF AttachmentIsLast, Present, Leave, recordVars,
       taskVars, attemptVars, TypeOK, RegistryInv
<1>5. ReplacedWhileReplacing'
  BY RegistryAssumption, Zenon DEF ReplacedWhileReplacing, Leave, recordVars,
       taskVars, attemptVars, TypeOK, RegistryInv
<1>6. ServedIsAttached'
  BY RegistryAssumption DEF ServedIsAttached, Present, Leave, recordVars,
       taskVars, attemptVars, TypeOK, RegistryInv
<1>7. GenerationsDistinct'
  BY RegistryAssumption DEF GenerationsDistinct, Serving, Leave, recordVars,
       taskVars, attemptVars, TypeOK, RegistryInv
<1>8. RecordedAttempt'
  BY RegistryAssumption DEF RecordedAttempt, AttemptRecorded, Live, Leave, recordVars,
       taskVars, attemptVars, TypeOK, RegistryInv
<1> QED BY <1>1, <1>2, <1>3, <1>4, <1>5, <1>6, <1>7, <1>8, Zenon DEF RegistryInv

LEMMA CloseRevokedInv ==
  ASSUME TypeOK, RegistryInv, NEW c \in Conns, CloseRevoked(c)
  PROVE  RegistryInv'
<1>1. FreshRecord' /\ TokenHasHolder' /\ JoinedGeneration' /\
     AttachmentIsLast' /\ ReplacedWhileReplacing' /\ GenerationsDistinct' /\
     SlotHeld' /\ RecordedAttempt'
  BY DEF FreshRecord, TokenHasHolder, JoinedGeneration, AttachmentIsLast,
       ReplacedWhileReplacing, GenerationsDistinct, SlotHeld, RecordedAttempt, AttemptRecorded,
       Present, Permitted, Serving, Live, CloseRevoked, recordVars, taskVars,
       attemptVars, RegistryInv
<1>2. ServedIsAttached'
  BY RegistryAssumption DEF ServedIsAttached, Present, CloseRevoked,
       recordVars, taskVars, attemptVars, TypeOK, RegistryInv
<1> QED BY <1>1, <1>2, Zenon DEF RegistryInv

LEMMA BeginHandshakeInv ==
  ASSUME TypeOK, RegistryInv, NEW c \in Conns, NEW s \in Sessions, BeginHandshake(c, s)
  PROVE  RegistryInv'
<1>1. SlotHeld'
  BY Zenon DEF SlotHeld, Live, BeginHandshake, recordVars, taskVars, attemptVars,
       RegistryInv
<1>2. FreshRecord'
  BY RegistryAssumption DEF FreshRecord, BeginHandshake, Present, Stale,
       recordVars, taskVars, attemptVars, TypeOK, RegistryInv
<1>3. TokenHasHolder'
  BY RegistryAssumption DEF TokenHasHolder, Present, Permitted,
       BeginHandshake, Stale, recordVars, taskVars, attemptVars, TypeOK,
       RegistryInv
<1>4. JoinedGeneration'
  BY RegistryAssumption DEF JoinedGeneration, Serving, BeginHandshake,
       Present, Stale, recordVars, taskVars, attemptVars, TypeOK, RegistryInv
<1>5. AttachmentIsLast'
  BY RegistryAssumption DEF AttachmentIsLast, Present, BeginHandshake, Stale,
       recordVars, taskVars, attemptVars, TypeOK, RegistryInv
<1>6. ReplacedWhileReplacing'
  BY RegistryAssumption DEF ReplacedWhileReplacing, BeginHandshake, Present,
       Stale, recordVars, taskVars, attemptVars, TypeOK, RegistryInv
<1>7. ServedIsAttached'
  <2> SUFFICES ASSUME NEW d \in Conns, task'[d] \in {"replacing", "running"}
               PROVE  \/ Present(session[d])' /\ attached'[session'[d]] = d
                      \/ closed'[d] \/ d \in revoking' \/ \E e \in Conns : replaced'[e] = d
    BY Zenon DEF ServedIsAttached
  <2>1. d # c /\ task[d] = task'[d] /\ session'[d] = session[d] /\ session[d] \in Sessions
    BY DEF BeginHandshake, TypeOK, RegistryInv, JoinedGeneration
  <2>2. UNCHANGED <<attached, closed, revoking, replaced>>
    BY Zenon DEF BeginHandshake
  <2>3. CASE Present(session[d]) /\ attached[session[d]] = d
    <3>1. status[session[d]] = "active"
      BY <2>1, <2>3, AttachedIsActive, RegistryAssumption, Zenon
    <3>2. status'[session[d]] = "active"
      BY <2>1, <3>1, Zenon DEF BeginHandshake, Stale, TypeOK
    <3> QED BY <2>1, <2>2, <2>3, <3>2, Zenon DEF Present
  <2>4. CASE closed[d] \/ d \in revoking \/ \E e \in Conns : replaced[e] = d
    BY <2>2, <2>4, Zenon
  <2> QED BY <2>1, <2>3, <2>4, Zenon DEF RegistryInv, ServedIsAttached
<1>8. GenerationsDistinct'
  BY RegistryAssumption DEF GenerationsDistinct, Serving, BeginHandshake,
       Present, Stale, recordVars, taskVars, attemptVars, TypeOK, RegistryInv
<1>9. RecordedAttempt'
  BY RegistryAssumption DEF RecordedAttempt, AttemptRecorded, Live, BeginHandshake, Present,
       Stale, recordVars, taskVars, attemptVars, TypeOK, RegistryInv
<1> QED BY <1>1, <1>2, <1>3, <1>4, <1>5, <1>6, <1>7, <1>8, <1>9, Zenon DEF RegistryInv

\* Steps of attempts leave tokens, attachments and connection tasks alone
LEMMA ConnectionsKept ==
  ASSUME RegistryInv,
         UNCHANGED <<status, token, generation, attached>>,
         UNCHANGED <<task, session, observed, joined, replaced, closed, revoking>>
  PROVE  /\ TokenHasHolder' /\ JoinedGeneration' /\ AttachmentIsLast'
         /\ ReplacedWhileReplacing' /\ ServedIsAttached' /\ GenerationsDistinct'
<1>1. TokenHasHolder' /\ AttachmentIsLast'
  BY Zenon DEF RegistryInv, TokenHasHolder, AttachmentIsLast, Present
<1>2. JoinedGeneration' /\ GenerationsDistinct'
  BY Zenon DEF RegistryInv, JoinedGeneration, GenerationsDistinct
<1>3. ReplacedWhileReplacing' /\ ServedIsAttached'
  BY Zenon DEF RegistryInv, ReplacedWhileReplacing, ServedIsAttached, Present
<1> QED BY <1>1, <1>2, <1>3, Zenon

\* A step that records no attempt and starts none keeps what is recorded
LEMMA RecordKept ==
  ASSUME RegistryInv, NEW b \in Attempts,
         UNCHANGED <<nonTunnel, owner, tunnel, cancelled, session, task, status, attached, closing>>,
         Live(b)' => Live(b), attempt[b] # "none" => attempt'[b] # "none"
  PROVE  AttemptRecorded(b)'
<1>1. AttemptRecorded(b)
  BY Zenon DEF RegistryInv, RecordedAttempt
<1> QED BY <1>1, Zenon DEF AttemptRecorded

LEMMA ReserveConnectionInv ==
  ASSUME TypeOK, RegistryInv, NEW c \in Conns, NEW t \in BOOLEAN, NEW a \in Attempts,
         ReserveConnection(c, t, a)
  PROVE  RegistryInv'
<1>1. TokenHasHolder' /\ JoinedGeneration' /\ AttachmentIsLast' /\
     ReplacedWhileReplacing' /\ ServedIsAttached' /\ GenerationsDistinct'
  BY ConnectionsKept, Zenon DEF ReserveConnection, recordVars, taskVars
<1>2. FreshRecord'
  BY RegistryAssumption DEF FreshRecord, ReserveConnection, ReserveOpen,
       Current, Complete, recordVars, taskVars, attemptVars, TypeOK, RegistryInv
<1>3. SlotHeld'
  BY RegistryAssumption DEF SlotHeld, Live, ReserveConnection, ReserveOpen,
       Current, Complete, recordVars, taskVars, attemptVars, TypeOK, RegistryInv
<1>4. RecordedAttempt'
  <2> SUFFICES ASSUME NEW b \in Attempts PROVE AttemptRecorded(b)'
    BY Zenon DEF RecordedAttempt
  <2> DEFINE s == session[c]
  <2>0. AttemptRecorded(b)
    BY Zenon DEF RegistryInv, RecordedAttempt
  <2>1. UNCHANGED <<session, task, cancelled, status, attached, closing>>
    BY Zenon DEF ReserveConnection, taskVars
  <2>2. s \in Sessions /\ status[s] = "active" /\ attached[s] \in Conns
    BY Zenon DEF ReserveConnection, ReserveOpen, Current, RegistryInv, JoinedGeneration, TypeOK
  <2>3. session[attached[s]] = s /\ task[attached[s]] # "idle"
    BY <2>2, RegistryAssumption, Zenon DEF RegistryInv, AttachmentIsLast, Present
  <2>4. CASE slot # None
    <3>1. UNCHANGED <<attempt, owner, tunnel>>
      BY <2>4, Zenon DEF ReserveConnection
    <3>2. \A u \in Sessions : nonTunnel'[u] = b => nonTunnel[u] = b
      BY <2>4, RegistryAssumption DEF ReserveConnection, TypeOK
    <3>3. \A u \in Sessions : nonTunnel[u] = b /\ Live(b) => nonTunnel'[u] = b
      BY <2>4, Zenon DEF ReserveConnection, TypeOK, Live, Complete
    <3>4. owner[b] \in Conns /\ task[owner[b]] # "idle" => session[owner[b]] \in Sessions
      BY Zenon DEF RegistryInv, JoinedGeneration
    <3> QED BY <2>0, <2>1, <3>1, <3>2, <3>3, <3>4 DEF AttemptRecorded, Live
  <2>5. CASE slot = None
    <3>1. ~Live(b)
      BY <2>5, RegistryAssumption, Zenon DEF RegistryInv, SlotHeld, TypeOK
    <3>2. CASE b = a
      <4>1. attempt'[b] = "preparing" /\ owner'[b] = attached[s] /\ tunnel'[b] = t
        BY <2>5, <3>2, Zenon DEF ReserveConnection, TypeOK
      <4>2. \A u \in Sessions : nonTunnel[u] # b
        BY <3>2, Zenon DEF RegistryInv, RecordedAttempt, AttemptRecorded, ReserveConnection
      <4>3. \A u \in Sessions : nonTunnel'[u] = b => u = s /\ ~t
        BY <2>5, <4>2, RegistryAssumption DEF ReserveConnection, TypeOK
      <4>4. ~t => nonTunnel'[s] = b
        BY <2>2, <2>5, <3>2, Zenon DEF ReserveConnection, TypeOK
      <4>5. ~t => closing[s] # attached[s]
        BY Zenon DEF ReserveConnection, ReserveOpen
      <4> QED BY <2>1, <2>2, <2>3, <4>1, <4>3, <4>4, <4>5, Zenon DEF AttemptRecorded
    <3>3. CASE b # a
      <4>1. attempt'[b] = attempt[b] /\ owner'[b] = owner[b] /\ tunnel'[b] = tunnel[b]
        BY <2>5, <3>3 DEF ReserveConnection, TypeOK
      <4>2. \A u \in Sessions : nonTunnel'[u] = b => nonTunnel[u] = b
        BY <2>5, <3>3, RegistryAssumption DEF ReserveConnection, TypeOK
      <4> QED BY <2>0, <2>1, <3>1, <4>1, <4>2 DEF AttemptRecorded, Live
    <3> QED BY <3>2, <3>3, Zenon
  <2> QED BY <2>4, <2>5, Zenon
<1> QED BY <1>1, <1>2, <1>3, <1>4, ZenonT(60) DEF RegistryInv

LEMMA StopNonTunnelAttachmentInv ==
  ASSUME TypeOK, RegistryInv, NEW c \in Conns, NEW d \in Conns, StopNonTunnelAttachment(c, d)
  PROVE  RegistryInv'
<1>0. FreshRecord' /\ SlotHeld'
  BY Zenon DEF RegistryInv, FreshRecord, SlotHeld, Live, StopNonTunnelAttachment, recordVars, attemptVars
<1>1. TokenHasHolder' /\ JoinedGeneration' /\ AttachmentIsLast' /\
     ReplacedWhileReplacing' /\ ServedIsAttached' /\ GenerationsDistinct'
  BY ConnectionsKept, Zenon DEF StopNonTunnelAttachment, recordVars, taskVars
<1>2. RecordedAttempt'
  <2> SUFFICES ASSUME NEW b \in Attempts PROVE AttemptRecorded(b)'
    BY Zenon DEF RecordedAttempt
  <2>1. UNCHANGED <<nonTunnel, attempt, owner, session, task, tunnel, attached, status>>
    BY Zenon DEF StopNonTunnelAttachment, taskVars
  <2>2. /\ cancelled[b] => cancelled'[b]
        /\ nonTunnel[session[c]] = b /\ owner[b] = d => cancelled'[b]
    BY Zenon DEF StopNonTunnelAttachment, Cancel, Recorded
  <2>3. \A t \in Sessions : closing'[t] = closing[t] \/ (t = session[c] /\ closing'[t] = d)
    BY Zenon DEF StopNonTunnelAttachment, TypeOK
  <2>4. ASSUME NEW t \in Sessions, nonTunnel[t] = b, ~cancelled'[b], closing[t] # owner[b]
        PROVE  closing'[t] # owner[b]
    BY <2>2, <2>3, <2>4, Zenon
  <2>5. Live(b)' = Live(b)
    BY <2>1, Zenon DEF Live
  <2>6. AttemptRecorded(b)
    BY Zenon DEF RegistryInv, RecordedAttempt
  <2> QED BY <2>1, <2>2, <2>4, <2>5, <2>6 DEF AttemptRecorded
<1> QED BY <1>0, <1>1, <1>2, Zenon DEF RegistryInv

LEMMA ReleaseSlotInv ==
  ASSUME TypeOK, RegistryInv, NEW a \in Attempts, ReleaseSlot(a)
  PROVE  RegistryInv'
<1>0. FreshRecord'
  BY Zenon DEF RegistryInv, FreshRecord, ReleaseSlot, recordVars
<1>1. TokenHasHolder' /\ JoinedGeneration' /\ AttachmentIsLast' /\
     ReplacedWhileReplacing' /\ ServedIsAttached' /\ GenerationsDistinct'
  BY ConnectionsKept, Zenon DEF ReleaseSlot, recordVars, taskVars
<1>2. SlotHeld'
  BY RegistryAssumption, Zenon DEF SlotHeld, Live, ReleaseSlot, recordVars, taskVars,
       attemptVars, TypeOK, RegistryInv
<1>3. RecordedAttempt'
  <2> SUFFICES ASSUME NEW b \in Attempts PROVE AttemptRecorded(b)'
    BY Zenon DEF RecordedAttempt
  <2>1. (Live(b)' => Live(b)) /\ (attempt[b] # "none" => attempt'[b] # "none")
    BY DEF ReleaseSlot, Live, TypeOK
  <2> QED BY <2>1, RecordKept, Zenon DEF ReleaseSlot, recordVars, taskVars, attemptVars
<1> QED BY <1>0, <1>1, <1>2, <1>3, ZenonT(60) DEF RegistryInv

LEMMA SignalCompletionInv ==
  ASSUME TypeOK, RegistryInv, NEW a \in Attempts, SignalCompletion(a)
  PROVE  RegistryInv'
<1>0. FreshRecord'
  BY Zenon DEF RegistryInv, FreshRecord, SignalCompletion, recordVars
<1>1. TokenHasHolder' /\ JoinedGeneration' /\ AttachmentIsLast' /\
     ReplacedWhileReplacing' /\ ServedIsAttached' /\ GenerationsDistinct'
  BY ConnectionsKept, Zenon DEF SignalCompletion, recordVars, taskVars
<1>2. SlotHeld'
  BY RegistryAssumption, Zenon DEF SlotHeld, Live, SignalCompletion, recordVars,
       taskVars, attemptVars, TypeOK, RegistryInv
<1>3. RecordedAttempt'
  <2> SUFFICES ASSUME NEW b \in Attempts PROVE AttemptRecorded(b)'
    BY Zenon DEF RecordedAttempt
  <2>1. (Live(b)' => Live(b)) /\ (attempt[b] # "none" => attempt'[b] # "none")
    BY DEF SignalCompletion, Live, TypeOK
  <2> QED BY <2>1, RecordKept, Zenon DEF SignalCompletion, recordVars, taskVars, attemptVars
<1> QED BY <1>0, <1>1, <1>2, <1>3, Zenon DEF RegistryInv

LEMMA CommitConnectionInv ==
  ASSUME TypeOK, RegistryInv, NEW a \in Attempts, CommitConnection(a)
  PROVE  RegistryInv'
<1>0. FreshRecord'
  BY Zenon DEF RegistryInv, FreshRecord, CommitConnection, recordVars, attemptVars
<1>1. TokenHasHolder' /\ JoinedGeneration' /\ AttachmentIsLast' /\
     ReplacedWhileReplacing' /\ ServedIsAttached' /\ GenerationsDistinct'
  BY ConnectionsKept, Zenon DEF CommitConnection, recordVars, taskVars
<1>2. SlotHeld'
  BY RegistryAssumption, ZenonT(60) DEF SlotHeld, Live, CommitConnection, CommitOpen,
       Current, recordVars, taskVars, attemptVars, TypeOK, RegistryInv
<1>3. RecordedAttempt'
  <2> SUFFICES ASSUME NEW b \in Attempts PROVE AttemptRecorded(b)'
    BY Zenon DEF RecordedAttempt
  <2>1. (Live(b)' => Live(b)) /\ (attempt[b] # "none" => attempt'[b] # "none")
    BY DEF CommitConnection, Live, TypeOK
  <2> QED BY <2>1, RecordKept, Zenon DEF CommitConnection, recordVars, taskVars, attemptVars
<1> QED BY <1>0, <1>1, <1>2, <1>3, Zenon DEF RegistryInv

LEMMA AttemptEndsInv ==
  ASSUME TypeOK, RegistryInv, NEW a \in Attempts, AttemptEnds(a)
  PROVE  RegistryInv'
<1>0. FreshRecord'
  BY Zenon DEF RegistryInv, FreshRecord, AttemptEnds, recordVars, attemptVars
<1>1. TokenHasHolder' /\ JoinedGeneration' /\ AttachmentIsLast' /\
     ReplacedWhileReplacing' /\ ServedIsAttached' /\ GenerationsDistinct'
  BY ConnectionsKept, Zenon DEF AttemptEnds, recordVars, taskVars
<1>2. SlotHeld'
  BY RegistryAssumption, Zenon DEF SlotHeld, Live, AttemptEnds, recordVars, taskVars,
       attemptVars, TypeOK, RegistryInv
<1>3. RecordedAttempt'
  <2> SUFFICES ASSUME NEW b \in Attempts PROVE AttemptRecorded(b)'
    BY Zenon DEF RecordedAttempt
  <2>1. (Live(b)' => Live(b)) /\ (attempt[b] # "none" => attempt'[b] # "none")
    BY DEF AttemptEnds, Live, TypeOK
  <2> QED BY <2>1, RecordKept, Zenon DEF AttemptEnds, recordVars, taskVars, attemptVars
<1> QED BY <1>0, <1>1, <1>2, <1>3, Zenon DEF RegistryInv

-----------------------------------------------------------------------------
(* Types *)

LEMMA TypeStep ==
  ASSUME TypeOK, RegistryInv, [Next]_vars
  PROVE  TypeOK'
<1>1. ASSUME NEW s \in Sessions, Issue(s) PROVE TypeOK'
  BY <1>1, RegistryAssumption, Zenon DEF Issue, recordVars, taskVars, attemptVars,
       TypeOK, Status, Task, AttemptPhase
<1>2. CASE DropStale
  BY <1>2, Zenon DEF DropStale, recordVars, taskVars, attemptVars, TypeOK, Status,
       Task, AttemptPhase
<1>3. ASSUME NEW s \in Sessions, Deadline(s) PROVE TypeOK'
  BY <1>3, RegistryAssumption, Zenon DEF Deadline, recordVars, taskVars, attemptVars,
       TypeOK, Status, Task, AttemptPhase
<1>4. ASSUME NEW s \in Sessions, Revoke(s) PROVE TypeOK'
  BY <1>4, RegistryAssumption DEF Revoke, Present, Cancel, recordVars,
       taskVars, attemptVars, TypeOK, Status, Task, AttemptPhase
<1>5. ASSUME NEW c \in Conns, PrepareAttach(c) PROVE TypeOK'
  BY <1>5, RegistryAssumption DEF PrepareAttach, Valid, NextGeneration,
       Present, recordVars, taskVars, attemptVars, TypeOK, Status, Task,
       AttemptPhase
<1>6. ASSUME NEW c \in Conns, CommitAttach(c) PROVE TypeOK'
  <2>1. session[c] \in Sessions
    BY <1>6, Zenon DEF CommitAttach, RegistryInv, JoinedGeneration
  <2>2. CASE ~closed[c] /\ Valid(c)
    <3>1. cancelled' \in [Attempts -> BOOLEAN]
      <4>1. cancelled' = cancelled \/ Cancel(CancelOnReattach(session[c]))
        BY <1>6, <2>2, Zenon DEF CommitAttach
      <4> QED BY <4>1, Zenon DEF Cancel, TypeOK
    <3>2. closing' \in [Sessions -> Conns \cup {None}]
      BY <1>6, <2>2 DEF CommitAttach, TypeOK
    <3>3. generation' \in [Sessions -> Nat]
      BY <1>6, <2>1, <2>2 DEF CommitAttach, NextGeneration, TypeOK
    <3>4. /\ status' \in [Sessions -> Status] /\ token' \in [Sessions -> Conns \cup {None}]
          /\ attached' \in [Sessions -> Conns \cup {None}]
          /\ replaced' \in [Conns -> Conns \cup {None}] /\ task' \in [Conns -> Task]
      BY <1>6, <2>1, <2>2 DEF CommitAttach, TypeOK, Status, Task
    <3> QED BY <1>6, <3>1, <3>2, <3>3, <3>4, Zenon DEF CommitAttach, TypeOK
  <2>3. CASE ~(~closed[c] /\ Valid(c))
    BY <1>6, <2>3, Zenon DEF CommitAttach, TypeOK, Task
  <2> QED BY <2>2, <2>3, Zenon
<1>7. ASSUME NEW c \in Conns, CloseReplaced(c) PROVE TypeOK'
  BY <1>7, RegistryAssumption, Zenon DEF CloseReplaced, recordVars, taskVars,
       attemptVars, TypeOK, Status, Task, AttemptPhase
<1>8. ASSUME NEW c \in Conns, DropPermit(c) PROVE TypeOK'
  BY <1>8, RegistryAssumption, Zenon DEF DropPermit, CancelHandshake, Valid, Present,
       recordVars, taskVars, attemptVars, TypeOK, Status, Task, AttemptPhase
<1>9. ASSUME NEW c \in Conns, DisconnectIfCurrent(c) PROVE TypeOK'
  BY <1>9, RegistryAssumption, Zenon DEF DisconnectIfCurrent, Cancel, Present,
       recordVars, taskVars, attemptVars, TypeOK, Status, Task, AttemptPhase
<1>10. ASSUME NEW c \in Conns, HandshakeFails(c) PROVE TypeOK'
  BY <1>10, RegistryAssumption, Zenon DEF HandshakeFails, recordVars, taskVars,
       attemptVars, TypeOK, Status, Task, AttemptPhase
<1>11. ASSUME NEW cs \in SUBSET Conns, CloseSlow(cs) PROVE TypeOK'
  BY <1>11, RegistryAssumption, Zenon DEF CloseSlow, recordVars, taskVars,
       attemptVars, TypeOK, Status, Task, AttemptPhase
<1>12. ASSUME NEW c \in Conns, Leave(c) PROVE TypeOK'
  BY <1>12, RegistryAssumption, Zenon DEF Leave, recordVars, taskVars, attemptVars,
       TypeOK, Status, Task, AttemptPhase
<1>13. ASSUME NEW c \in Conns, CloseRevoked(c) PROVE TypeOK'
  BY <1>13, RegistryAssumption, Zenon DEF CloseRevoked, recordVars, taskVars,
       attemptVars, TypeOK, Status, Task, AttemptPhase
<1>14. ASSUME NEW c \in Conns, NEW s \in Sessions, BeginHandshake(c, s) PROVE TypeOK'
  BY <1>14, RegistryAssumption DEF BeginHandshake, Present, recordVars,
       taskVars, attemptVars, TypeOK, Status, Task, AttemptPhase
<1>15. ASSUME NEW c \in Conns, NEW t \in BOOLEAN, NEW a \in Attempts, ReserveConnection(c, t, a) PROVE TypeOK'
  <2>1. session[c] \in Sessions
    BY <1>15, Zenon DEF ReserveConnection, RegistryInv, JoinedGeneration
  <2>2. CASE slot = None
    BY <1>15, <2>1, <2>2 DEF ReserveConnection, taskVars, TypeOK, AttemptPhase
  <2>3. CASE slot # None
    BY <1>15, <2>1, <2>3 DEF ReserveConnection, taskVars, TypeOK
  <2> QED BY <2>2, <2>3, Zenon
<1>16. ASSUME NEW c \in Conns, NEW d \in Conns, StopNonTunnelAttachment(c, d) PROVE TypeOK'
  BY <1>16, RegistryAssumption, Zenon DEF StopNonTunnelAttachment, Current, Cancel,
       recordVars, taskVars, attemptVars, TypeOK, Status, Task, AttemptPhase
<1>17. ASSUME NEW a \in Attempts, ReleaseSlot(a) PROVE TypeOK'
  BY <1>17, RegistryAssumption, Zenon DEF ReleaseSlot, recordVars, taskVars,
       attemptVars, TypeOK, Status, Task, AttemptPhase
<1>18. ASSUME NEW a \in Attempts, SignalCompletion(a) PROVE TypeOK'
  BY <1>18, RegistryAssumption, Zenon DEF SignalCompletion, recordVars, taskVars,
       attemptVars, TypeOK, Status, Task, AttemptPhase
<1>19. ASSUME NEW a \in Attempts, CommitConnection(a) PROVE TypeOK'
  BY <1>19, RegistryAssumption, Zenon DEF CommitConnection, Current, recordVars,
       taskVars, attemptVars, TypeOK, Status, Task, AttemptPhase
<1>20. ASSUME NEW a \in Attempts, AttemptEnds(a) PROVE TypeOK'
  BY <1>20, RegistryAssumption, Zenon DEF AttemptEnds, recordVars, taskVars,
       attemptVars, TypeOK, Status, Task, AttemptPhase
<1>21. CASE UNCHANGED vars
  BY <1>21, Zenon DEF vars, recordVars, taskVars, attemptVars, TypeOK
<1> QED BY <1>1, <1>2, <1>3, <1>4, <1>5, <1>6, <1>7, <1>8, <1>9, <1>10, <1>11,
     <1>12, <1>13, <1>14, <1>15, <1>16, <1>17, <1>18, <1>19, <1>20, <1>21, Zenon DEF Next,
     TaskStep, AttemptStep

-----------------------------------------------------------------------------
(* Theorems *)

LEMMA InitInv == Init => TypeOK /\ RegistryInv
<1> SUFFICES ASSUME Init PROVE TypeOK /\ RegistryInv
  OBVIOUS
<1>1. TypeOK
  BY Zenon DEF Init, TypeOK, Status, Task, AttemptPhase
<1>2. FreshRecord /\ TokenHasHolder /\ AttachmentIsLast
  BY Zenon DEF Init, FreshRecord, TokenHasHolder, AttachmentIsLast
<1>3. JoinedGeneration /\ ReplacedWhileReplacing /\ ServedIsAttached /\ GenerationsDistinct
  BY Zenon DEF Init, JoinedGeneration, ReplacedWhileReplacing, ServedIsAttached,
         GenerationsDistinct, Serving
<1>4. SlotHeld /\ RecordedAttempt
  BY RegistryAssumption, Zenon DEF Init, SlotHeld, RecordedAttempt, AttemptRecorded, Live
<1> QED BY <1>1, <1>2, <1>3, <1>4, Zenon DEF RegistryInv

LEMMA InvStep ==
  ASSUME TypeOK, RegistryInv, [Next]_vars
  PROVE  RegistryInv'
<1>1. CASE Next
  BY <1>1, IssueInv, DropStaleInv, DeadlineInv, RevokeInv, PrepareAttachInv,
       CommitAttachInv, CloseReplacedInv, DropPermitInv, DisconnectIfCurrentInv,
       HandshakeFailsInv, CloseSlowInv, LeaveInv, CloseRevokedInv,
       BeginHandshakeInv, ReserveConnectionInv, StopNonTunnelAttachmentInv,
       ReleaseSlotInv, SignalCompletionInv, CommitConnectionInv, AttemptEndsInv, Zenon DEF
       Next, TaskStep, AttemptStep
<1>2. CASE UNCHANGED vars
  <2> USE <1>2 DEF vars, recordVars, taskVars, attemptVars, RegistryInv
  <2>1. FreshRecord' /\ SlotHeld'
    BY Zenon DEF FreshRecord, SlotHeld, Live
  <2>2. TokenHasHolder' /\ JoinedGeneration'
    BY Zenon DEF TokenHasHolder, JoinedGeneration, Present
  <2>3. AttachmentIsLast' /\ ReplacedWhileReplacing'
    BY Zenon DEF AttachmentIsLast, ReplacedWhileReplacing, Present
  <2>4. ServedIsAttached' /\ GenerationsDistinct'
    BY ZenonT(60) DEF ServedIsAttached, GenerationsDistinct, Present
  <2>5. RecordedAttempt'
    <3> SUFFICES ASSUME NEW b \in Attempts PROVE AttemptRecorded(b)'
      BY Zenon DEF RecordedAttempt
    <3>1. (Live(b)' => Live(b)) /\ (attempt[b] # "none" => attempt'[b] # "none")
      BY Zenon DEF Live
    <3> QED BY <3>1, RecordKept, Zenon
  <2> QED BY <2>1, <2>2, <2>3, <2>4, <2>5, Zenon DEF RegistryInv
<1> QED BY <1>1, <1>2, Zenon

\* The registry's records, the connection tasks and the attempts keep their
\* types, and what they know of each other stays consistent.
THEOREM RegistryInvariant == Spec => [](TypeOK /\ RegistryInv)
<1>1. TypeOK /\ RegistryInv /\ [Next]_vars => (TypeOK /\ RegistryInv)'
  BY TypeStep, InvStep, Zenon
<1> QED BY <1>1, InitInv, PTL DEF Spec

\* A handshake token in a record always has a connection task that will use or
\* cancel it (begin_handshake, commit_attach, cancel_handshake).
THEOREM TokensAreHeld == Spec => []TokenHasHolder
<1>1. RegistryInv => TokenHasHolder
  BY Zenon DEF RegistryInv
<1> QED BY <1>1, RegistryInvariant, PTL

\* A served connection is the attachment of its session, or is closed or about
\* to be (commit_attach, revoke, disconnect_if_current).
THEOREM OneServedConnection == Spec => []ServedIsAttached
<1>1. RegistryInv => ServedIsAttached
  BY Zenon DEF RegistryInv
<1> QED BY <1>1, RegistryInvariant, PTL

\* A live non-tunnel attempt that was not cancelled still has the attachment it
\* was requested on (reserve_connection, commit_attach, revoke,
\* disconnect_if_current, stop_non_tunnel_attachment).
THEOREM NonTunnelHasAttachment == Spec => []NonTunnelFollowsAttachment
<1>1. TypeOK /\ RegistryInv => NonTunnelFollowsAttachment
  <2> SUFFICES ASSUME TypeOK, RegistryInv, NEW a \in Attempts,
                      Live(a), ~tunnel[a], ~cancelled[a]
               PROVE  LET s == session[owner[a]] IN
                      /\ status[s] = "active" /\ attached[s] = owner[a]
                      /\ closing[s] # owner[a] /\ nonTunnel[s] = a
    BY Zenon DEF NonTunnelFollowsAttachment
  <2>1. owner[a] \in Conns /\ nonTunnel[session[owner[a]]] = a /\ task[owner[a]] # "idle"
    BY Zenon DEF RegistryInv, RecordedAttempt, AttemptRecorded
  <2>2. session[owner[a]] \in Sessions
    BY <2>1, Zenon DEF RegistryInv, JoinedGeneration
  <2>3. LET s == session[owner[a]] IN
        \/ cancelled[a]
        \/ status[s] = "active" /\ attached[s] = owner[a] /\ closing[s] # owner[a]
    BY <2>1, <2>2, ZenonT(60) DEF RegistryInv, RecordedAttempt, AttemptRecorded
  <2> QED BY <2>1, <2>3, Zenon
<1> QED BY <1>1, RegistryInvariant, PTL

\* An attempt is cancelled only when its own attachment has gone or was asked to
\* stop: disconnect_if_current, commit_attach and stop_non_tunnel_attachment
\* never reach the attempt of a successor.
THEOREM CancelsOwnAttempts == Spec => OnlyOwnAttemptsCancelled
<1> DEFINE Own(a) == LET s == session[owner[a]] IN
             \/ status'[s] # "active" \/ attached'[s] # owner[a] \/ closing'[s] = owner[a]
<1>1. ASSUME TypeOK, RegistryInv, [Next]_vars, NEW a \in Attempts,
             ~cancelled[a], cancelled'[a]
      PROVE  Own(a)
  <2>1. ASSUME NEW s \in Sessions, nonTunnel[s] = a
        PROVE  /\ owner[a] \in Conns /\ session[owner[a]] = s /\ status[s] = "active"
               /\ attached[s] = owner[a] /\ joined[owner[a]] = generation[s]
               /\ task[owner[a]] \in {"replacing", "running", "leaving"}
    <3>1. AttemptRecorded(a) /\ a # None
      BY <1>1, RegistryAssumption, Zenon DEF RegistryInv, RecordedAttempt
    <3>2. /\ owner[a] \in Conns /\ session[owner[a]] = s /\ status[s] = "active"
          /\ attached[s] = owner[a] /\ owner[a] # None
      BY <1>1, <2>1, <3>1, RegistryAssumption, Zenon DEF AttemptRecorded
    <3>3. AttachmentIsLast
      BY <1>1, Zenon DEF RegistryInv
    <3> QED BY <3>2, <3>3, Zenon DEF AttachmentIsLast, Present
  <2>2. ASSUME NEW s \in Sessions, Revoke(s) PROVE Own(a)
    BY <1>1, <2>1, <2>2, SMTT(30) DEF Revoke, Cancel, Recorded, TypeOK
  <2>3. ASSUME NEW c \in Conns, CommitAttach(c) PROVE Own(a)
    <3>1. session[c] \in Sessions
      BY <1>1, <2>3, Zenon DEF CommitAttach, RegistryInv, JoinedGeneration
    <3>2. nonTunnel[session[c]] = a /\ attached'[session[c]] = c
      BY <1>1, <2>3, <3>1 DEF CommitAttach, Cancel, CancelOnReattach, Recorded, TypeOK
    <3>3. task[c] = "prepared"
      BY <2>3, Zenon DEF CommitAttach
    <3>4. session[owner[a]] = session[c] /\ owner[a] # c
      BY <2>1, <3>1, <3>2, <3>3
    <3> QED BY <3>2, <3>4, Zenon
  <2>4. ASSUME NEW c \in Conns, DisconnectIfCurrent(c) PROVE Own(a)
    <3>1. session[c] \in Sessions /\ nonTunnel[session[c]] = a /\ joined[owner[a]] = joined[c]
      BY <1>1, <2>4, ZenonT(60) DEF DisconnectIfCurrent, Cancel, Detached, Recorded, RegistryInv,
         JoinedGeneration
    <3>2. attached'[session[c]] = None
      BY <1>1, <2>1, <2>4, <3>1 DEF DisconnectIfCurrent, TypeOK
    <3> QED BY <2>1, <3>1, <3>2, RegistryAssumption, Zenon
  <2>5. ASSUME NEW c \in Conns, NEW d \in Conns, StopNonTunnelAttachment(c, d) PROVE Own(a)
    <3>1. session[c] \in Sessions /\ nonTunnel[session[c]] = a /\ owner[a] = d
      BY <1>1, <2>5, Zenon DEF StopNonTunnelAttachment, Cancel, Recorded, RegistryInv,
         JoinedGeneration
    <3>2. closing'[session[c]] = d
      BY <1>1, <2>1, <2>5, <3>1 DEF StopNonTunnelAttachment, TypeOK
    <3> QED BY <2>1, <3>1, <3>2, Zenon
  <2>6. ASSUME NEW s \in Sessions, Issue(s) \/ Deadline(s) PROVE cancelled' = cancelled
    BY <2>6, Zenon DEF Issue, Deadline, attemptVars
  <2>7. ASSUME DropStale PROVE cancelled' = cancelled
    BY <2>7, Zenon DEF DropStale, attemptVars
  <2>8. ASSUME NEW c \in Conns,
               PrepareAttach(c) \/ CloseReplaced(c) \/ DropPermit(c) \/ HandshakeFails(c)
                 \/ Leave(c) \/ CloseRevoked(c)
        PROVE  cancelled' = cancelled
    BY <2>8, Zenon DEF PrepareAttach, CloseReplaced, DropPermit, HandshakeFails,
       Leave, CloseRevoked, attemptVars
  <2>8a. ASSUME NEW cs \in SUBSET Conns, CloseSlow(cs)
         PROVE  cancelled' = cancelled
    BY <2>8a, Zenon DEF CloseSlow, attemptVars
  <2>9. ASSUME NEW c \in Conns, NEW s \in Sessions, BeginHandshake(c, s)
        PROVE  cancelled' = cancelled
    BY <2>9, Zenon DEF BeginHandshake, attemptVars
  <2>10. ASSUME NEW c \in Conns, NEW t \in BOOLEAN, NEW b \in Attempts,
                ReserveConnection(c, t, b)
         PROVE  cancelled' = cancelled
    BY <2>10, Zenon DEF ReserveConnection
  <2>11. ASSUME NEW b \in Attempts,
                AttemptStep(b) \/ CommitConnection(b) \/ AttemptEnds(b)
         PROVE  cancelled' = cancelled
    BY <2>11, Zenon DEF AttemptStep, ReleaseSlot, SignalCompletion, CommitConnection, AttemptEnds
  <2>12. ASSUME UNCHANGED vars PROVE cancelled' = cancelled
    BY <2>12, Zenon DEF vars, attemptVars
  <2> QED
    BY <1>1, <2>2, <2>3, <2>4, <2>5, <2>6, <2>7, <2>8, <2>8a, <2>9, <2>10, <2>11, <2>12, Zenon
       DEF Next, TaskStep
<1>2. TypeOK /\ RegistryInv /\ [Next]_vars =>
        [\A a \in Attempts : ~cancelled[a] /\ cancelled'[a] => Own(a)]_vars
  BY <1>1, Zenon
<1> QED BY <1>2, RegistryInvariant, PTL DEF Spec, OnlyOwnAttemptsCancelled

\* At most MaxPending credentials wait for their first attachment (issue).
THEOREM PendingLimit == Spec => []PendingBounded
<1>1. Init => PendingBounded
  <2> SUFFICES ASSUME Init PROVE Pending = {}
    BY FS_EmptySet, RegistryAssumption DEF PendingBounded
  <2> QED BY Zenon DEF Init, Pending
<1>2. IsFiniteSet(Pending) /\ Cardinality(Pending) \in Nat
  BY RegistryAssumption, FS_Subset, FS_CardinalityType, Zenon DEF Pending
<1>3. ASSUME TypeOK, PendingBounded, [Next]_vars
      PROVE  PendingBounded'
  <2>1. CASE \E s \in Sessions : Issue(s)
    <3>1. PICK s \in Sessions : Issue(s)
      BY <2>1, Zenon
    <3> DEFINE kept == Pending \ {t \in Sessions : Stale(t)}
    <3>2. IsFiniteSet(kept) /\ Cardinality(kept) \in Nat /\ Cardinality(kept) < MaxPending
      BY <1>2, <3>1, FS_Subset, FS_CardinalityType, Zenon DEF Issue, BelowLimit
    <3>3. Pending' \subseteq kept \cup {s}
      BY <1>3, <3>1, Zenon DEF Pending, Issue, TypeOK
    <3>4. /\ IsFiniteSet(kept \cup {s})
          /\ Cardinality(kept \cup {s}) <= Cardinality(kept) + 1
      <4> HIDE DEF kept
      <4>1. /\ IsFiniteSet(kept \cup {s})
            /\ Cardinality(kept \cup {s}) =
                 IF s \in kept THEN Cardinality(kept) ELSE Cardinality(kept) + 1
        BY <3>2, FS_AddElement, Zenon
      <4> QED BY <3>2, <4>1
    <3>5. Cardinality(Pending') <= Cardinality(kept \cup {s}) /\ Cardinality(Pending') \in Nat
      BY <3>3, <3>4, FS_Subset, FS_CardinalityType, Zenon
    <3> HIDE DEF kept
    <3>6. Cardinality(kept \cup {s}) \in Nat
      BY <3>4, FS_CardinalityType
    <3> QED BY <3>2, <3>4, <3>5, <3>6, RegistryAssumption DEF PendingBounded
  <2>2. ASSUME ~\E s \in Sessions : Issue(s)
        PROVE  Pending' \subseteq Pending
    <3> SUFFICES ASSUME NEW t \in Sessions, status'[t] = "pending", status[t] # "pending"
                 PROVE  FALSE
      BY Zenon DEF Pending
    <3>1. ASSUME NEW s \in Sessions, Deadline(s) \/ Revoke(s) PROVE FALSE
      BY <1>3, <3>1, Zenon DEF Deadline, Revoke, TypeOK
    <3>2. ASSUME DropStale PROVE FALSE
      BY <3>2, Zenon DEF DropStale
    <3>3. ASSUME NEW c \in Conns,
                 PrepareAttach(c) \/ CloseReplaced(c) \/ HandshakeFails(c)
                   \/ Leave(c) \/ CloseRevoked(c) \/ DisconnectIfCurrent(c)
          PROVE  FALSE
      BY <3>3, Zenon DEF PrepareAttach, CloseReplaced, HandshakeFails, Leave,
         CloseRevoked, DisconnectIfCurrent, recordVars
    <3>3a. ASSUME NEW cs \in SUBSET Conns, CloseSlow(cs) PROVE FALSE
      BY <3>3a, ZenonT(60) DEF CloseSlow, recordVars
    <3>4. ASSUME NEW c \in Conns, CommitAttach(c) \/ DropPermit(c) PROVE FALSE
      BY <1>3, <3>4, ZenonT(40) DEF CommitAttach, DropPermit, CancelHandshake, TypeOK
    <3>5. ASSUME NEW c \in Conns, NEW s \in Sessions, BeginHandshake(c, s) PROVE FALSE
      BY <1>3, <3>5, Zenon DEF BeginHandshake, TypeOK
    <3>6. ASSUME NEW c \in Conns, NEW d \in Conns, StopNonTunnelAttachment(c, d) PROVE FALSE
      BY <3>6, Zenon DEF StopNonTunnelAttachment
    <3>7. ASSUME NEW c \in Conns, NEW k \in BOOLEAN, NEW a \in Attempts,
                 ReserveConnection(c, k, a)
          PROVE  FALSE
      BY <3>7, Zenon DEF ReserveConnection
    <3>8. ASSUME NEW a \in Attempts,
                 AttemptStep(a) \/ CommitConnection(a) \/ AttemptEnds(a)
          PROVE  FALSE
      BY <3>8, Zenon DEF AttemptStep, ReleaseSlot, SignalCompletion, CommitConnection,
         AttemptEnds, recordVars
    <3>9. ASSUME UNCHANGED vars PROVE FALSE
      BY <3>9, Zenon DEF vars, recordVars
    <3> QED BY <1>3, <2>2, <3>1, <3>2, <3>3, <3>3a, <3>4, <3>5, <3>6, <3>7, <3>8, <3>9, Zenon
            DEF Next, TaskStep
  <2>3. CASE ~\E s \in Sessions : Issue(s)
    <3>1. Cardinality(Pending') <= Cardinality(Pending) /\ Cardinality(Pending') \in Nat
      BY <1>2, <2>2, <2>3, FS_Subset, FS_CardinalityType, Zenon
    <3> QED BY <1>2, <1>3, <3>1, RegistryAssumption DEF PendingBounded
  <2> QED BY <2>1, <2>3, Zenon
<1>4. TypeOK /\ PendingBounded /\ [Next]_vars => PendingBounded'
  BY <1>3, Zenon
<1>5. TypeOK /\ RegistryInv => TypeOK
  OBVIOUS
<1> QED BY <1>1, <1>4, <1>5, RegistryInvariant, PTL DEF Spec
=============================================================================
