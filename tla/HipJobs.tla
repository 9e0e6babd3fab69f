------------------------------- MODULE HipJobs ------------------------------
(***************************************************************************)
(* HIP work of the service: preview jobs, reports that clients upload, and *)
(* the collection for a connection. Each is a specification of its own     *)
(* over s.                                                                 *)
(***************************************************************************)
EXTENDS Integers, Sequences, FiniteSets

CONSTANTS
  Conns, SessionOf, None, Slots, MaxStarts,
  MaxChunk, MaxReport, Page, MaxIds,
  MaxReports, Capacity

VARIABLE s

-----------------------------------------------------------------------------
(***************************************************************************)
(* HIP previews (gpservice hip_preview.rs): one worker for each session and *)
(* a bounded number in all, cancelled with the connection that asked for it *)
(* and with the service.                                                    *)
(***************************************************************************)
Sessions == {SessionOf[c] : c \in Conns}

\* jobs: the workers spawned so far; tasks: the map from sessions to them.
\* lock: who holds the map's lock.  A connection is open, then cancels its
\* preview, then is closed; room: its reply queue has room.
PreviewInit ==
  s = [tasks |-> [x \in Sessions |-> None], jobs |-> <<>>, lock |-> None, room |-> TRUE,
       conn |-> [c \in Conns |-> "open"], down |-> FALSE, shut |-> "no", taken |-> {},
       stored |-> [x \in Sessions |-> None]]

Jobs == DOMAIN s.jobs
Working(j) == s.jobs[j].st # "done"
Free == Slots - Cardinality({j \in Jobs : Working(j)})

\* start: refused while shutting down or while the session's worker is not done;
\* a worker that is done leaves the map, also when every slot is taken.
Start(c) ==
  LET x == SessionOf[c] IN
  /\ s.conn[c] = "open" /\ s.lock = None /\ Len(s.jobs) < MaxStarts
  /\ ~s.down /\ (s.tasks[x] # None => ~Working(s.tasks[x]))
  /\ s' = IF Free = 0 THEN [s EXCEPT !.tasks[x] = None]
          ELSE [s EXCEPT !.jobs = Append(@, [conn |-> c, st |-> "generating", cancelled |-> FALSE]),
                  !.tasks[x] = Len(s.jobs) + 1]

\* The blocking generation fails, notices the cancellation or ends; a report is
\* kept for the session, and the reply is queued only if there is room.
Generated(j) ==
  /\ s.jobs[j].st = "generating"
  /\ \E ok \in BOOLEAN :
       s' = [s EXCEPT !.jobs[j].st = "replying",
               !.stored[SessionOf[s.jobs[j].conn]] = IF ok THEN j ELSE @]
Replied(j) == s.jobs[j].st = "replying" /\ s' = [s EXCEPT !.jobs[j].st = "done", !.room = FALSE]
Drained == ~s.room /\ s' = [s EXCEPT !.room = TRUE]

\* cancel_connection: under the lock, which is kept while the worker is joined.
CancelConnection(c) ==
  LET x == SessionOf[c] j == s.tasks[x] IN
  /\ s.conn[c] = "open" /\ s.lock = None
  /\ s' = IF j = None \/ s.jobs[j].conn # c THEN [s EXCEPT !.conn[c] = "closed"]
          ELSE [s EXCEPT !.conn[c] = "joining", !.lock = c, !.tasks[x] = None,
                  !.jobs[j].cancelled = TRUE, !.taken = {j}]
Joined(c) ==
  /\ s.conn[c] = "joining" /\ \A j \in s.taken : ~Working(j)
  /\ s' = [s EXCEPT !.conn[c] = "closed", !.lock = None, !.taken = {}]

\* shutdown: the token first, then the map is taken under the lock.
Shutdown == ~s.down /\ s' = [s EXCEPT !.down = TRUE, !.shut = "locking"]
ShutdownTakes ==
  /\ s.shut = "locking" /\ s.lock = None
  /\ s' = [s EXCEPT !.shut = "joining", !.tasks = [x \in Sessions |-> None],
             !.taken = {s.tasks[x] : x \in Sessions} \ {None}]
ShutdownJoined ==
  /\ s.shut = "joining" /\ \A j \in s.taken : ~Working(j)
  /\ s' = [s EXCEPT !.shut = "done", !.taken = {}]

JobStep == \E j \in Jobs : Generated(j) \/ Replied(j)
Joins == ShutdownTakes \/ ShutdownJoined \/ \E c \in Conns : Joined(c)
PreviewNext == JobStep \/ Joins \/ Drained \/ Shutdown \/ \E c \in Conns : Start(c) \/ CancelConnection(c)

\* No worker outlives the shutdown, nor its connection's teardown unless the
\* shutdown has taken it over; no more work than there are slots, and one worker
\* of a session at a time; a connection's teardown cancels no preview of another
\* connection.
PreviewsOwned ==
  /\ Free >= 0
  /\ \A j \in Jobs : Working(j) => s.shut # "done" /\ (s.conn[s.jobs[j].conn] # "closed" \/ j \in s.taken)
  /\ \A i, j \in Jobs : (i # j /\ Working(i) /\ Working(j)) => SessionOf[s.jobs[i].conn] # SessionOf[s.jobs[j].conn]
  /\ \A j \in Jobs : s.jobs[j].cancelled => s.conn[s.jobs[j].conn] # "open"

Teardown == s.shut \in {"locking", "joining"} \/ \E c \in Conns : s.conn[c] = "joining"

-----------------------------------------------------------------------------
(***************************************************************************)
(* Reports kept for a session (gpservice session_registry.rs): the edited   *)
(* report a client uploads in chunks, the report a Connect asks for by id,  *)
(* and the chunks of a preview a client reads back.                         *)
(***************************************************************************)
\* A report is a sequence of bytes; each is tagged with the upload that sent it
\* and its position there.  Wide characters take two bytes, the tail of which
\* is no boundary.
UploadInit ==
  s = [active |-> TRUE, upload |-> None, report |-> None, ids |-> 0, used |-> None,
       preview |-> None, got |-> <<>>, last |-> "none"]

Chunk(id, from, n) == [i \in 1 .. n |-> <<id, from + i>>]
Reject(keep) == [s EXCEPT !.last = "invalid", !.upload = IF keep THEN @ ELSE None]
Fresh == s.ids + 1

\* append_edited_hip_report_chunk.
AppendChunk ==
  \E id \in {None} \cup 1 .. s.ids, offset \in 0 .. MaxReport, n \in 0 .. MaxChunk + 1, complete, valid \in BOOLEAN :
    LET up == IF id = None THEN [id |-> Fresh, xml |-> <<>>] ELSE s.upload
        begun == [s EXCEPT !.ids = IF id = None THEN Fresh ELSE @, !.upload = up]
        xml == up.xml \o Chunk(up.id, Len(up.xml), n)
    IN
    /\ s.active /\ s.ids + 2 <= MaxIds
    /\ s' = IF (id = None /\ offset # 0) \/ up = None THEN Reject(TRUE)
            ELSE IF (id # None /\ id # up.id) \/ offset # Len(up.xml) \/ n > MaxChunk
              THEN [begun EXCEPT !.last = "invalid"]
            ELSE IF Len(xml) > MaxReport THEN [begun EXCEPT !.last = "invalid", !.upload = None]
            ELSE IF ~complete THEN [begun EXCEPT !.upload.xml = xml, !.last = "progress"]
            ELSE IF ~valid THEN [begun EXCEPT !.last = "invalid", !.upload = None]
            ELSE [begun EXCEPT !.upload = None, !.ids = @ + 1, !.last = "stored",
                    !.report = [id |-> begun.ids + 1, xml |-> xml]]

\* edited_hip_report: a Connect names the report it was prepared with.
UseReport ==
  \E id \in 1 .. s.ids :
    /\ s.active /\ s.report # None
    /\ s' = [s EXCEPT !.used = IF s.report.id = id THEN s.report ELSE None]

\* store_hip_preview: a new preview replaces the one being read.
StorePreview ==
  \E wide \in SUBSET (1 .. MaxReport - 1), n \in 1 .. MaxReport :
    /\ s.active /\ s.ids < MaxIds
    /\ \A i \in wide : i + 1 \notin wide /\ i < n
    /\ s' = [s EXCEPT !.ids = Fresh, !.preview = [id |-> Fresh, len |-> n, wide |-> wide], !.got = <<>>]

Boundary(p, i) == i = 0 \/ i \notin p.wide
\* hip_preview_chunk: the page ends at a character boundary.
PageEnd(p, offset) ==
  LET full == IF offset + Page < p.len THEN offset + Page ELSE p.len
  IN CHOOSE e \in 0 .. full : Boundary(p, e) /\ \A f \in e + 1 .. full : ~Boundary(p, f)
ReadChunk ==
  LET p == s.preview from == IF s.got = <<>> THEN 0 ELSE s.got[Len(s.got)] IN
  /\ s.active /\ p # None /\ from < p.len
  /\ s' = [s EXCEPT !.got = Append(@, PageEnd(p, from))]

\* The session is revoked, or a client reconnects to it: what it kept stays.
Disconnect == s.active /\ s' = [s EXCEPT !.active = FALSE]

UploadNext == AppendChunk \/ UseReport \/ StorePreview \/ ReadChunk \/ Disconnect

\* A stored report is the bytes of one upload, in order and without a gap, and
\* a Connect never uses another one than it named; the pages of a preview
\* advance and never split a character.
UploadsWhole ==
  /\ s.report # None => \A i \in DOMAIN s.report.xml : s.report.xml[i] = <<s.report.xml[1][1], i>>
  /\ s.report # None => Len(s.report.xml) <= MaxReport
  /\ s.preview # None => \A i \in DOMAIN s.got :
       /\ Boundary(s.preview, s.got[i])
       /\ s.got[i] > IF i = 1 THEN 0 ELSE s.got[i - 1]

-----------------------------------------------------------------------------
(***************************************************************************)
(* The HIP reports of a connection (gpservice hip_source.rs, openconnect    *)
(* ffi/hip.rs): the source is resolved once, when the attempt starts, and   *)
(* collected each time the gateway asks, while its approval may be revoked, *)
(* the attempt cancelled and the time for it run out.                       *)
(***************************************************************************)
Sources == {"Disabled", "Generated", "Edited", "UserScript", "ApprovedRootScript"}

\* uid: the desktop user's; macos: built for it or brokered there; edited: a
\* valid edited report was uploaded; script: an absolute executable file.
\* approved: the approval resolves, to the executable it named at first.
CollectInit ==
  \E source \in Sources, uid \in {"none", "root", "user"}, macos, edited, profile, script, approved \in BOOLEAN :
    s = [source |-> source, uid |-> uid, macos |-> macos, edited |-> edited, profile |-> profile,
         script |-> script, approved |-> approved, stop |-> FALSE, exec |-> "none", runAs |-> "none",
         pc |-> "resolve", late |-> FALSE, len |-> 0, written |-> 0, code |-> "none", reports |-> 0, ran |-> FALSE]

\* resolve: what may be run, and as whom.
CustomAvailable == ~s.macos
Resolvable ==
  CASE s.source = "Disabled" -> TRUE
    [] s.source = "Generated" -> s.profile
    [] s.source = "Edited" -> s.profile /\ s.edited
    [] s.source = "UserScript" -> CustomAvailable /\ s.uid = "user" /\ s.script
    [] s.source = "ApprovedRootScript" -> CustomAvailable /\ s.uid = "user" /\ s.approved
Resolve ==
  /\ s.pc = "resolve"
  /\ s' = IF ~Resolvable THEN [s EXCEPT !.pc = "failed"]
          ELSE [s EXCEPT !.pc = "idle", !.exec = s.source,
                  !.runAs = CASE s.source = "UserScript" -> s.uid [] s.source = "ApprovedRootScript" -> "root" [] OTHER -> "none"]

Revoke == s.approved /\ s' = [s EXCEPT !.approved = FALSE]
\* What HipControl::check reports: a cancellation or the end of the budget.
Stop == ~s.stop /\ s' = [s EXCEPT !.stop = TRUE]

Fail(code) == s' = [s EXCEPT !.pc = "idle", !.code = code]
Checked(next) == IF s.stop THEN \E code \in {"EINTR", "ETIMEDOUT"} : Fail(code) ELSE s' = next

\* The gateway wants a report.
Ask ==
  /\ s.pc = "idle" /\ s.exec # "Disabled" /\ s.reports < MaxReports
  /\ s' = [s EXCEPT !.pc = "check", !.reports = @ + 1, !.late = ~s.approved, !.len = 0, !.written = 0, !.code = "none", !.ran = FALSE]
\* generate_source_report and validate_hip_script both check first; the
\* validator of an approved script resolves its approval again.
Check == s.pc = "check" /\ Checked([s EXCEPT !.pc = IF s.exec = "ApprovedRootScript" THEN "validate" ELSE "run"])
Validate == s.pc = "validate" /\ IF s.approved THEN s' = [s EXCEPT !.pc = "validated"] ELSE Fail("EIO")
Validated == s.pc = "validated" /\ Checked([s EXCEPT !.pc = "run"])
\* The generator, or the library's child process, ends; a panic is an error.
Run ==
  /\ s.pc = "run"
  /\ \/ \E n \in 1 .. Capacity + 1 : s' = [s EXCEPT !.pc = "after", !.len = n, !.ran = TRUE]
     \/ s' = [s EXCEPT !.pc = "idle", !.code = "EIO", !.ran = TRUE]
After == s.pc = "after" /\ Checked([s EXCEPT !.pc = "copy"])
\* The report is copied whole, or not at all.
Copy ==
  /\ s.pc = "copy"
  /\ IF s.len > Capacity THEN Fail("E2BIG")
     ELSE s' = [s EXCEPT !.pc = "idle", !.written = s.len, !.code = "ok"]

CollectNext == Resolve \/ Revoke \/ Stop \/ Ask \/ Check \/ Validate \/ Validated \/ Run \/ After \/ Copy

\* Only what the user may run is run: custom scripts never on macOS, as the
\* verified desktop user or, as root, only if the approval held after the
\* report was asked for; a report that failed hands over nothing, and one that
\* did not is whole.
HipAllowed ==
  /\ s.ran /\ s.runAs # "none" => ~s.macos /\ s.uid = "user"
  /\ s.ran /\ s.runAs = "root" => s.exec = "ApprovedRootScript" /\ ~s.late
  /\ s.ran /\ s.exec = "Edited" => s.edited
  /\ s.ran => s.exec # "Disabled"
  /\ (s.written > 0) = (s.code = "ok")
  /\ s.written > 0 => s.written = s.len /\ s.written <= Capacity
=============================================================================
