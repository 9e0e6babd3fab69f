---------------------------- MODULE ServiceStores ---------------------------
(***************************************************************************)
(* What the service keeps on disk: the approved HIP scripts, the device    *)
(* anchor, the updated GUI, the VPNC script and the lock file. Each store  *)
(* is a specification of its own over s; they share the hazard, a crash or *)
(* another process between two steps on the file system.                   *)
(***************************************************************************)
EXTENDS Integers, Sequences

CONSTANTS
  Revokers, MaxCrashes,
  Procs, None,
  Requests,  \* the archive each request has the checksum of
  Archives,  \* what the user's file may hold
  Bad,  \* archives without a usable binary
  MaxChanges,
  Installers,
  Services, Pids

VARIABLE s

-----------------------------------------------------------------------------
(***************************************************************************)
(* The store of approved root HIP scripts (gpservice hip_approval.rs): one  *)
(* approval, installed by staging a directory and renaming it, read by      *)
(* status and resolve, revoked by renaming it away.  The process or the     *)
(* machine may crash between any two steps; a rename that was not followed  *)
(* by a sync of the base directory may be lost then.                        *)
(***************************************************************************)
ApprovalInstall == {"stage", "script", "meta", "sync", "publish", "syncBase"}

\* loc: where the directory is seen; dur: where the disk has it.  files: what
\* of its two files is durable.  acked: how a revocation was acknowledged.
ApprovalInit ==
  s = [loc |-> "none", dur |-> "none", files |-> {}, inst |-> "stage", owner |-> "alice",
       rev |-> [r \in Revokers |-> "idle"], read |-> "idle", uid |-> "alice", raced |-> FALSE,
       status |-> "none", installed |-> FALSE, acked |-> "no", renames |-> 0, crashes |-> 0]

\* install_at: a private staging directory, both files synced, the directory
\* synced, and only then the rename and the sync of the base.
ApprovalInstallStep ==
  /\ s.inst \in ApprovalInstall
  /\ s' = CASE s.inst = "stage" -> [s EXCEPT !.inst = "script", !.loc = "staged"]
            [] s.inst = "script" -> [s EXCEPT !.inst = "meta", !.files = @ \cup {"script"}]
            [] s.inst = "meta" -> [s EXCEPT !.inst = "sync", !.files = @ \cup {"meta"}]
            [] s.inst = "sync" -> [s EXCEPT !.inst = "publish", !.dur = "staged"]
            [] s.inst = "publish" -> [s EXCEPT !.inst = "syncBase", !.loc = "target"]
            [] s.inst = "syncBase" -> [s EXCEPT !.inst = "done", !.dur = s.loc, !.installed = TRUE]

ToRev(r, pc) == [s EXCEPT !.rev[r] = pc]

\* revoke_at: an approval that is not there counts as revoked already; the
\* metadata must name the revoking user.
RevokeStart(r) ==
  /\ s.rev[r] = "idle" /\ s.inst = "done"
  /\ s' = IF s.loc # "target" THEN [ToRev(r, "done") EXCEPT !.acked = IF @ = "no" THEN "seen" ELSE @]
          ELSE ToRev(r, "owner")
RevokeOwner(r) ==
  /\ s.rev[r] = "owner"
  /\ \E uid \in {"alice", "bob"} :
       s' = ToRev(r, IF s.loc = "target" /\ uid = s.owner THEN "rename" ELSE "failed")

\* The rename comes first: it is what revokes.  A status check in progress may
\* have seen the directory at its old place.
RevokeRename(r) ==
  /\ s.rev[r] = "rename"
  /\ s' = IF s.loc # "target" THEN ToRev(r, "failed")
          ELSE [ToRev(r, "syncBase") EXCEPT !.loc = "revoked", !.raced = s.read # "idle", !.renames = @ + 1]
RevokeSync(r) == s.rev[r] = "syncBase" /\ s' = [ToRev(r, "remove") EXCEPT !.dur = s.loc]
\* remove_dir_all may fail or stop halfway; the approval stays revoked.
RevokeRemove(r) ==
  /\ s.rev[r] = "remove"
  /\ \E left \in SUBSET s.files :
       s' = [ToRev(r, "done") EXCEPT !.files = left, !.acked = "synced",
               !.loc = IF left = {} THEN "gone" ELSE @, !.dur = IF left = {} THEN "gone" ELSE @]

\* status_at: existence of base, directory and metadata, then the metadata,
\* then resolve_at, each a look at the file system of that moment.
StatusStart == s.read = "idle" /\ \E uid \in {"alice", "bob"} : s' = [s EXCEPT !.read = "exists", !.uid = uid, !.raced = FALSE]
Report(st) == s' = [s EXCEPT !.read = "idle", !.status = st]
Present(f) == s.loc = "target" /\ f \in s.files
StatusExists ==
  s.read = "exists" /\ IF Present("meta") THEN s' = [s EXCEPT !.read = "meta"] ELSE Report("revoked")
StatusMeta ==
  /\ s.read = "meta"
  /\ IF ~Present("meta") THEN Report("corrupt")
     ELSE IF s.uid # s.owner THEN Report("other")
     ELSE s' = [s EXCEPT !.read = "resolve"]
StatusResolve ==
  /\ s.read = "resolve"
  /\ Report(IF Present("meta") /\ Present("script") THEN "valid" ELSE "corrupt")

\* Every process dies; what was renamed without a sync may be undone.
ApprovalCrash ==
  /\ s.crashes < MaxCrashes
  /\ \E l \in {s.loc, s.dur} :
       s' = [s EXCEPT !.crashes = @ + 1, !.loc = l, !.dur = l, !.read = "idle", !.raced = FALSE,
               !.inst = IF l \in {"none", "staged"} THEN "stage" ELSE "done",
               !.files = IF l \in {"none", "staged"} THEN {} ELSE @,
               !.rev = [r \in Revokers |-> IF @[r] = "done" THEN "done" ELSE "idle"]]

RevokeStep(r) == RevokeStart(r) \/ RevokeOwner(r) \/ RevokeRename(r) \/ RevokeSync(r) \/ RevokeRemove(r)
StatusStep == StatusStart \/ StatusExists \/ StatusMeta \/ StatusResolve
ApprovalNext == ApprovalInstallStep \/ StatusStep \/ ApprovalCrash \/ \E r \in Revokers : RevokeStep(r)

ApprovalSpec == ApprovalInit /\ [][ApprovalNext]_s

\* A revocation that was carried out and acknowledged is final, crashes
\* included; an approval whose installation returned is lost to revocation
\* only; and "corrupt" is never reported of an approval nobody touched.
ApprovalsDurable ==
  /\ s.acked = "synced" => s.loc # "target"
  /\ s.installed /\ s.renames = 0 => s.loc = "target"
  /\ s.status = "corrupt" => s.renames > 0

-----------------------------------------------------------------------------
(***************************************************************************)
(* The installation identity (gpservice device_anchor.rs): processes that   *)
(* resolve it at the same time, the lock file, the record that is written   *)
(* aside and linked into place, and crashes before it is durable.           *)
(***************************************************************************)
Macs == {"absent", "zero", "multicast", "unicast"}

AnchorInit ==
  \E mac \in Macs :
    s = [mac |-> mac, file |-> None, disk |-> None, lock |-> None, fresh |-> 1,
         pc |-> [p \in Procs |-> "idle"], got |-> [p \in Procs |-> None],
         returned |-> {}, crashes |-> 0]

AnchorTo(p, pc) == [s EXCEPT !.pc[p] = pc]
Return(p, f, a) == s' = [f EXCEPT !.pc[p] = "idle", !.lock = None, !.returned = @ \cup {a}]

\* resolve_in: the directory is made, then the lock is awaited.
Begin(p) == s.pc[p] = "idle" /\ s' = AnchorTo(p, "lock")
AnchorLock(p) == s.pc[p] = "lock" /\ s.lock = None /\ s' = [AnchorTo(p, "read") EXCEPT !.lock = p]

\* read_record: an existing record wins over any collection.
ReadRecord(p) ==
  /\ s.pc[p] = "read"
  /\ IF s.file # None THEN Return(p, s, s.file) ELSE s' = AnchorTo(p, "collect")

\* collect_from: a unicast address derives the anchor, anything else draws a
\* random one.
Collect(p) ==
  /\ s.pc[p] = "collect"
  /\ s' = IF s.mac = "unicast" THEN [AnchorTo(p, "persist") EXCEPT !.got[p] = 0]
          ELSE [AnchorTo(p, "persist") EXCEPT !.got[p] = s.fresh, !.fresh = @ + 1]

\* persist_noclobber of a synced temporary file, then the directory sync.
AnchorPersist(p) ==
  /\ s.pc[p] = "persist"
  /\ s' = IF s.file # None THEN [AnchorTo(p, "idle") EXCEPT !.lock = None]
          ELSE [AnchorTo(p, "sync") EXCEPT !.file = s.got[p]]

AnchorSyncDirectory(p) ==
  /\ s.pc[p] = "sync"
  /\ Return(p, [s EXCEPT !.disk = s.file], s.got[p])

\* The address may have changed when the machine comes back.
AnchorCrash ==
  /\ s.crashes < MaxCrashes
  /\ \E f \in {s.file, s.disk}, mac \in Macs :
       s' = [s EXCEPT !.crashes = @ + 1, !.file = f, !.disk = f, !.lock = None, !.mac = mac,
               !.pc = [p \in Procs |-> "idle"], !.got = [p \in Procs |-> None]]

Resolve(p) == Begin(p) \/ AnchorLock(p) \/ ReadRecord(p) \/ Collect(p) \/ AnchorPersist(p) \/ AnchorSyncDirectory(p)
AnchorNext == AnchorCrash \/ \E p \in Procs : Resolve(p)

AnchorSpec == AnchorInit /\ [][AnchorNext]_s

\* Whoever asks, and whenever, gets the same anchor.
OneAnchor == \A a, b \in s.returned : a = b

-----------------------------------------------------------------------------
(***************************************************************************)
(* Installation of a GUI update (gpservice request_dispatcher.rs): requests *)
(* wait for install_lock, the archive is copied, the copy is verified and   *)
(* unpacked, and the binary is renamed over the target.  The file a request *)
(* names belongs to the user and may change at any time; the service may    *)
(* crash between any two steps.                                             *)
(***************************************************************************)
\* staged: the service's copy.  target and disk: the binary as seen and as
\* durable; accepted: requests answered with Accepted, in order of completion.
GuiInit ==
  \E src \in Archives, tool \in BOOLEAN :
    s = [src |-> src, lock |-> None, pc |-> [r \in Requests |-> "idle"], staged |-> None,
         target |-> "old", disk |-> "old", last |-> "old", installer |-> tool,
         changes |-> 0, crashes |-> 0]

UserChanges == s.changes < MaxChanges /\ \E a \in Archives : s' = [s EXCEPT !.src = a, !.changes = @ + 1]

GuiTo(r, pc) == [s EXCEPT !.pc[r] = pc]
Answer(r, result) == s' = [s EXCEPT !.pc[r] = result, !.lock = None, !.staged = None]

\* update_gui: install_lock is held until the blocking task is done.
UpdateGui(r) == s.pc[r] = "idle" /\ s.lock = None /\ s' = [GuiTo(r, "stage") EXCEPT !.lock = r]

\* stage_gui_archive: the copy has the size the file had when it was opened; a
\* file that changes its size meanwhile is refused.
StageArchive(r) ==
  /\ s.pc[r] = "stage"
  /\ \/ s' = [GuiTo(r, "verify") EXCEPT !.staged = s.src]
     \/ Answer(r, "InstallFailed")

\* verify_checksum reads the copy.
VerifyChecksum(r) ==
  /\ s.pc[r] = "verify"
  /\ IF s.staged = r THEN s' = GuiTo(r, IF s.installer THEN "installer" ELSE "extract")
     ELSE Answer(r, "ChecksumFailed")

\* A packaged installer does the rest itself; it gets the verified copy.
RunInstaller(r) ==
  /\ s.pc[r] = "installer"
  /\ \/ s' = [s EXCEPT !.pc[r] = "Accepted", !.lock = None, !.staged = None,
                !.target = s.staged, !.disk = s.staged, !.last = s.staged]
     \/ Answer(r, "InstallFailed")

\* extract_gui_binary, permissions and sync of the extracted file.
Extract(r) ==
  /\ s.pc[r] = "extract"
  /\ IF s.staged \in Bad THEN Answer(r, "InstallFailed") ELSE s' = GuiTo(r, "persist")
GuiPersist(r) == s.pc[r] = "persist" /\ s' = [GuiTo(r, "sync") EXCEPT !.target = s.staged]
GuiSyncDirectory(r) ==
  /\ s.pc[r] = "sync"
  /\ s' = [s EXCEPT !.pc[r] = "Accepted", !.lock = None, !.staged = None,
             !.disk = s.target, !.last = s.target]

\* Requests in progress are lost with the service.
GuiCrash ==
  /\ s.crashes < MaxCrashes
  /\ \E b \in {s.target, s.disk} :
       s' = [s EXCEPT !.crashes = @ + 1, !.target = b, !.disk = b, !.lock = None, !.staged = None,
               !.pc = [r \in Requests |-> IF @[r] \in {"Accepted", "InstallFailed", "ChecksumFailed"} THEN @[r] ELSE "lost"]]

GuiInstallStep(r) ==
  \/ UpdateGui(r) \/ StageArchive(r) \/ VerifyChecksum(r) \/ RunInstaller(r)
  \/ Extract(r) \/ GuiPersist(r) \/ GuiSyncDirectory(r)
Answered == \A r \in Requests : s.pc[r] \in {"Accepted", "InstallFailed", "ChecksumFailed", "lost"}
GuiStutter == Answered /\ UNCHANGED s
GuiNext == UserChanges \/ GuiCrash \/ (\E r \in Requests : GuiInstallStep(r)) \/ GuiStutter

GuiSpec == GuiInit /\ [][GuiNext]_s

\* What can be started is the old binary or one whose archive had the checksum
\* of a request that was not refused, whatever the user's file held meanwhile;
\* and an accepted update is in place until the next one replaces it.
InstalledIsVerified ==
  /\ s.target \in {"old"} \cup {r \in Requests \ Bad : s.pc[r] \in {"sync", "Accepted", "lost"}}
                  \cup {r \in Requests : s.installer /\ s.pc[r] = "Accepted"}
  /\ (s.lock = None /\ s.crashes = 0) => s.target = s.last
  /\ s.disk # s.target => s.lock # None /\ s.pc[s.lock] = "sync"

-----------------------------------------------------------------------------
(***************************************************************************)
(* The user-installed VPNC script and its metadata (gpservice               *)
(* vpnc_script.rs): two files that are replaced by two renames, removed one *)
(* after the other, and read by another process in between.                 *)
(***************************************************************************)
Files == [script : Installers \cup {None}, meta : Installers \cup {None}]

\* cur and disk: the two files as seen and as durable, named by who wrote them.
\* split: a crash or a second writer came between the two renames of someone.
ScriptInit ==
  s = [cur |-> [script |-> None, meta |-> None], disk |-> [script |-> None, meta |-> None],
       pc |-> [i \in Installers |-> "idle"], rm |-> "idle", seen |-> None, reading |-> FALSE,
       report |-> None, split |-> FALSE, crashes |-> 0]

ScriptTo(i, pc) == [s EXCEPT !.pc[i] = pc]
Writing == {i \in Installers : s.pc[i] \in {"meta", "sync"}}
Busy == Writing # {} \/ s.rm \in {"syncScript", "meta", "syncMeta"}

\* install_at: both files are staged and synced before either is renamed.
Stage(i) == s.pc[i] = "idle" /\ s' = ScriptTo(i, "script")
PersistScript(i) ==
  /\ s.pc[i] = "script"
  /\ s' = [ScriptTo(i, "meta") EXCEPT !.cur.script = i, !.split = @ \/ Busy]
PersistMetadata(i) ==
  s.pc[i] = "meta" /\ s' = [ScriptTo(i, "sync") EXCEPT !.cur.meta = i]
SyncInstalled(i) ==
  s.pc[i] = "sync" /\ s' = [ScriptTo(i, "done") EXCEPT !.disk = s.cur]

\* remove: the script first, so that metadata is never reported without one.
RemoveScript ==
  /\ s.rm = "idle"
  /\ s' = IF s.cur.script = None THEN [s EXCEPT !.rm = "meta"]
          ELSE [s EXCEPT !.rm = "syncScript", !.cur.script = None, !.split = @ \/ Busy]
SyncRemoval == s.rm = "syncScript" /\ s' = [s EXCEPT !.rm = "meta", !.disk = s.cur]
RemoveMetadata ==
  /\ s.rm = "meta"
  /\ s' = IF s.cur.meta = None THEN [s EXCEPT !.rm = "done"]
          ELSE [s EXCEPT !.rm = "syncMeta", !.cur.meta = None, !.split = @ \/ Writing # {}]
SyncMetadata == s.rm = "syncMeta" /\ s' = [s EXCEPT !.rm = "done", !.disk = s.cur]

\* metadata: the script is looked at, then the metadata is read.
ReadScript ==
  /\ ~s.reading
  /\ s' = IF s.cur.script = None THEN [s EXCEPT !.report = None, !.seen = None]
          ELSE [s EXCEPT !.reading = TRUE, !.seen = s.cur.script]
ReadMetadata == s.reading /\ s' = [s EXCEPT !.reading = FALSE, !.report = s.cur.meta]

\* Each unsynced rename or removal is lost or kept on its own.
ScriptCrash ==
  /\ s.crashes < MaxCrashes
  /\ \E a \in {s.cur.script, s.disk.script}, b \in {s.cur.meta, s.disk.meta} :
       LET now == [script |-> a, meta |-> b]
       IN s' = [s EXCEPT !.crashes = @ + 1, !.cur = now, !.disk = now, !.split = @ \/ Busy,
                  !.reading = FALSE, !.report = None, !.seen = None,
                  !.pc = [i \in Installers |-> IF @[i] = "done" THEN "done" ELSE "idle"], !.rm = "idle"]

ScriptInstall(i) == Stage(i) \/ PersistScript(i) \/ PersistMetadata(i) \/ SyncInstalled(i)
Remove == RemoveScript \/ SyncRemoval \/ RemoveMetadata \/ SyncMetadata
ScriptNext == ReadScript \/ ReadMetadata \/ ScriptCrash \/ Remove \/ \E i \in Installers : ScriptInstall(i)

ScriptSpec == ScriptInit /\ [][ScriptNext]_s

\* The metadata describes the installed script once every writer is done,
\* unless two writers overlapped or a crash came between two renames; what an
\* installation that returned wrote is durable.
ScriptDescribed ==
  /\ s.cur \in Files
  /\ (~Busy /\ ~s.split) => s.cur.script \in {s.cur.meta, None}
  /\ ~Busy => s.disk = s.cur

-----------------------------------------------------------------------------
(***************************************************************************)
(* The service lock file (gpapi utils/lock_file.rs): services that start,   *)
(* look for a running instance, bind, write the file, stop and remove it;   *)
(* and a client that finds a service through the file.                      *)
(***************************************************************************)
Pid == CHOOSE f \in [Services -> Pids] : \A a, b \in Services : a # b => f[a] # f[b]
Port == [p \in Services |-> Pid[p] + 10]

\* The content is the fields between colons; raced: a file was written between
\* the look and the removal of a stopping service.
LockInit ==
  s = [file |-> <<>>, pc |-> [p \in Services |-> "off"], found |-> None,
       wrote |-> None, raced |-> FALSE, second |-> FALSE]

LockTo(p, pc) == [s EXCEPT !.pc[p] = pc]
Serving == {p \in Services : s.pc[p] = "serving"}

\* check_health asks the address 127.0.0.1:<the whole content>; an address with
\* more than one port is no URL, so nothing is sent.
HealthUrl(content) == IF Len(content) = 1 THEN content[1] ELSE None
CheckHealth == \E p \in Serving : HealthUrl(s.file) = Port[p]
StartService(p) ==
  /\ s.pc[p] = "off"
  /\ s' = IF CheckHealth THEN LockTo(p, "refused") ELSE [LockTo(p, "bind") EXCEPT !.second = @ \/ \E q \in Serving : s.file = <<Pid[q], Port[q]>>]

\* The server binds a port of its own and writes the file; no health of it is
\* answered before.
LockFileLock(p) ==
  /\ s.pc[p] = "bind"
  /\ s' = [LockTo(p, "serving") EXCEPT !.file = <<Pid[p], Port[p]>>, !.wrote = p,
             !.raced = @ \/ \E q \in Services : s.pc[q] = "remove"]

StopService(p) == s.pc[p] = "serving" /\ s' = LockTo(p, "look")
\* unlock: only a file that parses and names this process is removed.
UnlockLooks(p) ==
  /\ s.pc[p] = "look"
  /\ s' = LockTo(p, IF Len(s.file) = 2 /\ s.file[1] = Pid[p] THEN "remove" ELSE "off")
UnlockRemoves(p) == s.pc[p] = "remove" /\ s' = [LockTo(p, "off") EXCEPT !.file = <<>>]
Killed(p) == s.pc[p] \in {"bind", "serving"} /\ s' = LockTo(p, "off")

\* gpservice_lock_info: what parses as pid:port is believed.
Find == s' = [s EXCEPT !.found = IF Len(s.file) = 2 THEN s.file[2] ELSE None]

LockNext ==
  \/ Find
  \/ \E p \in Services : StartService(p) \/ LockFileLock(p) \/ StopService(p) \/ UnlockLooks(p) \/ UnlockRemoves(p) \/ Killed(p)

LockSpec == LockInit /\ [][LockNext]_s

\* A serving service that wrote the file last can be found through it: another
\* one that stops leaves the file alone.
LockNamesLatest == (s.wrote \in Serving /\ ~s.raced) => s.file = <<Pid[s.wrote], Port[s.wrote]>>

\* "Another instance of the service is already running"
\* (src/apps/gpservice/src/cli.rs:91): LockFile::check_health keeps a service
\* from starting while another one is serving and named in the lock file.
SecondIsRefused == ~s.second
=============================================================================
