------------------------- MODULE ServiceStoresProofs ------------------------
(***************************************************************************)
(* The service's stores, for every number of processes, requests, crashes  *)
(* and services: what each of them promises of its files holds between any *)
(* two steps on the file system.                                           *)
(***************************************************************************)
EXTENDS ServiceStores, TLAPS
-----------------------------------------------------------------------------
(* The device anchor *)

\* A file that is not there is told apart from every anchor, a free lock from
\* every holder.
AnchorAssumption == None \notin Nat \cup Procs

AnchorType ==
  s \in [mac : Macs, file : Nat \cup {None}, disk : Nat \cup {None}, lock : Procs \cup {None}, fresh : Nat,
         pc : [Procs -> {"idle", "lock", "read", "collect", "persist", "sync"}],
         got : [Procs -> Nat \cup {None}], returned : SUBSET Nat, crashes : Nat]

\* The lock is held from the look at the record to the return.  A record that
\* may still be lost belongs to the process that is about to sync it, and
\* nothing was returned before it; what was returned is on the disk.
AnchorInv ==
  /\ AnchorType
  /\ \A p \in Procs : s.pc[p] \in {"read", "collect", "persist", "sync"} => s.lock = p
  /\ \A p \in Procs : s.pc[p] \in {"persist", "sync"} => s.got[p] # None
  /\ \A p \in Procs : s.pc[p] = "sync" => s.file = s.got[p]
  /\ s.disk # s.file => s.disk = None /\ \E p \in Procs : s.pc[p] = "sync"
  /\ \A a \in s.returned : a = s.disk

LEMMA AnchorStarts == AnchorAssumption /\ AnchorInit => AnchorInv
  BY DEF AnchorAssumption, AnchorInit, AnchorInv, AnchorType, Macs

LEMMA AnchorStep == AnchorAssumption /\ AnchorInv /\ [AnchorNext]_s => AnchorInv'
<1> SUFFICES ASSUME AnchorAssumption, AnchorInv, [AnchorNext]_s PROVE AnchorInv'
  OBVIOUS
<1> USE DEF AnchorInv, AnchorType, Macs
<1>1. None \notin Nat /\ None \notin Procs /\ s.crashes + 1 \in Nat /\ s.fresh + 1 \in Nat
  BY DEF AnchorAssumption
<1>2. CASE AnchorCrash
  <2>1. PICK f \in {s.file, s.disk}, mac \in Macs :
          s' = [s EXCEPT !.crashes = @ + 1, !.file = f, !.disk = f, !.lock = None, !.mac = mac,
                  !.pc = [p \in Procs |-> "idle"], !.got = [p \in Procs |-> None]]
    BY <1>2 DEF AnchorCrash
  <2>2. \A a \in s.returned : a = f
    BY <1>1, <2>1
  <2>3. AnchorType'
    BY <1>1, <2>1, Zenon
  <2>4. /\ s'.pc = [p \in Procs |-> "idle"] /\ s'.file = f /\ s'.disk = f
        /\ s'.returned = s.returned
    BY <2>1
  <2> QED BY <2>2, <2>3, <2>4
<1>3. ASSUME NEW p \in Procs, Begin(p) PROVE AnchorInv'
  BY <1>1, <1>3 DEF Begin, AnchorTo
<1>4. ASSUME NEW p \in Procs, AnchorLock(p) PROVE AnchorInv'
  BY <1>1, <1>4 DEF AnchorLock, AnchorTo
<1>5. ASSUME NEW p \in Procs, ReadRecord(p) PROVE AnchorInv'
  <2>1. CASE s.file # None
    <3>1. s' = [s EXCEPT !.pc[p] = "idle", !.lock = None, !.returned = @ \cup {s.file}]
      BY <1>5, <2>1 DEF ReadRecord, Return
    <3>2. s.disk = s.file /\ s.lock = p /\ \A q \in Procs : q # p => s.pc[q] \in {"idle", "lock"}
      BY <1>1, <1>5 DEF ReadRecord
    <3>3. AnchorType'
      BY <2>1, <3>1
    <3>4. /\ s'.pc = [s.pc EXCEPT ![p] = "idle"] /\ s'.returned = s.returned \cup {s.file}
          /\ s'.file = s.file /\ s'.disk = s.disk
      BY <3>1
    <3> QED BY <3>2, <3>3, <3>4
  <2>2. CASE s.file = None
    BY <1>1, <1>5, <2>2 DEF ReadRecord, AnchorTo
  <2> QED BY <2>1, <2>2
<1>6. ASSUME NEW p \in Procs, Collect(p) PROVE AnchorInv'
  <2>1. PICK a \in Nat : /\ s'.pc = [s.pc EXCEPT ![p] = "persist"] /\ s'.got = [s.got EXCEPT ![p] = a]
                         /\ s'.file = s.file /\ s'.disk = s.disk /\ s'.lock = s.lock
                         /\ s'.returned = s.returned
    BY <1>6 DEF Collect, AnchorTo
  <2>2. AnchorType'
    BY <1>1, <1>6, <2>1, 0 \in Nat, Zenon DEF Collect, AnchorTo
  <2> QED BY <1>1, <1>6, <2>1, <2>2 DEF Collect
<1>7. ASSUME NEW p \in Procs, AnchorPersist(p) PROVE AnchorInv'
  <2>1. s.got[p] \in Nat /\ s.lock = p /\ s.disk = s.file /\ s.pc[p] = "persist"
    BY <1>1, <1>7 DEF AnchorPersist
  <2>2. AnchorType'
    BY <1>7, <2>1 DEF AnchorPersist, AnchorTo
  <2> QED BY <1>1, <1>7, <2>1, <2>2 DEF AnchorPersist, AnchorTo
<1>8. ASSUME NEW p \in Procs, AnchorSyncDirectory(p) PROVE AnchorInv'
  <2>1. s' = [s EXCEPT !.disk = s.file, !.pc[p] = "idle", !.lock = None, !.returned = @ \cup {s.got[p]}]
    BY <1>8 DEF AnchorSyncDirectory, Return
  <2>2. /\ s.file = s.got[p] /\ s.got[p] \in Nat /\ s.lock = p
        /\ \A q \in Procs : q # p => s.pc[q] \in {"idle", "lock"}
    BY <1>1, <1>8 DEF AnchorSyncDirectory
  <2>3. AnchorType'
    BY <2>1, <2>2
  <2>4. /\ s'.pc = [s.pc EXCEPT ![p] = "idle"] /\ s'.returned = s.returned \cup {s.got[p]}
        /\ s'.file = s.file /\ s'.disk = s.file
    BY <2>1
  <2>5. \A a \in s.returned : a = s.file
    BY <1>1
  <2> QED BY <2>2, <2>3, <2>4, <2>5
<1>9. CASE UNCHANGED s
  BY <1>9
<1> QED BY <1>2, <1>3, <1>4, <1>5, <1>6, <1>7, <1>8, <1>9 DEF AnchorNext, Resolve

\* device_anchor.rs hands out one anchor, to however many processes and
\* through any number of crashes.
THEOREM AnchorIsUnique == AnchorAssumption /\ AnchorSpec => []OneAnchor
<1>1. AnchorAssumption => AnchorAssumption'
  OBVIOUS
<1>2. AnchorInv => OneAnchor
  BY DEF AnchorInv, OneAnchor
<1> QED BY <1>1, <1>2, AnchorStarts, AnchorStep, PTL DEF AnchorSpec
-----------------------------------------------------------------------------
(* The updated GUI *)

\* A free lock is told apart from every holder.
GuiAssumption == None \notin Requests

GuiPc == {"idle", "stage", "verify", "installer", "extract", "persist", "sync",
          "Accepted", "InstallFailed", "ChecksumFailed", "lost"}
GuiType ==
  s \in [src : Archives, lock : Requests \cup {None}, pc : [Requests -> GuiPc],
         staged : Archives \cup {None}, target : Archives \cup {"old"}, disk : Archives \cup {"old"},
         last : Archives \cup {"old"}, installer : BOOLEAN, changes : Nat, crashes : Nat]

\* The binaries that may be in place
Installed ==
  {"old"} \cup {r \in Requests \ Bad : s.pc[r] \in {"sync", "Accepted", "lost"}}
          \cup {r \in Requests : s.installer /\ s.pc[r] = "Accepted"}

\* One request at a time is past install_lock; from the verification to the
\* rename its copy is the archive whose checksum it has.
GuiInv ==
  /\ GuiType
  /\ \A r \in Requests : s.pc[r] \in {"stage", "verify", "installer", "extract", "persist", "sync"} => s.lock = r
  /\ \A r \in Requests : s.pc[r] \in {"installer", "extract", "persist", "sync"} => s.staged = r
  /\ \A r \in Requests : s.pc[r] = "installer" => s.installer
  /\ \A r \in Requests : s.pc[r] \in {"persist", "sync"} => r \notin Bad
  /\ \A r \in Requests : s.pc[r] = "sync" => s.target = r
  /\ s.target \in Installed /\ s.disk \in Installed
  /\ s.disk # s.target => \E r \in Requests : s.pc[r] = "sync"
  /\ s.crashes = 0 /\ s.last # s.target => \E r \in Requests : s.pc[r] = "sync"

LEMMA GuiStarts == GuiAssumption /\ GuiInit => GuiInv
<1> SUFFICES ASSUME GuiAssumption, GuiInit PROVE GuiInv
  OBVIOUS
<1>1. 0 \in Nat
  OBVIOUS
<1>4. PICK src \in Archives, tool \in BOOLEAN :
        s = [src |-> src, lock |-> None, pc |-> [r \in Requests |-> "idle"], staged |-> None,
             target |-> "old", disk |-> "old", last |-> "old", installer |-> tool,
             changes |-> 0, crashes |-> 0]
  BY Zenon DEF GuiInit
<1>2. GuiType
  BY <1>1, <1>4, Zenon DEF GuiType, GuiPc
<1>3. /\ s.pc = [r \in Requests |-> "idle"] /\ s.target = "old" /\ s.disk = "old" /\ s.last = "old"
  BY <1>4, Zenon
<1> QED BY <1>2, <1>3 DEF GuiInv, Installed

GuiHeld == {"stage", "verify", "installer", "extract", "persist", "sync"}

\* A request past install_lock is alone there
LEMMA GuiAlone ==
  ASSUME GuiInv, NEW r \in Requests, s.pc[r] \in GuiHeld
  PROVE  s.lock = r /\ \A q \in Requests : q # r => s.pc[q] \notin GuiHeld
  BY DEF GuiInv, GuiHeld

\* A step of one request that touches no binary
LEMMA GuiMoves ==
  ASSUME GuiInv, GuiType', NEW r \in Requests, NEW v \in GuiPc,
         s.pc[r] \in {"idle", "stage", "verify", "installer", "extract"}, v # "sync",
         s'.pc = [s.pc EXCEPT ![r] = v], \A q \in Requests : q # r => s.pc[q] \notin GuiHeld,
         v \in GuiHeld => s'.lock = r, v \in {"installer", "extract", "persist"} => s'.staged = r,
         v = "installer" => s.installer, v = "persist" => r \notin Bad,
         s'.target = s.target, s'.disk = s.disk, s'.last = s.last,
         s'.installer = s.installer, s'.crashes = s.crashes
  PROVE  GuiInv'
<1>1. s.pc \in [Requests -> GuiPc]
  BY Zenon DEF GuiInv, GuiType
<1>2. s'.pc[r] = v /\ \A q \in Requests : q # r => s'.pc[q] = s.pc[q]
  BY <1>1
<1>3. Installed \subseteq Installed'
  BY <1>2 DEF Installed
<1>4. \A q \in Requests : s.pc[q] # "sync"
  BY DEF GuiHeld
<1>5. s.disk = s.target /\ (s.crashes = 0 => s.last = s.target) /\ s.target \in Installed
  BY <1>4, Zenon DEF GuiInv
<1>6. \A q \in Requests : s'.pc[q] \in GuiHeld => q = r /\ v \in GuiHeld \ {"sync"}
  BY <1>2
<1>7. \A q \in Requests : s'.pc[q] \in GuiHeld => q = r /\ s'.pc[q] = v
  BY <1>2, <1>6
<1> QED BY <1>3, <1>5, <1>6, <1>7, Zenon DEF GuiInv, GuiHeld

LEMMA GuiStep == GuiAssumption /\ GuiInv /\ [GuiNext]_s => GuiInv'
<1> SUFFICES ASSUME GuiAssumption, GuiInv, [GuiNext]_s PROVE GuiInv'
  OBVIOUS
<1> USE DEF GuiPc
<1>1. None \notin Requests /\ s.crashes + 1 \in Nat /\ s.changes + 1 \in Nat
  BY DEF GuiAssumption, GuiInv, GuiType
<1>2. GuiType
  BY DEF GuiInv
<1>3. CASE UserChanges
  <2>1. GuiType'
    BY <1>1, <1>2, <1>3, Zenon DEF UserChanges, GuiType
  <2>2. /\ s'.pc = s.pc /\ s'.lock = s.lock /\ s'.staged = s.staged /\ s'.target = s.target
        /\ s'.disk = s.disk /\ s'.last = s.last /\ s'.installer = s.installer /\ s'.crashes = s.crashes
    BY <1>2, <1>3, Zenon DEF UserChanges, GuiType
  <2>3. Installed' = Installed
    BY <2>2 DEF Installed
  <2> QED BY <2>1, <2>2, <2>3 DEF GuiInv
<1>4. ASSUME NEW r \in Requests, UpdateGui(r) PROVE GuiInv'
  <2>1. GuiType'
    BY <1>2, <1>4, Zenon DEF UpdateGui, GuiTo, GuiType
  <2>2. /\ s'.pc = [s.pc EXCEPT ![r] = "stage"] /\ s'.lock = r
        /\ s'.target = s.target /\ s'.disk = s.disk /\ s'.last = s.last
        /\ s'.installer = s.installer /\ s'.crashes = s.crashes
    BY <1>2, <1>4, Zenon DEF UpdateGui, GuiTo, GuiType
  <2>3. \A q \in Requests : s.pc[q] \notin GuiHeld
    BY <1>1, <1>4 DEF UpdateGui, GuiInv, GuiHeld
  <2> QED BY <1>4, <2>1, <2>2, <2>3, GuiMoves DEF UpdateGui
<1>5. ASSUME NEW r \in Requests, NEW v \in {"InstallFailed", "ChecksumFailed"},
             s.pc[r] \in {"stage", "verify", "installer", "extract"}, Answer(r, v)
      PROVE  GuiInv'
  <2>0. v \in GuiPc
    BY <1>5
  <2>1. GuiType'
    BY <1>2, <1>5, <2>0, Zenon DEF Answer, GuiType
  <2>2. /\ s'.pc = [s.pc EXCEPT ![r] = v] /\ s'.target = s.target /\ s'.disk = s.disk
        /\ s'.last = s.last /\ s'.installer = s.installer /\ s'.crashes = s.crashes
    BY <1>2, <1>5, Zenon DEF Answer, GuiType
  <2>3. \A q \in Requests : q # r => s.pc[q] \notin GuiHeld
    BY <1>5, GuiAlone DEF GuiHeld
  <2> QED BY <1>5, <2>1, <2>2, <2>3, GuiMoves DEF GuiHeld
<1>6. ASSUME NEW r \in Requests, StageArchive(r) PROVE GuiInv'
  <2>1. CASE s' = [GuiTo(r, "verify") EXCEPT !.staged = s.src]
    <3>1. GuiType'
      BY <1>2, <1>6, <2>1, Zenon DEF GuiTo, GuiType
    <3>2. /\ s'.pc = [s.pc EXCEPT ![r] = "verify"] /\ s'.target = s.target /\ s'.disk = s.disk
          /\ s'.last = s.last /\ s'.installer = s.installer /\ s'.crashes = s.crashes
          /\ s'.lock = s.lock
      BY <1>2, <1>6, <2>1, Zenon DEF GuiTo, GuiType
    <3>3. s.pc[r] = "stage" /\ s.lock = r /\ \A q \in Requests : q # r => s.pc[q] \notin GuiHeld
      BY <1>6, GuiAlone DEF GuiHeld, StageArchive
    <3> QED BY <3>1, <3>2, <3>3, GuiMoves
  <2> QED BY <1>5, <1>6, <2>1 DEF StageArchive
<1>7. ASSUME NEW r \in Requests, VerifyChecksum(r) PROVE GuiInv'
  <2>1. CASE s.staged = r
    <3> DEFINE v == IF s.installer THEN "installer" ELSE "extract"
    <3>0. /\ s' = GuiTo(r, v) /\ s.pc[r] = "verify" /\ v \in {"installer", "extract"}
          /\ (v = "installer" => s.installer)
      BY <1>7, <2>1, Zenon DEF VerifyChecksum
    <3> HIDE DEF v
    <3>1. v \in GuiPc
      BY <3>0
    <3>2. GuiType'
      BY <1>2, <3>0, <3>1, Zenon DEF GuiTo, GuiType
    <3>3. /\ s'.pc = [s.pc EXCEPT ![r] = v] /\ s'.target = s.target /\ s'.disk = s.disk
          /\ s'.last = s.last /\ s'.installer = s.installer /\ s'.crashes = s.crashes
          /\ s'.lock = s.lock /\ s'.staged = s.staged
      BY <1>2, <3>0, Zenon DEF GuiTo, GuiType
    <3>4. s.lock = r /\ \A q \in Requests : q # r => s.pc[q] \notin GuiHeld
      BY <3>0, GuiAlone DEF GuiHeld
    <3>5. v # "sync" /\ v # "persist" /\ s.pc[r] \in {"idle", "stage", "verify", "installer", "extract"}
      BY <3>0
    <3>6. /\ v \in GuiHeld => s'.lock = r
          /\ v \in {"installer", "extract", "persist"} => s'.staged = r
          /\ v = "persist" => r \notin Bad
      BY <2>1, <3>3, <3>4, <3>5
    <3> QED BY <1>7, <3>0, <3>1, <3>2, <3>3, <3>4, <3>5, <3>6, GuiMoves, Zenon
  <2> QED BY <1>5, <1>7, <2>1 DEF VerifyChecksum
<1>8. ASSUME NEW r \in Requests, Extract(r) PROVE GuiInv'
  <2>1. CASE s.staged \notin Bad
    <3>0. s' = GuiTo(r, "persist") /\ s.pc[r] = "extract" /\ s.staged = r
      BY <1>8, <2>1 DEF Extract, GuiInv
    <3>1. GuiType'
      BY <1>2, <3>0, Zenon DEF GuiTo, GuiType
    <3>2. /\ s'.pc = [s.pc EXCEPT ![r] = "persist"] /\ s'.target = s.target /\ s'.disk = s.disk
          /\ s'.last = s.last /\ s'.installer = s.installer /\ s'.crashes = s.crashes
          /\ s'.lock = s.lock /\ s'.staged = s.staged
      BY <1>2, <3>0, Zenon DEF GuiTo, GuiType
    <3>3. s.lock = r /\ \A q \in Requests : q # r => s.pc[q] \notin GuiHeld
      BY <3>0, GuiAlone DEF GuiHeld
    <3>4. "persist" \in GuiPc /\ s.pc[r] \in {"idle", "stage", "verify", "installer", "extract"}
      BY <3>0
    <3>5. r \notin Bad /\ s'.staged = r /\ s'.lock = r /\ "persist" # "sync" /\ "persist" # "installer"
      BY <2>1, <3>0, <3>2, <3>3
    <3> QED BY <3>1, <3>2, <3>3, <3>4, <3>5, GuiMoves, Zenon
  <2> QED BY <1>5, <1>8, <2>1 DEF Extract
<1>9. ASSUME NEW r \in Requests, GuiPersist(r) PROVE GuiInv'
  <2>0. /\ s' = [GuiTo(r, "sync") EXCEPT !.target = s.staged] /\ s.pc[r] = "persist" /\ s.staged = r
        /\ r \notin Bad /\ s.staged \in Archives
    <3>1. s.staged = r /\ r \notin Bad
      BY <1>9 DEF GuiPersist, GuiInv
    <3>2. s.staged \in Archives \cup {None}
      BY <1>2, Zenon DEF GuiType
    <3> QED BY <1>1, <1>9, <3>1, <3>2 DEF GuiPersist
  <2>1. GuiType'
    BY <1>2, <2>0, Zenon DEF GuiTo, GuiType
  <2>2. /\ s'.pc = [s.pc EXCEPT ![r] = "sync"] /\ s'.target = r /\ s'.disk = s.disk
        /\ s'.installer = s.installer /\ s'.lock = s.lock /\ s'.staged = s.staged
    BY <1>2, <2>0, Zenon DEF GuiTo, GuiType
  <2>3. s.lock = r /\ \A q \in Requests : q # r => s.pc[q] \notin GuiHeld
    BY <2>0, GuiAlone DEF GuiHeld
  <2>4. s.pc \in [Requests -> GuiPc] /\ s.disk \in Installed
    BY <1>2, Zenon DEF GuiType, GuiInv
  <2>5. s'.pc[r] = "sync" /\ \A q \in Requests : q # r => s'.pc[q] = s.pc[q]
    BY <2>2, <2>4
  <2>6. s'.target \in Installed' /\ s'.disk \in Installed'
    BY <2>0, <2>2, <2>4, <2>5 DEF Installed
  <2>7. \A q \in Requests : s'.pc[q] \in GuiHeld => q = r
    BY <2>3, <2>5
  <2> QED BY <2>0, <2>1, <2>2, <2>3, <2>5, <2>6, <2>7 DEF GuiInv, GuiHeld
<1>10. ASSUME NEW r \in Requests, NEW b, b \in Installed', s'.target = b, s'.disk = b, s'.last = b,
              GuiType', s'.pc = [s.pc EXCEPT ![r] = "Accepted"], s.pc[r] \in GuiHeld
       PROVE  GuiInv'
  <2>1. \A q \in Requests : s'.pc[q] \notin GuiHeld
    <3>1. s.pc \in [Requests -> GuiPc]
      BY <1>2, Zenon DEF GuiType
    <3> QED BY <1>10, <3>1, GuiAlone DEF GuiHeld
  <2> QED BY <1>10, <2>1 DEF GuiInv, GuiHeld
<1>11. ASSUME NEW r \in Requests, GuiSyncDirectory(r) PROVE GuiInv'
  <2>0. /\ s' = [s EXCEPT !.pc[r] = "Accepted", !.lock = None, !.staged = None,
                          !.disk = s.target, !.last = s.target]
        /\ s.pc[r] = "sync" /\ s.target = r /\ r \notin Bad
    BY <1>11 DEF GuiSyncDirectory, GuiInv
  <2>1. GuiType'
    BY <1>2, <2>0, Zenon DEF GuiType
  <2>2. /\ s'.pc = [s.pc EXCEPT ![r] = "Accepted"] /\ s'.target = r /\ s'.disk = r /\ s'.last = r
    BY <1>2, <2>0, Zenon DEF GuiType
  <2>3. r \in Installed'
    <3>1. s'.pc[r] = "Accepted"
      BY <1>2, <2>2, Zenon DEF GuiType
    <3> QED BY <2>0, <3>1 DEF Installed
  <2> QED BY <1>10, <2>0, <2>1, <2>2, <2>3 DEF GuiHeld
<1>12. ASSUME NEW r \in Requests, RunInstaller(r) PROVE GuiInv'
  <2>1. CASE s' = [s EXCEPT !.pc[r] = "Accepted", !.lock = None, !.staged = None,
                            !.target = s.staged, !.disk = s.staged, !.last = s.staged]
    <3>0. s.pc[r] = "installer" /\ s.staged = r /\ s.installer /\ s.staged \in Archives
      <4>1. s.pc[r] = "installer"
        BY <1>12, Zenon DEF RunInstaller
      <4>2. s.staged = r /\ s.installer
        BY <4>1 DEF GuiInv
      <4>3. s.staged \in Archives \cup {None}
        BY <1>2, Zenon DEF GuiType
      <4> QED BY <1>1, <4>1, <4>2, <4>3
    <3>1. GuiType'
      BY <1>2, <2>1, <3>0, Zenon DEF GuiType
    <3>2. /\ s'.pc = [s.pc EXCEPT ![r] = "Accepted"] /\ s'.target = r /\ s'.disk = r /\ s'.last = r
          /\ s'.installer = s.installer
      BY <1>2, <2>1, <3>0, Zenon DEF GuiType
    <3>3. r \in Installed'
      <4>1. s'.pc[r] = "Accepted"
        BY <1>2, <3>2, Zenon DEF GuiType
      <4> QED BY <3>0, <3>2, <4>1 DEF Installed
    <3> QED BY <1>10, <3>0, <3>1, <3>2, <3>3 DEF GuiHeld
  <2> QED BY <1>5, <1>12, <2>1 DEF RunInstaller
<1>13. CASE GuiCrash
  <2> DEFINE Ended == {"Accepted", "InstallFailed", "ChecksumFailed"}
             pc == [r \in Requests |-> IF s.pc[r] \in Ended THEN s.pc[r] ELSE "lost"]
  <2>1. PICK b \in {s.target, s.disk} :
          s' = [s EXCEPT !.crashes = @ + 1, !.target = b, !.disk = b, !.lock = None, !.staged = None,
                         !.pc = pc]
    BY <1>2, <1>13, Zenon DEF GuiCrash, GuiType
  <2>2. pc \in [Requests -> GuiPc]
    BY <1>2, Zenon DEF GuiType
  <2>3. /\ \A r \in Requests : pc[r] \notin GuiHeld
        /\ \A r \in Requests : s.pc[r] \in {"sync", "Accepted", "lost"} => pc[r] \in {"Accepted", "lost"}
        /\ \A r \in Requests : s.pc[r] = "Accepted" => pc[r] = "Accepted"
    BY DEF GuiHeld
  <2> HIDE DEF pc
  <2>4. b \in Archives \cup {"old"} /\ b \in Installed
    BY <1>2, Zenon DEF GuiType, GuiInv
  <2>5. GuiType'
    BY <1>1, <1>2, <2>1, <2>2, <2>4, Zenon DEF GuiType
  <2>6. /\ s'.pc = pc /\ s'.target = b /\ s'.disk = b /\ s'.installer = s.installer
        /\ s'.crashes = s.crashes + 1 /\ s.crashes \in Nat
    BY <1>2, <2>1, Zenon DEF GuiType
  <2>7. b \in Installed'
    BY <2>3, <2>4, <2>6 DEF Installed
  <2>8. s'.crashes # 0
    BY <2>6
  <2> QED BY <2>3, <2>5, <2>6, <2>7, <2>8 DEF GuiInv, GuiHeld
<1>14. CASE UNCHANGED s
  BY <1>14 DEF GuiInv, GuiType, Installed
<1> QED BY <1>3, <1>4, <1>6, <1>7, <1>8, <1>9, <1>11, <1>12, <1>13, <1>14, Zenon
        DEF GuiNext, GuiInstallStep, GuiStutter

\* request_dispatcher.rs installs only what it verified, for any number of
\* concurrent requests, changes of the user's file and crashes.
THEOREM GuiIsVerified == GuiAssumption /\ GuiSpec => []InstalledIsVerified
<1>1. GuiAssumption => GuiAssumption'
  OBVIOUS
<1>2. GuiAssumption /\ GuiInv => InstalledIsVerified
  <2> SUFFICES ASSUME GuiAssumption, GuiInv PROVE InstalledIsVerified
    OBVIOUS
  <2>1. s.disk # s.target => s.lock # None /\ s.pc[s.lock] = "sync"
    BY DEF GuiAssumption, GuiInv
  <2>2. s.lock = None /\ s.crashes = 0 => s.target = s.last
    BY DEF GuiAssumption, GuiInv
  <2> QED BY <2>1, <2>2, Zenon DEF GuiInv, Installed, InstalledIsVerified
<1> QED BY <1>1, <1>2, GuiStarts, GuiStep, PTL DEF GuiSpec
-----------------------------------------------------------------------------
(* The VPNC script *)

\* A file that is not there is told apart from everybody's.
ScriptAssumption == None \notin Installers

ScriptType ==
  s \in [cur : Files, disk : Files, pc : [Installers -> {"idle", "script", "meta", "sync", "done"}],
         rm : {"idle", "syncScript", "meta", "syncMeta", "done"}, seen : Installers \cup {None},
         reading : BOOLEAN, report : Installers \cup {None}, split : BOOLEAN, crashes : Nat]
Removing == s.rm \in {"syncScript", "meta", "syncMeta"}

ScriptSynced == s.disk # s.cur => Writing # {} \/ s.rm \in {"syncScript", "syncMeta"}

\* The script is the one the only installer wrote, or is gone while the
\* removal is in progress
ScriptWhole ==
  /\ Removing => Writing = {} /\ s.cur.script = None
  /\ \A i \in Writing : Writing = {i} /\ s.cur.script = i /\ (s.pc[i] = "sync" => s.cur.meta = i)
  /\ ~Busy => s.cur.script \in {s.cur.meta, None}

\* That holds until two writers overlap or a crash comes between two renames
ScriptInv == ScriptType /\ ScriptSynced /\ (~s.split => ScriptWhole)

LEMMA ScriptStarts == ScriptAssumption /\ ScriptInit => ScriptInv
<1> SUFFICES ASSUME ScriptAssumption, ScriptInit PROVE ScriptInv
  OBVIOUS
<1>1. 0 \in Nat /\ [script |-> None, meta |-> None] \in Files
  BY DEF Files
<1>2. ScriptType
  BY <1>1, Zenon DEF ScriptInit, ScriptType
<1>3. /\ s.pc = [i \in Installers |-> "idle"] /\ s.rm = "idle" /\ s.cur = s.disk /\ s.cur.script = None
  BY Zenon DEF ScriptInit
<1>4. Writing = {} /\ ~Busy
  BY <1>3 DEF Writing, Busy
<1> QED BY <1>2, <1>3, <1>4, Zenon DEF ScriptInv, ScriptSynced, ScriptWhole, Removing

LEMMA ScriptStep == ScriptAssumption /\ ScriptInv /\ [ScriptNext]_s => ScriptInv'
<1> SUFFICES ASSUME ScriptAssumption, ScriptInv, [ScriptNext]_s PROVE ScriptInv'
  OBVIOUS
<1> DEFINE Pcs == {"idle", "script", "meta", "sync", "done"}
<1>1. None \notin Installers /\ s.crashes + 1 \in Nat
  BY DEF ScriptAssumption, ScriptInv, ScriptType
<1>2. ScriptType /\ ScriptSynced /\ (~s.split => ScriptWhole)
  BY Zenon DEF ScriptInv
<1>3. s.pc \in [Installers -> Pcs] /\ s.cur \in Files /\ s.disk \in Files
  BY <1>2, Zenon DEF ScriptType
<1>4. ASSUME NEW i \in Installers, Stage(i) PROVE ScriptInv'
  <2>1. ScriptType'
    BY <1>2, <1>4, Zenon DEF Stage, ScriptTo, ScriptType
  <2>2. /\ s'.pc = [s.pc EXCEPT ![i] = "script"] /\ s'.rm = s.rm /\ s'.cur = s.cur /\ s'.disk = s.disk
        /\ s'.split = s.split /\ s.pc[i] = "idle"
    BY <1>2, <1>4, Zenon DEF Stage, ScriptTo, ScriptType
  <2>3. Writing' = Writing
    BY <1>3, <2>2 DEF Writing
  <2>4. ScriptWhole => ScriptWhole'
    BY <1>3, <2>2, <2>3 DEF ScriptWhole, Busy, Removing, Writing
  <2> QED BY <1>2, <2>1, <2>2, <2>3, <2>4, Zenon DEF ScriptInv, ScriptSynced
<1>5. ASSUME NEW i \in Installers, PersistScript(i) PROVE ScriptInv'
  <2>0. [s.cur EXCEPT !.script = i] \in Files
    BY <1>3 DEF Files
  <2>1. ScriptType'
    BY <1>2, <1>5, <2>0, Zenon DEF PersistScript, ScriptTo, ScriptType
  <2>2. /\ s'.pc = [s.pc EXCEPT ![i] = "meta"] /\ s'.rm = s.rm /\ s'.cur = [s.cur EXCEPT !.script = i]
        /\ s.pc[i] = "script" /\ (~s'.split => ~s.split /\ ~Busy)
    BY <1>2, <1>5, Zenon DEF PersistScript, ScriptTo, ScriptType
  <2>3. Writing' = Writing \cup {i}
    BY <1>3, <2>2 DEF Writing
  <2>4. ~Busy => ScriptWhole'
    <3> SUFFICES ASSUME ~Busy PROVE ScriptWhole'
      OBVIOUS
    <3>1. Writing' = {i} /\ s'.cur.script = i /\ s'.pc[i] = "meta" /\ ~Removing'
      BY <1>3, <2>2, <2>3 DEF Busy, Removing, Files
    <3> QED BY <3>1 DEF ScriptWhole, Busy
  <2>5. ScriptSynced'
    BY <2>3 DEF ScriptSynced
  <2> QED BY <2>1, <2>2, <2>4, <2>5, Zenon DEF ScriptInv
<1>6. ASSUME NEW i \in Installers, PersistMetadata(i) PROVE ScriptInv'
  <2>0. [s.cur EXCEPT !.meta = i] \in Files
    BY <1>3 DEF Files
  <2>1. ScriptType'
    BY <1>2, <1>6, <2>0, Zenon DEF PersistMetadata, ScriptTo, ScriptType
  <2>2. /\ s'.pc = [s.pc EXCEPT ![i] = "sync"] /\ s'.rm = s.rm /\ s'.cur = [s.cur EXCEPT !.meta = i]
        /\ s.pc[i] = "meta" /\ s'.split = s.split
    BY <1>2, <1>6, Zenon DEF PersistMetadata, ScriptTo, ScriptType
  <2>3. Writing' = Writing /\ i \in Writing
    BY <1>3, <2>2 DEF Writing
  <2>4. ScriptWhole => ScriptWhole'
    <3>1. s'.cur.meta = i /\ s'.cur.script = s.cur.script
      BY <1>3, <2>2 DEF Files
    <3> QED BY <2>2, <2>3, <3>1 DEF ScriptWhole, Busy, Removing
  <2>5. ScriptSynced'
    BY <2>3 DEF ScriptSynced
  <2> QED BY <1>2, <2>1, <2>2, <2>4, <2>5, Zenon DEF ScriptInv
<1>7. ASSUME NEW i \in Installers, SyncInstalled(i) PROVE ScriptInv'
  <2>1. ScriptType'
    BY <1>2, <1>7, Zenon DEF SyncInstalled, ScriptTo, ScriptType
  <2>2. /\ s'.pc = [s.pc EXCEPT ![i] = "done"] /\ s'.rm = s.rm /\ s'.cur = s.cur /\ s'.disk = s.cur
        /\ s.pc[i] = "sync" /\ s'.split = s.split
    BY <1>2, <1>7, Zenon DEF SyncInstalled, ScriptTo, ScriptType
  <2>3. Writing' = Writing \ {i} /\ i \in Writing
    BY <1>3, <2>2 DEF Writing
  <2>4. ScriptWhole => ScriptWhole'
    BY <2>2, <2>3 DEF ScriptWhole, Busy, Removing
  <2>5. ScriptSynced'
    BY <2>2 DEF ScriptSynced
  <2> QED BY <1>2, <2>1, <2>2, <2>4, <2>5, Zenon DEF ScriptInv
<1>8. CASE RemoveScript
  <2>1. CASE s.cur.script = None
    <3>1. ScriptType'
      BY <1>2, <1>8, <2>1, Zenon DEF RemoveScript, ScriptType
    <3>2. /\ s'.pc = s.pc /\ s'.rm = "meta" /\ s'.cur = s.cur /\ s'.disk = s.disk
          /\ s.rm = "idle" /\ s'.split = s.split
      BY <1>2, <1>8, <2>1, Zenon DEF RemoveScript, ScriptType
    <3>3. Writing' = Writing /\ Writing \subseteq Installers
      BY <3>2 DEF Writing
    <3>4. ScriptWhole => ScriptWhole'
      BY <1>1, <2>1, <3>2, <3>3 DEF ScriptWhole, Busy, Removing
    <3>5. ScriptSynced'
      BY <1>2, <3>2, <3>3 DEF ScriptSynced
    <3> QED BY <1>2, <3>1, <3>2, <3>4, <3>5, Zenon DEF ScriptInv
  <2>2. CASE s.cur.script # None
    <3>0. [s.cur EXCEPT !.script = None] \in Files
      BY <1>3 DEF Files
    <3>1. ScriptType'
      BY <1>2, <1>8, <2>2, <3>0, Zenon DEF RemoveScript, ScriptType
    <3>2. /\ s'.pc = s.pc /\ s'.rm = "syncScript" /\ s'.cur = [s.cur EXCEPT !.script = None]
          /\ (~s'.split => ~s.split /\ ~Busy)
      BY <1>2, <1>8, <2>2, Zenon DEF RemoveScript, ScriptType
    <3>3. Writing' = Writing /\ s'.cur.script = None
      BY <1>3, <3>2 DEF Writing, Files
    <3>4. ~Busy => ScriptWhole'
      BY <3>2, <3>3 DEF ScriptWhole, Busy, Removing
    <3>5. ScriptSynced'
      BY <3>2 DEF ScriptSynced
    <3> QED BY <3>1, <3>2, <3>4, <3>5, Zenon DEF ScriptInv
  <2> QED BY <2>1, <2>2
<1>9. CASE SyncRemoval
  <2>1. ScriptType'
    BY <1>2, <1>9, Zenon DEF SyncRemoval, ScriptType
  <2>2. /\ s'.pc = s.pc /\ s'.rm = "meta" /\ s'.cur = s.cur /\ s'.disk = s.cur
        /\ s.rm = "syncScript" /\ s'.split = s.split
    BY <1>2, <1>9, Zenon DEF SyncRemoval, ScriptType
  <2>3. Writing' = Writing
    BY <2>2 DEF Writing
  <2>4. ScriptWhole => ScriptWhole'
    BY <2>2, <2>3 DEF ScriptWhole, Busy, Removing
  <2>5. ScriptSynced'
    BY <2>2 DEF ScriptSynced
  <2> QED BY <1>2, <2>1, <2>2, <2>4, <2>5, Zenon DEF ScriptInv
<1>10. CASE RemoveMetadata
  <2>1. CASE s.cur.meta = None
    <3>1. ScriptType'
      BY <1>2, <1>10, <2>1, Zenon DEF RemoveMetadata, ScriptType
    <3>2. /\ s'.pc = s.pc /\ s'.rm = "done" /\ s'.cur = s.cur /\ s'.disk = s.disk
          /\ s.rm = "meta" /\ s'.split = s.split
      BY <1>2, <1>10, <2>1, Zenon DEF RemoveMetadata, ScriptType
    <3>3. Writing' = Writing
      BY <3>2 DEF Writing
    <3>4. ScriptWhole => ScriptWhole'
      BY <3>2, <3>3 DEF ScriptWhole, Busy, Removing
    <3>5. ScriptSynced'
      BY <1>2, <3>2, <3>3 DEF ScriptSynced
    <3> QED BY <1>2, <3>1, <3>2, <3>4, <3>5, Zenon DEF ScriptInv
  <2>2. CASE s.cur.meta # None
    <3>0. [s.cur EXCEPT !.meta = None] \in Files
      BY <1>3 DEF Files
    <3>1. ScriptType'
      BY <1>2, <1>10, <2>2, <3>0, Zenon DEF RemoveMetadata, ScriptType
    <3>2. /\ s'.pc = s.pc /\ s'.rm = "syncMeta" /\ s'.cur = [s.cur EXCEPT !.meta = None]
          /\ s.rm = "meta" /\ (~s'.split => ~s.split)
      BY <1>2, <1>10, <2>2, Zenon DEF RemoveMetadata, ScriptType
    <3>3. Writing' = Writing /\ s'.cur.script = s.cur.script
      BY <1>3, <3>2 DEF Writing, Files
    <3>4. ScriptWhole => ScriptWhole'
      BY <3>2, <3>3 DEF ScriptWhole, Busy, Removing
    <3>5. ScriptSynced'
      BY <3>2 DEF ScriptSynced
    <3> QED BY <1>2, <3>1, <3>2, <3>4, <3>5, Zenon DEF ScriptInv
  <2> QED BY <2>1, <2>2
<1>11. CASE SyncMetadata
  <2>1. ScriptType'
    BY <1>2, <1>11, Zenon DEF SyncMetadata, ScriptType
  <2>2. /\ s'.pc = s.pc /\ s'.rm = "done" /\ s'.cur = s.cur /\ s'.disk = s.cur
        /\ s.rm = "syncMeta" /\ s'.split = s.split
    BY <1>2, <1>11, Zenon DEF SyncMetadata, ScriptType
  <2>3. Writing' = Writing
    BY <2>2 DEF Writing
  <2>4. ScriptWhole => ScriptWhole'
    BY <2>2, <2>3 DEF ScriptWhole, Busy, Removing
  <2>5. ScriptSynced'
    BY <2>2 DEF ScriptSynced
  <2> QED BY <1>2, <2>1, <2>2, <2>4, <2>5, Zenon DEF ScriptInv
<1>12. CASE ReadScript \/ ReadMetadata \/ UNCHANGED s
  <2>1. s.cur.script \in Installers \cup {None} /\ s.cur.meta \in Installers \cup {None}
    BY <1>3 DEF Files
  <2>2. ScriptType'
    <3>1. CASE ReadScript /\ s.cur.script = None
      BY <1>2, <3>1, Zenon DEF ReadScript, ScriptType
    <3>2. CASE ReadScript /\ s.cur.script # None
      BY <1>2, <2>1, <3>2, Zenon DEF ReadScript, ScriptType
    <3>3. CASE ReadMetadata
      BY <1>2, <2>1, <3>3, Zenon DEF ReadMetadata, ScriptType
    <3>4. CASE UNCHANGED s
      BY <1>2, <3>4, Zenon DEF ScriptType
    <3> QED BY <1>12, <3>1, <3>2, <3>3, <3>4
  <2>3. /\ s'.pc = s.pc /\ s'.rm = s.rm /\ s'.cur = s.cur /\ s'.disk = s.disk /\ s'.split = s.split
    BY <1>2, <1>12, Zenon DEF ReadScript, ReadMetadata, ScriptType
  <2> QED BY <1>2, <2>2, <2>3, Zenon DEF ScriptInv, ScriptSynced, ScriptWhole, Writing, Busy, Removing
<1>13. CASE ScriptCrash
  <2> DEFINE pc == [i \in Installers |-> IF s.pc[i] = "done" THEN "done" ELSE "idle"]
  <2>1. PICK a \in {s.cur.script, s.disk.script}, b \in {s.cur.meta, s.disk.meta} :
          s' = [s EXCEPT !.crashes = @ + 1, !.cur = [script |-> a, meta |-> b],
                  !.disk = [script |-> a, meta |-> b], !.split = @ \/ Busy,
                  !.reading = FALSE, !.report = None, !.seen = None, !.pc = pc, !.rm = "idle"]
    BY <1>2, <1>13, Zenon DEF ScriptCrash, ScriptType
  <2>2. pc \in [Installers -> Pcs] /\ \A i \in Installers : pc[i] \in {"idle", "done"}
    OBVIOUS
  <2> HIDE DEF pc
  <2>3. [script |-> a, meta |-> b] \in Files
    BY <1>3 DEF Files
  <2>4. ScriptType'
    BY <1>1, <1>2, <2>1, <2>2, <2>3, Zenon DEF ScriptType
  <2>5. /\ s'.pc = pc /\ s'.rm = "idle" /\ s'.cur = [script |-> a, meta |-> b] /\ s'.disk = s'.cur
        /\ (~s'.split => ~s.split /\ ~Busy)
    BY <1>2, <2>1, Zenon DEF ScriptType
  <2>6. Writing' = {} /\ ~Busy' /\ ~Removing'
    BY <2>2, <2>5 DEF Writing, Busy, Removing
  <2>7. ScriptWhole /\ ~Busy => ScriptWhole'
    <3> SUFFICES ASSUME ScriptWhole, ~Busy PROVE ScriptWhole'
      OBVIOUS
    <3>1. s.disk = s.cur
      BY <1>2 DEF ScriptSynced, Busy
    <3>2. s'.cur.script = s.cur.script /\ s'.cur.meta = s.cur.meta
      BY <2>5, <3>1
    <3> QED BY <2>6, <3>2 DEF ScriptWhole
  <2> QED BY <1>2, <2>4, <2>5, <2>7, Zenon DEF ScriptInv, ScriptSynced
<1> QED BY <1>4, <1>5, <1>6, <1>7, <1>8, <1>9, <1>10, <1>11, <1>12, <1>13, Zenon
        DEF ScriptNext, ScriptInstall, Remove

\* vpnc_script.rs keeps script and metadata together, for any number of
\* installers, readers and crashes.
THEOREM ScriptIsDescribed == ScriptAssumption /\ ScriptSpec => []ScriptDescribed
<1>1. ScriptAssumption => ScriptAssumption'
  OBVIOUS
<1>2. ScriptInv => ScriptDescribed
  <2> SUFFICES ASSUME ScriptInv PROVE ScriptDescribed
    OBVIOUS
  <2>1. s.cur \in Files
    BY Zenon DEF ScriptInv, ScriptType
  <2>2. ~Busy => s.disk = s.cur
    BY DEF ScriptInv, ScriptSynced, Busy
  <2> QED BY <2>1, <2>2, Zenon DEF ScriptInv, ScriptWhole, ScriptDescribed
<1> QED BY <1>1, <1>2, ScriptStarts, ScriptStep, PTL DEF ScriptSpec
-----------------------------------------------------------------------------
(* The lock file *)

\* No two services run under one process number.
LockAssumption ==
  /\ None \notin Services /\ Pids \subseteq Nat
  /\ \E f \in [Services -> Pids] : \A a, b \in Services : a # b => f[a] # f[b]

LockType ==
  s \in [file : Seq(Nat), pc : [Services -> {"off", "refused", "bind", "serving", "look", "remove"}],
         found : Nat \cup {None}, wrote : Services \cup {None}, raced : BOOLEAN, second : BOOLEAN]

\* The file is that of the last writer, or is gone after it stopped
LockInv ==
  /\ LockType
  /\ s.file # <<>> => s.wrote # None /\ s.file = <<Pid[s.wrote], Port[s.wrote]>>
  /\ ~s.raced => \A p \in Services : s.pc[p] = "remove" => s.wrote = p
  /\ LockNamesLatest

LEMMA PidFacts ==
  ASSUME LockAssumption
  PROVE  /\ Pid \in [Services -> Nat] /\ Port \in [Services -> Nat]
         /\ \A a, b \in Services : a # b => Pid[a] # Pid[b]
<1>1. Pid \in [Services -> Pids] /\ \A a, b \in Services : a # b => Pid[a] # Pid[b]
  BY Zenon DEF LockAssumption, Pid
<1>2. Pids \subseteq Nat
  BY Zenon DEF LockAssumption
<1>3. Pid \in [Services -> Nat]
  BY <1>1, <1>2
<1> QED BY <1>1, <1>3 DEF Port

LEMMA LockStarts == LockAssumption /\ LockInit => LockInv
<1> SUFFICES ASSUME LockAssumption, LockInit PROVE LockInv
  OBVIOUS
<1>1. <<>> \in Seq(Nat)
  OBVIOUS
<1>2. LockType
  BY <1>1, Zenon DEF LockInit, LockType
<1>3. s.file = <<>> /\ s.pc = [p \in Services |-> "off"] /\ s.wrote = None
  BY Zenon DEF LockInit
<1>4. Serving = {} /\ \A p \in Services : s.pc[p] # "remove"
  BY <1>3 DEF Serving
<1> QED BY <1>2, <1>3, <1>4, Zenon DEF LockInv, LockNamesLatest

LEMMA LockStep == LockAssumption /\ LockInv /\ [LockNext]_s => LockInv'
<1> SUFFICES ASSUME LockAssumption, LockInv, [LockNext]_s PROVE LockInv'
  OBVIOUS
<1> DEFINE Pcs == {"off", "refused", "bind", "serving", "look", "remove"}
<1>1. LockType /\ s.pc \in [Services -> Pcs]
  BY Zenon DEF LockInv, LockType
<1>2. None \notin Services
  BY DEF LockAssumption
\* A step of one service that leaves the file alone
<1>3. ASSUME NEW p \in Services, NEW v \in Pcs, LockType', s'.pc = [s.pc EXCEPT ![p] = v], v # "serving",
             s'.file = s.file, s'.wrote = s.wrote, s'.raced = s.raced, v = "remove" => s.wrote = p
      PROVE  LockInv'
  <2>1. s'.pc[p] = v /\ \A q \in Services : q # p => s'.pc[q] = s.pc[q]
    BY <1>1, <1>3
  <2>2. Serving' \subseteq Serving
    BY <1>3, <2>1 DEF Serving
  <2>3. \A q \in Services : s'.pc[q] = "remove" => s.pc[q] = "remove" \/ s.wrote = q
    BY <1>3, <2>1
  <2> QED BY <1>3, <2>2, <2>3, Zenon DEF LockInv, LockNamesLatest
<1>4. ASSUME NEW p \in Services, StartService(p) PROVE LockInv'
  <2>1. PICK v \in {"refused", "bind"} :
          /\ s' = LockTo(p, v) \/ \E b \in BOOLEAN : s' = [LockTo(p, v) EXCEPT !.second = b]
    BY <1>1, <1>4, Zenon DEF StartService, LockType, LockTo
  <2>2. v \in Pcs /\ v # "serving" /\ v # "remove"
    BY <2>1
  <2>3. LockType'
    <3>1. CASE s' = LockTo(p, v)
      BY <1>1, <2>2, <3>1, Zenon DEF LockType, LockTo
    <3>2. ASSUME NEW b \in BOOLEAN, s' = [LockTo(p, v) EXCEPT !.second = b] PROVE LockType'
      BY <1>1, <2>2, <3>2, Zenon DEF LockType, LockTo
    <3> QED BY <2>1, <3>1, <3>2, Zenon
  <2>4. s'.pc = [s.pc EXCEPT ![p] = v] /\ s'.file = s.file /\ s'.wrote = s.wrote /\ s'.raced = s.raced
    BY <1>1, <2>1, Zenon DEF LockType, LockTo
  <2> QED BY <1>3, <1>4, <2>2, <2>3, <2>4, Zenon
<1>5. ASSUME NEW p \in Services, NEW v \in {"off", "look"}, s' = LockTo(p, v) PROVE LockInv'
  <2>1. v \in Pcs /\ v # "serving" /\ v # "remove"
    BY <1>5
  <2>2. LockType'
    BY <1>1, <1>5, <2>1, Zenon DEF LockType, LockTo
  <2>3. s'.pc = [s.pc EXCEPT ![p] = v] /\ s'.file = s.file /\ s'.wrote = s.wrote /\ s'.raced = s.raced
    BY <1>1, <1>5, Zenon DEF LockType, LockTo
  <2> QED BY <1>3, <1>5, <2>1, <2>2, <2>3, Zenon
<1>6. ASSUME NEW p \in Services, LockFileLock(p) PROVE LockInv'
  <2>0. <<Pid[p], Port[p]>> \in Seq(Nat)
    BY PidFacts
  <2>1. LockType'
    BY <1>1, <1>6, <2>0, Zenon DEF LockFileLock, LockType, LockTo
  <2>2. /\ s'.pc = [s.pc EXCEPT ![p] = "serving"] /\ s'.file = <<Pid[p], Port[p]>> /\ s'.wrote = p
        /\ (~s'.raced => \A q \in Services : s.pc[q] # "remove")
    BY <1>1, <1>6, Zenon DEF LockFileLock, LockType, LockTo
  <2>3. \A q \in Services : s'.pc[q] = "remove" => s.pc[q] = "remove"
    BY <1>1, <2>2
  <2> QED BY <1>2, <1>6, <2>1, <2>2, <2>3, Zenon DEF LockInv, LockNamesLatest
<1>7. ASSUME NEW p \in Services, UnlockLooks(p) PROVE LockInv'
  <2>1. CASE Len(s.file) = 2 /\ s.file[1] = Pid[p]
    <3>1. s' = LockTo(p, "remove")
      BY <1>7, <2>1, Zenon DEF UnlockLooks
    <3>2. LockType'
      BY <1>1, <3>1, Zenon DEF LockType, LockTo
    <3>3. s'.pc = [s.pc EXCEPT ![p] = "remove"] /\ s'.file = s.file /\ s'.wrote = s.wrote /\ s'.raced = s.raced
      BY <1>1, <3>1, Zenon DEF LockType, LockTo
    <3>4. s.file # <<>>
      BY <2>1
    <3>5. s.wrote \in Services /\ s.file = <<Pid[s.wrote], Port[s.wrote]>>
      BY <1>1, <3>4, Zenon DEF LockInv, LockType
    <3>6. s.file[1] = Pid[s.wrote]
      BY <3>5
    <3>7. s.wrote = p
      BY <1>7, <2>1, <3>5, <3>6, PidFacts, Zenon
    <3>8. "remove" \in Pcs /\ "remove" # "serving"
      OBVIOUS
    <3> QED BY <1>3, <1>7, <3>2, <3>3, <3>7, <3>8, Zenon
  <2> QED BY <1>5, <1>7, <2>1, Zenon DEF UnlockLooks
<1>8. ASSUME NEW p \in Services, UnlockRemoves(p) PROVE LockInv'
  <2>0. <<>> \in Seq(Nat)
    OBVIOUS
  <2>1. LockType'
    BY <1>1, <1>8, <2>0, Zenon DEF UnlockRemoves, LockType, LockTo
  <2>2. /\ s'.pc = [s.pc EXCEPT ![p] = "off"] /\ s'.file = <<>> /\ s'.wrote = s.wrote
        /\ s'.raced = s.raced /\ s.pc[p] = "remove"
    BY <1>1, <1>8, Zenon DEF UnlockRemoves, LockType, LockTo
  <2>3. \A q \in Services : s'.pc[q] = "remove" => s.pc[q] = "remove"
    BY <1>1, <2>2
  <2>4. p \notin Serving'
    BY <1>1, <2>2 DEF Serving
  <2> QED BY <1>8, <2>1, <2>2, <2>3, <2>4, Zenon DEF LockInv, LockNamesLatest
<1>9. CASE Find \/ UNCHANGED s
  <2>1. Len(s.file) = 2 => s.file[2] \in Nat
    <3>1. s.file \in Seq(Nat)
      BY <1>1, Zenon DEF LockType
    <3> QED BY <3>1
  <2>2. LockType'
    BY <1>1, <1>9, <2>1, Zenon DEF Find, LockType
  <2>3. s'.pc = s.pc /\ s'.file = s.file /\ s'.wrote = s.wrote /\ s'.raced = s.raced
    BY <1>1, <1>9, Zenon DEF Find, LockType
  <2> QED BY <2>2, <2>3, Zenon DEF LockInv, LockNamesLatest, Serving
<1> QED BY <1>4, <1>5, <1>6, <1>7, <1>8, <1>9, Zenon DEF LockNext, StopService, Killed

\* lock_file.rs: a service that stops leaves the file of another one alone, for
\* any number of services that start, stop and are killed.
THEOREM LockIsKept == LockAssumption /\ LockSpec => []LockNamesLatest
<1>1. LockAssumption => LockAssumption'
  OBVIOUS
<1>2. LockInv => LockNamesLatest
  BY Zenon DEF LockInv
<1> QED BY <1>1, <1>2, LockStarts, LockStep, PTL DEF LockSpec
-----------------------------------------------------------------------------
(* The approved HIP scripts *)

Places == {"none", "staged", "target", "revoked", "gone"}
RevPc == {"idle", "owner", "rename", "syncBase", "remove", "done", "failed"}
ReadPc == {"idle", "exists", "meta", "resolve"}
Users == {"alice", "bob"}
Statuses == {"none", "revoked", "corrupt", "other", "valid"}
Acks == {"no", "seen", "synced"}
ApprovalType ==
  s \in [loc : Places, dur : Places, files : SUBSET {"script", "meta"},
         inst : ApprovalInstall \cup {"done"}, owner : {"alice"}, rev : [Revokers -> RevPc],
         read : ReadPc, uid : Users, raced : BOOLEAN, status : Statuses, installed : BOOLEAN,
         acked : Acks, renames : Nat, crashes : Nat]

\* The directory is complete before it is renamed into place, a revocation
\* works on an approval that was installed, and the directory is emptied only
\* where no crash brings it back.
ApprovalPlace ==
  /\ s.inst \in {"stage", "script"} => s.files = {}
  /\ s.inst = "meta" => s.files = {"script"}
  /\ s.inst \in {"sync", "publish"} => s.files = {"script", "meta"}
  /\ s.inst \in {"stage", "script", "meta", "sync", "publish"} => s.loc \in {"none", "staged"}
  /\ s.inst = "syncBase" => s.loc = "target"
  /\ s.inst # "done" => s.dur \in {"none", "staged"}
  /\ s.inst = "done" => s.loc \notin {"none", "staged"} /\ s.dur \notin {"none", "staged"}
  /\ s.loc = "target" \/ s.dur = "target" => s.files = {"script", "meta"}
  /\ s.renames = 0 => s.loc \notin {"revoked", "gone"} /\ s.dur \notin {"revoked", "gone"}
ApprovalRevoked ==
  /\ \A r \in Revokers : s.rev[r] \in {"owner", "rename", "syncBase", "remove"} => s.inst = "done"
  /\ \A r \in Revokers : s.rev[r] \in {"syncBase", "remove"} => s.loc \in {"revoked", "gone"}
  /\ \A r \in Revokers : s.rev[r] = "remove" => s.dur \in {"revoked", "gone"}
  /\ s.acked = "synced" => s.loc \in {"revoked", "gone"} /\ s.dur \in {"revoked", "gone"}
ApprovalSeen ==
  /\ s.read \in {"meta", "resolve"} /\ s.renames = 0 => s.loc = "target"
  /\ s.status = "corrupt" => s.renames # 0
ApprovalInv ==
  /\ ApprovalType /\ ApprovalPlace /\ ApprovalRevoked /\ ApprovalSeen
  /\ s.installed => s.inst = "done"

LEMMA ApprovalStarts == ApprovalInit => ApprovalInv
<1> SUFFICES ASSUME ApprovalInit PROVE ApprovalInv
  OBVIOUS
<1>1. 0 \in Nat
  OBVIOUS
<1>2. ApprovalType
  BY <1>1, Zenon DEF ApprovalInit, ApprovalType, ApprovalInstall, Places, RevPc, ReadPc, Users, Statuses, Acks
<1>3. /\ s.inst = "stage" /\ s.files = {} /\ s.loc = "none" /\ s.dur = "none" /\ s.acked = "no"
      /\ s.rev = [r \in Revokers |-> "idle"] /\ s.read = "idle" /\ s.status = "none"
  BY Zenon DEF ApprovalInit
<1>4. ~s.installed
  BY Zenon DEF ApprovalInit
<1>5. ApprovalPlace /\ ApprovalRevoked /\ ApprovalSeen
  BY <1>3 DEF ApprovalPlace, ApprovalRevoked, ApprovalSeen,
        ApprovalInstall, Places, RevPc, Acks
<1> QED BY <1>2, <1>4, <1>5, Zenon DEF ApprovalInv

LEMMA ApprovalStep == ApprovalInv /\ [ApprovalNext]_s => ApprovalInv'
<1> SUFFICES ASSUME ApprovalInv, [ApprovalNext]_s PROVE ApprovalInv'
  OBVIOUS
<1>1. ApprovalType
  BY Zenon DEF ApprovalInv
<1>2. /\ s.inst \in ApprovalInstall \cup {"done"} /\ s.loc \in Places /\ s.dur \in Places
      /\ s.files \in SUBSET {"script", "meta"} /\ s.rev \in [Revokers -> RevPc]
      /\ s.acked \in Acks /\ s.renames \in Nat /\ s.crashes \in Nat
  BY <1>1, Zenon DEF ApprovalType
<1>3. ApprovalPlace /\ ApprovalRevoked /\ ApprovalSeen
  BY Zenon DEF ApprovalInv
<1>4. s.installed => s.inst = "done"
  BY Zenon DEF ApprovalInv
<1>5. s.renames + 1 \in Nat /\ s.renames + 1 # 0 /\ s.crashes + 1 \in Nat
  BY <1>2
<1>6. CASE ApprovalInstallStep
  <2>1. CASE s.inst = "stage"
    <3>1. s' = [s EXCEPT !.inst = "script", !.loc = "staged"]
      BY <1>6, <2>1, Zenon DEF ApprovalInstallStep
    <3>2. ApprovalType'
      BY <1>1, <3>1, Zenon DEF ApprovalType, ApprovalInstall, Places
    <3>3. /\ s'.loc = "staged" /\ s'.dur = s.dur /\ s'.files = s.files
          /\ s'.inst = "script" /\ s'.rev = s.rev /\ s'.acked = s.acked
          /\ s'.renames = s.renames /\ s'.read = s.read /\ s'.status = s.status
      BY <1>1, <3>1, Zenon DEF ApprovalType
    <3>4. ApprovalPlace' /\ ApprovalRevoked' /\ ApprovalSeen'
      BY <1>2, <1>3, <2>1, <3>3 DEF ApprovalPlace, ApprovalRevoked, ApprovalSeen,
        ApprovalInstall, Places, RevPc, Acks
    <3>5. s'.installed => s'.inst = "done"
      BY <1>1, <1>4, <2>1, <3>1, Zenon DEF ApprovalType
    <3> QED BY <3>2, <3>4, <3>5, Zenon DEF ApprovalInv
  <2>2. CASE s.inst = "script"
    <3>1. s' = [s EXCEPT !.inst = "meta", !.files = @ \cup {"script"}]
      BY <1>6, <2>2, Zenon DEF ApprovalInstallStep
    <3>2. ApprovalType'
      BY <1>1, <3>1, Zenon DEF ApprovalType, ApprovalInstall, Places
    <3>3. /\ s'.loc = s.loc /\ s'.dur = s.dur /\ s'.files = s.files \cup {"script"}
          /\ s'.inst = "meta" /\ s'.rev = s.rev /\ s'.acked = s.acked
          /\ s'.renames = s.renames /\ s'.read = s.read /\ s'.status = s.status
      BY <1>1, <3>1, Zenon DEF ApprovalType
    <3>4. ApprovalPlace' /\ ApprovalRevoked' /\ ApprovalSeen'
      BY <1>2, <1>3, <2>2, <3>3 DEF ApprovalPlace, ApprovalRevoked, ApprovalSeen,
        ApprovalInstall, Places, RevPc, Acks
    <3>5. s'.installed => s'.inst = "done"
      BY <1>1, <1>4, <2>2, <3>1, Zenon DEF ApprovalType
    <3> QED BY <3>2, <3>4, <3>5, Zenon DEF ApprovalInv
  <2>3. CASE s.inst = "meta"
    <3>1. s' = [s EXCEPT !.inst = "sync", !.files = @ \cup {"meta"}]
      BY <1>6, <2>3, Zenon DEF ApprovalInstallStep
    <3>2. ApprovalType'
      BY <1>1, <3>1, Zenon DEF ApprovalType, ApprovalInstall, Places
    <3>3. /\ s'.loc = s.loc /\ s'.dur = s.dur /\ s'.files = s.files \cup {"meta"}
          /\ s'.inst = "sync" /\ s'.rev = s.rev /\ s'.acked = s.acked
          /\ s'.renames = s.renames /\ s'.read = s.read /\ s'.status = s.status
      BY <1>1, <3>1, Zenon DEF ApprovalType
    <3>4. ApprovalPlace' /\ ApprovalRevoked' /\ ApprovalSeen'
      BY <1>2, <1>3, <2>3, <3>3 DEF ApprovalPlace, ApprovalRevoked, ApprovalSeen,
        ApprovalInstall, Places, RevPc, Acks
    <3>5. s'.installed => s'.inst = "done"
      BY <1>1, <1>4, <2>3, <3>1, Zenon DEF ApprovalType
    <3> QED BY <3>2, <3>4, <3>5, Zenon DEF ApprovalInv
  <2>4. CASE s.inst = "sync"
    <3>1. s' = [s EXCEPT !.inst = "publish", !.dur = "staged"]
      BY <1>6, <2>4, Zenon DEF ApprovalInstallStep
    <3>2. ApprovalType'
      BY <1>1, <3>1, Zenon DEF ApprovalType, ApprovalInstall, Places
    <3>3. /\ s'.loc = s.loc /\ s'.dur = "staged" /\ s'.files = s.files
          /\ s'.inst = "publish" /\ s'.rev = s.rev /\ s'.acked = s.acked
          /\ s'.renames = s.renames /\ s'.read = s.read /\ s'.status = s.status
      BY <1>1, <3>1, Zenon DEF ApprovalType
    <3>4. ApprovalPlace' /\ ApprovalRevoked' /\ ApprovalSeen'
      BY <1>2, <1>3, <2>4, <3>3 DEF ApprovalPlace, ApprovalRevoked, ApprovalSeen,
        ApprovalInstall, Places, RevPc, Acks
    <3>5. s'.installed => s'.inst = "done"
      BY <1>1, <1>4, <2>4, <3>1, Zenon DEF ApprovalType
    <3> QED BY <3>2, <3>4, <3>5, Zenon DEF ApprovalInv
  <2>5. CASE s.inst = "publish"
    <3>1. s' = [s EXCEPT !.inst = "syncBase", !.loc = "target"]
      BY <1>6, <2>5, Zenon DEF ApprovalInstallStep
    <3>2. ApprovalType'
      BY <1>1, <3>1, Zenon DEF ApprovalType, ApprovalInstall, Places
    <3>3. /\ s'.loc = "target" /\ s'.dur = s.dur /\ s'.files = s.files
          /\ s'.inst = "syncBase" /\ s'.rev = s.rev /\ s'.acked = s.acked
          /\ s'.renames = s.renames /\ s'.read = s.read /\ s'.status = s.status
      BY <1>1, <3>1, Zenon DEF ApprovalType
    <3>4. ApprovalPlace' /\ ApprovalRevoked' /\ ApprovalSeen'
      BY <1>2, <1>3, <2>5, <3>3 DEF ApprovalPlace, ApprovalRevoked, ApprovalSeen,
        ApprovalInstall, Places, RevPc, Acks
    <3>5. s'.installed => s'.inst = "done"
      BY <1>1, <1>4, <2>5, <3>1, Zenon DEF ApprovalType
    <3> QED BY <3>2, <3>4, <3>5, Zenon DEF ApprovalInv
  <2>6. CASE s.inst = "syncBase"
    <3>1. s' = [s EXCEPT !.inst = "done", !.dur = s.loc, !.installed = TRUE]
      BY <1>6, <2>6, Zenon DEF ApprovalInstallStep
    <3>2. ApprovalType'
      BY <1>1, <3>1, Zenon DEF ApprovalType, ApprovalInstall, Places
    <3>3. /\ s'.loc = s.loc /\ s'.dur = s.loc /\ s'.files = s.files /\ s'.inst = "done"
          /\ s'.rev = s.rev /\ s'.acked = s.acked /\ s'.renames = s.renames
          /\ s'.read = s.read /\ s'.status = s.status
      BY <1>1, <3>1, Zenon DEF ApprovalType
    <3>4. ApprovalPlace' /\ ApprovalRevoked' /\ ApprovalSeen'
      BY <1>2, <1>3, <2>6, <3>3 DEF ApprovalPlace, ApprovalRevoked, ApprovalSeen,
        ApprovalInstall, Places, RevPc, Acks
    <3>5. s'.installed => s'.inst = "done"
      BY <1>1, <1>4, <2>6, <3>1, Zenon DEF ApprovalType
    <3> QED BY <3>2, <3>4, <3>5, Zenon DEF ApprovalInv
  <2> QED BY <1>6, <2>1, <2>2, <2>3, <2>4, <2>5, <2>6, Zenon DEF ApprovalInstallStep, ApprovalInstall
\* A step of one revoker that moves no directory
<1>7. ASSUME NEW r \in Revokers, NEW v \in {"owner", "rename", "done", "failed"},
             v \in {"owner", "rename"} => s.inst = "done", NEW k \in Acks,
             k = "synced" => s.acked = "synced", s' = [ToRev(r, v) EXCEPT !.acked = k]
      PROVE  ApprovalInv'
  <2> DEFINE R == [s.rev EXCEPT ![r] = v]
  <2>1. R \in [Revokers -> RevPc] /\ R[r] = v /\ \A q \in Revokers : q # r => R[q] = s.rev[q]
    BY <1>2, <1>7 DEF RevPc
  <2>2. s' = [s EXCEPT !.rev = R, !.acked = k]
    BY <1>1, <1>7, Zenon DEF ToRev, ApprovalType
  <2> HIDE DEF R
  <2>3. ApprovalType'
    BY <1>1, <2>1, <2>2, Zenon DEF ApprovalType
  <2>4. /\ s'.loc = s.loc /\ s'.dur = s.dur /\ s'.files = s.files /\ s'.inst = s.inst
        /\ s'.rev = R /\ s'.acked = k /\ s'.renames = s.renames /\ s'.read = s.read
        /\ s'.status = s.status
    BY <1>1, <2>2, Zenon DEF ApprovalType
  <2>5. ApprovalPlace' /\ ApprovalRevoked' /\ ApprovalSeen'
    BY <1>2, <1>3, <1>7, <2>1, <2>4 DEF ApprovalPlace, ApprovalRevoked, ApprovalSeen,
        ApprovalInstall, Places, RevPc, Acks
  <2>6. s'.installed => s'.inst = "done"
    BY <1>1, <1>4, <2>2, Zenon DEF ApprovalType
  <2> QED BY <2>3, <2>5, <2>6, Zenon DEF ApprovalInv
<1>8. ASSUME NEW r \in Revokers, RevokeStart(r) PROVE ApprovalInv'
  <2>1. CASE s.loc # "target"
    <3> DEFINE k == IF s.acked = "no" THEN "seen" ELSE s.acked
    <3>1. s' = [ToRev(r, "done") EXCEPT !.acked = k]
      BY <1>1, <1>8, <2>1, Zenon DEF RevokeStart, ToRev, ApprovalType
    <3>2. /\ k \in Acks /\ (k = "synced" => s.acked = "synced")
          /\ "done" \in {"owner", "rename", "done", "failed"} /\ "done" \notin {"owner", "rename"}
      BY <1>2 DEF Acks
    <3> HIDE DEF k
    <3> QED BY <1>7, <1>8, <3>1, <3>2, Zenon
  <2>2. CASE s.loc = "target"
    <3>1. s' = ToRev(r, "owner") /\ s.inst = "done"
      BY <1>8, <2>2, Zenon DEF RevokeStart
    <3>2. s' = [ToRev(r, "owner") EXCEPT !.acked = s.acked]
      BY <1>1, <3>1, Zenon DEF ToRev, ApprovalType
    <3> QED BY <1>2, <1>7, <1>8, <3>1, <3>2, Zenon
  <2> QED BY <2>1, <2>2
<1>9. ASSUME NEW r \in Revokers, RevokeOwner(r) PROVE ApprovalInv'
  <2>1. PICK v \in {"rename", "failed"} : s' = ToRev(r, v)
    BY <1>9, Zenon DEF RevokeOwner
  <2>2. s' = [ToRev(r, v) EXCEPT !.acked = s.acked]
    BY <1>1, <2>1, Zenon DEF ToRev, ApprovalType
  <2>3. s.inst = "done" /\ v \in {"owner", "rename", "done", "failed"}
    BY <1>3, <1>9 DEF RevokeOwner, ApprovalRevoked
  <2> QED BY <1>2, <1>7, <1>9, <2>2, <2>3, Zenon
<1>10. ASSUME NEW r \in Revokers, RevokeRename(r) PROVE ApprovalInv'
  <2>1. CASE s.loc # "target"
    <3>1. s' = ToRev(r, "failed")
      BY <1>10, <2>1, Zenon DEF RevokeRename
    <3>2. s' = [ToRev(r, "failed") EXCEPT !.acked = s.acked]
      BY <1>1, <3>1, Zenon DEF ToRev, ApprovalType
    <3>3. "failed" \in {"owner", "rename", "done", "failed"} /\ "failed" \notin {"owner", "rename"}
      OBVIOUS
    <3> QED BY <1>2, <1>7, <1>10, <3>2, <3>3, Zenon
  <2>2. CASE s.loc = "target"
    <3> DEFINE R == [s.rev EXCEPT ![r] = "syncBase"]
    <3>1. /\ R \in [Revokers -> RevPc] /\ R[r] = "syncBase"
          /\ \A q \in Revokers : q # r => R[q] = s.rev[q]
      BY <1>2, <1>10 DEF RevPc
    <3>2. /\ s' = [s EXCEPT !.rev = R, !.loc = "revoked", !.raced = s.read # "idle", !.renames = @ + 1]
          /\ s.rev[r] = "rename"
      BY <1>1, <1>10, <2>2, Zenon DEF RevokeRename, ToRev, ApprovalType
    <3> HIDE DEF R
    <3>3. ApprovalType'
      BY <1>1, <1>5, <3>1, <3>2, Zenon DEF ApprovalType, Places
    <3>4. /\ s'.loc = "revoked" /\ s'.dur = s.dur /\ s'.files = s.files
          /\ s'.inst = s.inst /\ s'.rev = R /\ s'.acked = s.acked
          /\ s'.renames = s.renames + 1 /\ s'.read = s.read /\ s'.status = s.status
      BY <1>1, <3>2, Zenon DEF ApprovalType
    <3>5. s.inst = "done"
      BY <1>3, <1>10, <3>2 DEF ApprovalRevoked
    <3>6. ApprovalPlace' /\ ApprovalRevoked' /\ ApprovalSeen'
      BY <1>2, <1>3, <1>5, <2>2, <3>1, <3>4, <3>5 DEF ApprovalPlace, ApprovalRevoked, ApprovalSeen,
        ApprovalInstall, Places, RevPc, Acks
    <3>7. s'.installed => s'.inst = "done"
      BY <3>4, <3>5, Zenon
    <3> QED BY <3>3, <3>6, <3>7, Zenon DEF ApprovalInv
  <2> QED BY <2>1, <2>2
<1>11. ASSUME NEW r \in Revokers, RevokeSync(r) PROVE ApprovalInv'
  <2> DEFINE R == [s.rev EXCEPT ![r] = "remove"]
  <2>1. /\ R \in [Revokers -> RevPc] /\ R[r] = "remove"
        /\ \A q \in Revokers : q # r => R[q] = s.rev[q]
    BY <1>2, <1>11 DEF RevPc
  <2>2. s' = [s EXCEPT !.rev = R, !.dur = s.loc] /\ s.rev[r] = "syncBase"
    BY <1>1, <1>11, Zenon DEF RevokeSync, ToRev, ApprovalType
  <2> HIDE DEF R
  <2>3. ApprovalType'
    BY <1>1, <2>1, <2>2, Zenon DEF ApprovalType
  <2>4. /\ s'.loc = s.loc /\ s'.dur = s.loc /\ s'.files = s.files /\ s'.inst = s.inst
        /\ s'.rev = R /\ s'.acked = s.acked /\ s'.renames = s.renames
        /\ s'.read = s.read /\ s'.status = s.status
    BY <1>1, <2>2, Zenon DEF ApprovalType
  <2>5. s.loc \in {"revoked", "gone"} /\ s.inst = "done"
    BY <1>3, <1>11, <2>2 DEF ApprovalRevoked
  <2>6. ApprovalPlace' /\ ApprovalRevoked' /\ ApprovalSeen'
    BY <1>2, <1>3, <2>1, <2>4, <2>5 DEF ApprovalPlace, ApprovalRevoked, ApprovalSeen,
        ApprovalInstall, Places, RevPc, Acks
  <2>7. s'.installed => s'.inst = "done"
    BY <2>4, <2>5, Zenon
  <2> QED BY <2>3, <2>6, <2>7, Zenon DEF ApprovalInv
<1>12. ASSUME NEW r \in Revokers, RevokeRemove(r) PROVE ApprovalInv'
  <2> DEFINE R == [s.rev EXCEPT ![r] = "done"]
             To(x, l) == IF l = {} THEN "gone" ELSE x
  <2>1. /\ R \in [Revokers -> RevPc] /\ R[r] = "done"
        /\ \A q \in Revokers : q # r => R[q] = s.rev[q]
    BY <1>2, <1>12 DEF RevPc
  <2>2. PICK left \in SUBSET s.files :
          s' = [s EXCEPT !.rev = R, !.files = left, !.acked = "synced",
                  !.loc = To(s.loc, left), !.dur = To(s.dur, left)]
    BY <1>1, <1>12, Zenon DEF RevokeRemove, ToRev, ApprovalType
  <2>3. s.inst = "done" /\ s.loc \in {"revoked", "gone"} /\ s.dur \in {"revoked", "gone"}
    BY <1>3, <1>12 DEF RevokeRemove, ApprovalRevoked
  <2>4. To(s.loc, left) \in {"revoked", "gone"} /\ To(s.dur, left) \in {"revoked", "gone"}
    BY <2>3
  <2>5. To(s.loc, left) \in Places /\ To(s.dur, left) \in Places /\ left \in SUBSET {"script", "meta"}
    BY <1>2, <2>4 DEF Places
  <2> HIDE DEF R, To
  <2>6. ApprovalType'
    BY <1>1, <2>1, <2>2, <2>5, Zenon DEF ApprovalType, Acks
  <2>7. /\ s'.loc = To(s.loc, left) /\ s'.dur = To(s.dur, left) /\ s'.files = left
        /\ s'.inst = s.inst /\ s'.rev = R /\ s'.acked = "synced"
        /\ s'.renames = s.renames /\ s'.read = s.read /\ s'.status = s.status
    BY <1>1, <2>2, Zenon DEF ApprovalType
  <2>8. ApprovalPlace' /\ ApprovalRevoked' /\ ApprovalSeen'
    BY <1>2, <1>3, <2>1, <2>3, <2>4, <2>7 DEF ApprovalPlace, ApprovalRevoked, ApprovalSeen,
        ApprovalInstall, Places, RevPc, Acks
  <2>9. s'.installed => s'.inst = "done"
    BY <2>3, <2>7, Zenon
  <2> QED BY <2>6, <2>8, <2>9, Zenon DEF ApprovalInv
\* A look at the file system
<1>13. ASSUME NEW v \in ReadPc, NEW u \in Users, NEW b \in BOOLEAN,
              NEW st \in Statuses,
              s' = [s EXCEPT !.read = v, !.uid = u, !.raced = b, !.status = st],
              v \in {"meta", "resolve"} => s.loc = "target",
              st = "corrupt" => s.status = "corrupt" \/ s.renames # 0
       PROVE  ApprovalInv'
  <2>1. ApprovalType'
    BY <1>1, <1>13, Zenon DEF ApprovalType
  <2>2. /\ s'.loc = s.loc /\ s'.dur = s.dur /\ s'.files = s.files /\ s'.inst = s.inst
        /\ s'.rev = s.rev /\ s'.acked = s.acked /\ s'.renames = s.renames
        /\ s'.read = v /\ s'.status = st
    BY <1>1, <1>13, Zenon DEF ApprovalType
  <2>3. /\ v \in {"meta", "resolve"} => s.loc = "target"
        /\ st = "corrupt" => s.status = "corrupt" \/ s.renames # 0
    BY <1>13, Zenon
  <2>4. ApprovalPlace' /\ ApprovalRevoked' /\ ApprovalSeen'
    BY <1>2, <1>3, <2>2, <2>3 DEF ApprovalPlace, ApprovalRevoked, ApprovalSeen,
        ApprovalInstall, Places, RevPc, Acks
  <2>5. s'.installed => s'.inst = "done"
    BY <1>1, <1>4, <1>13, Zenon DEF ApprovalType
  <2> QED BY <2>1, <2>4, <2>5, Zenon DEF ApprovalInv
<1>14. CASE StatusStep
  <2>1. /\ s.uid \in Users /\ s.raced \in BOOLEAN
        /\ s.status \in Statuses
    BY <1>1, Zenon DEF ApprovalType
  <2>2. CASE StatusStart
    <3>1. PICK u \in Users : s' = [s EXCEPT !.read = "exists", !.uid = u, !.raced = FALSE]
      BY <2>2, Zenon DEF StatusStart, Users
    <3>2. s' = [s EXCEPT !.read = "exists", !.uid = u, !.raced = FALSE, !.status = s.status]
      BY <1>1, <3>1, Zenon DEF ApprovalType
    <3>3. "exists" \in ReadPc /\ "exists" \notin {"meta", "resolve"} /\ FALSE \in BOOLEAN
      BY DEF ReadPc
    <3> QED BY <1>13, <2>1, <3>2, <3>3, Zenon
  <2>3. ASSUME NEW st \in Statuses, Report(st),
               st = "corrupt" => s.renames # 0
        PROVE  ApprovalInv'
    <3>1. s' = [s EXCEPT !.read = "idle", !.uid = s.uid, !.raced = s.raced, !.status = st]
      BY <1>1, <2>3, Zenon DEF Report, ApprovalType
    <3>2. "idle" \in ReadPc /\ "idle" \notin {"meta", "resolve"}
      BY DEF ReadPc
    <3> QED BY <1>13, <2>1, <2>3, <3>1, <3>2, Zenon
  <2>4. ASSUME NEW v \in {"meta", "resolve"}, s' = [s EXCEPT !.read = v], s.loc = "target"
        PROVE  ApprovalInv'
    <3>1. s' = [s EXCEPT !.read = v, !.uid = s.uid, !.raced = s.raced, !.status = s.status]
      BY <1>1, <2>4, Zenon DEF ApprovalType
    <3>2. v \in ReadPc
      BY <2>4 DEF ReadPc
    <3>3. /\ v \in {"meta", "resolve"} => s.loc = "target"
          /\ s.status = "corrupt" => s.status = "corrupt" \/ s.renames # 0
      BY <2>4, Zenon
    <3> QED BY <1>13, <2>1, <3>1, <3>2, <3>3, Zenon
  <2>5. \A f \in {"script", "meta"} : s.read \in {"meta", "resolve"} /\ ~Present(f) => s.renames # 0
    BY <1>3 DEF ApprovalPlace, ApprovalSeen, Present
  <2>9. /\ {"revoked", "corrupt", "other", "valid"} \subseteq Statuses
        /\ "corrupt" \notin {"revoked", "other", "valid"}
    BY DEF Statuses
  <2>6. CASE StatusExists
    <3>1. CASE Present("meta")
      BY <2>4, <2>6, <3>1, Zenon DEF StatusExists, Present
    <3>2. CASE ~Present("meta")
      BY <2>3, <2>6, <2>9, <3>2, Zenon DEF StatusExists
    <3> QED BY <3>1, <3>2
  <2>7. CASE StatusMeta
    <3>1. CASE ~Present("meta")
      <4>1. Report("corrupt") /\ s.renames # 0
        BY <2>5, <2>7, <3>1, Zenon DEF StatusMeta
      <4> QED BY <2>3, <2>9, <4>1, Zenon
    <3>2. CASE Present("meta") /\ s.uid # s.owner
      <4>1. Report("other")
        BY <2>7, <3>2, Zenon DEF StatusMeta
      <4> QED BY <2>3, <2>9, <4>1, Zenon
    <3>3. CASE Present("meta") /\ s.uid = s.owner
      <4>1. s' = [s EXCEPT !.read = "resolve"] /\ s.loc = "target"
        BY <2>7, <3>3, Zenon DEF StatusMeta, Present
      <4> QED BY <2>4, <4>1, Zenon
    <3> QED BY <3>1, <3>2, <3>3
  <2>8. CASE StatusResolve
    <3>1. CASE Present("meta") /\ Present("script")
      <4>1. Report("valid")
        BY <2>8, <3>1, Zenon DEF StatusResolve
      <4> QED BY <2>3, <2>9, <4>1, Zenon
    <3>2. CASE ~(Present("meta") /\ Present("script"))
      <4>1. Report("corrupt") /\ s.renames # 0
        BY <2>5, <2>8, <3>2, Zenon DEF StatusResolve
      <4> QED BY <2>3, <2>9, <4>1, Zenon
    <3> QED BY <3>1, <3>2
  <2> QED BY <1>14, <2>2, <2>6, <2>7, <2>8, Zenon DEF StatusStep
<1>15. CASE ApprovalCrash
  <2> DEFINE Early(l) == l \in {"none", "staged"}
             I(l) == IF Early(l) THEN "stage" ELSE "done"
             F(l) == IF Early(l) THEN {} ELSE s.files
             R == [r \in Revokers |-> IF s.rev[r] = "done" THEN "done" ELSE "idle"]
  <2>1. PICK l \in {s.loc, s.dur} :
          s' = [s EXCEPT !.crashes = @ + 1, !.loc = l, !.dur = l, !.read = "idle", !.raced = FALSE,
                  !.inst = I(l), !.files = F(l), !.rev = R]
    BY <1>1, <1>15, Zenon DEF ApprovalCrash, ApprovalType
  <2>2. /\ R \in [Revokers -> RevPc] /\ \A r \in Revokers : R[r] \in {"done", "idle"}
        /\ I(l) \in ApprovalInstall \cup {"done"} /\ F(l) \in SUBSET {"script", "meta"} /\ l \in Places
    BY <1>2 DEF RevPc, ApprovalInstall, Places
  <2>3. /\ l \in {"none", "staged"} => I(l) = "stage" /\ F(l) = {} /\ s.inst # "done"
        /\ l \notin {"none", "staged"} => I(l) = "done" /\ F(l) = s.files
    BY <1>3 DEF ApprovalPlace
  <2> HIDE DEF I, F, R, Early
  <2>4. ApprovalType'
    BY <1>1, <1>5, <2>1, <2>2, Zenon DEF ApprovalType, ReadPc
  <2>5. /\ s'.loc = l /\ s'.dur = l /\ s'.files = F(l) /\ s'.inst = I(l)
        /\ s'.rev = R /\ s'.acked = s.acked /\ s'.renames = s.renames
        /\ s'.read = "idle" /\ s'.status = s.status
    BY <1>1, <2>1, Zenon DEF ApprovalType
  <2>6. ApprovalPlace' /\ ApprovalRevoked' /\ ApprovalSeen'
    BY <1>2, <1>3, <2>1, <2>2, <2>3, <2>5 DEF ApprovalPlace, ApprovalRevoked, ApprovalSeen,
        ApprovalInstall, Places, RevPc, Acks
  <2>7. s'.installed = s.installed
    BY <1>1, <2>1, Zenon DEF ApprovalType
  <2> QED BY <1>4, <2>3, <2>4, <2>5, <2>6, <2>7, Zenon DEF ApprovalInv
<1>16. CASE UNCHANGED s
  BY <1>1, <1>3, <1>4, <1>16, Zenon DEF ApprovalInv, ApprovalType, ApprovalPlace, ApprovalRevoked, ApprovalSeen
<1> QED BY <1>6, <1>8, <1>9, <1>10, <1>11, <1>12, <1>14, <1>15, <1>16, Zenon DEF ApprovalNext, RevokeStep

\* hip_approval.rs: an acknowledged revocation is final and an approval is lost
\* to revocation only, for any number of revoking processes and crashes.
THEOREM ApprovalIsDurable == ApprovalSpec => []ApprovalsDurable
<1>2. ApprovalInv => ApprovalsDurable
  <2> SUFFICES ASSUME ApprovalInv PROVE ApprovalsDurable
    OBVIOUS
  <2>1. s.loc \in Places /\ s.renames \in Nat
    BY Zenon DEF ApprovalInv, ApprovalType
  <2>2. ApprovalPlace /\ ApprovalRevoked /\ ApprovalSeen
    BY Zenon DEF ApprovalInv
  <2>3. /\ s.acked = "synced" => s.loc # "target"
        /\ s.status = "corrupt" => s.renames > 0
        /\ s.inst = "done" /\ s.renames = 0 => s.loc = "target"
    BY <2>1, <2>2 DEF ApprovalPlace, ApprovalRevoked, ApprovalSeen, Places
  <2> QED BY <2>3, Zenon DEF ApprovalsDurable, ApprovalInv
<1> QED BY <1>2, ApprovalStarts, ApprovalStep, PTL DEF ApprovalSpec
=============================================================================
