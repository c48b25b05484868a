---------------------------- MODULE QueueSources ----------------------------
(***************************************************************************)
(* The spool of queued files (queue_sources.py): worker threads copy an     *)
(* original into a staging .part, their callers hold a receipt for it and   *)
(* publish it once, and the collector removes what no job, reader or backup *)
(* needs.  Everything that changes published files or their rows runs under *)
(* one guard; job rows, worker threads and pins given back do not.          *)
(*                                                                         *)
(* A blob is the content of a file: its hash names the row and the object.  *)
(* A file that is torn counts as a missing one: both fail verification.     *)
(***************************************************************************)
EXTENDS Naturals, FiniteSets

CONSTANTS
    Blobs, NoBlob,
    Jobs,            \* rows of both queues
    Captures,        \* copies; each has its own token, so none is used twice
    Background,      \* those of legacy hydration
    Rebalanced,      \* those of a moved job, which owns the blob after its publication
    Readers,         \* dispatches and previews that read a published file
    CaptureWorkers,  \* CAPTURE_WORKERS
    MaxFaults        \* bound: crashes, failed file calls, cancellations, lost files

ASSUME BoundAssumption == MaxFaults \in Nat

VARIABLES
    source,          \* queue_sources: state and unreferenced_at of each blob
    ref,             \* queue_source_id of each job
    object, part,    \* files in objects/ and staging/, with their age
    worker, abandoned,         \* the thread of a capture
    caller, content, stagingPins,  \* its caller with the receipt; what was copied
    guard, pub,      \* storage_mutation: its owner; the publication under it
    reader, backup,  \* pins of readers, the pin of a backup
    gc, bootDue,     \* the collector; sweep_after_restart has not run yet
    lost, faults,    \* objects lost on the disk
    handed           \* history: the jobs whose blob came through a rebalance

db    == <<source, ref, handed>>
files == <<object, part>>
copy  == <<worker, abandoned, caller, content, stagingPins>>
lock  == <<guard, pub>>
pins  == <<reader, backup>>
rest  == <<gc, bootDue, lost, faults>>
vars  == <<db, files, copy, lock, pins, rest>>

Free == "free"
Collector == "gc"

(* The guard tells a publication from the collector and from nobody. *)
ASSUME NamesAssumption == {Free, Collector} \cap Captures = {}

Ages == {"none", "young", "old"}
NoPub == [pc |-> "none", created |-> FALSE, moved |-> FALSE, repaired |-> FALSE]
NoGc  == [pc |-> "none", boot |-> FALSE, todo |-> {}, one |-> NoBlob, orphans |-> {}, parts |-> {}]
NoRow == [state |-> "none", mark |-> "none"]

TypeOK ==
    /\ source \in [Blobs -> [state : {"none", "ready", "deleting", "broken"}, mark : Ages]]
    /\ ref \in [Jobs -> Blobs \cup {NoBlob}]
    /\ object \in [Blobs -> Ages] /\ part \in [Captures -> Ages]
    /\ worker \in [Captures -> {"none", "admitted", "registered", "copying", "kept", "failed", "dropping"}]
    /\ caller \in [Captures -> {"none", "waiting", "staged", "publishing", "published", "handover", "holding", "gone"}]
    /\ abandoned \subseteq Captures /\ stagingPins \subseteq Captures
    /\ content \in [Captures -> Blobs]
    /\ guard \in Captures \cup {Free, Collector}
    /\ pub \in [pc : {"none", "install", "attach", "undo"}, created : BOOLEAN, moved : BOOLEAN, repaired : BOOLEAN]
    /\ reader \in [Readers -> [pc : {"none", "read", "pinned"}, blob : Blobs \cup {NoBlob}]]
    /\ backup \in [pc : {"none", "pinned", "copy"}, named : SUBSET Blobs]
    /\ gc \in [pc : {"none", "rows", "unlink", "delete", "ask", "sweep"}, boot : BOOLEAN, todo : SUBSET Blobs,
               one : Blobs \cup {NoBlob}, orphans : SUBSET Blobs, parts : SUBSET Captures]
    /\ bootDue \in BOOLEAN /\ lost \subseteq Blobs /\ faults \in 0 .. MaxFaults
    /\ handed \subseteq Jobs
    /\ guard \in Captures <=> pub.pc # "none"
    /\ guard = Collector <=> gc.pc # "none"

Init ==
    /\ source = [h \in Blobs |-> NoRow] /\ ref = [j \in Jobs |-> NoBlob]
    /\ object = [h \in Blobs |-> "none"] /\ part = [c \in Captures |-> "none"]
    /\ worker = [c \in Captures |-> "none"] /\ caller = [c \in Captures |-> "none"]
    /\ abandoned = {} /\ stagingPins = {} /\ content \in [Captures -> Blobs]
    /\ guard = Free /\ pub = NoPub
    /\ reader = [r \in Readers |-> [pc |-> "none", blob |-> NoBlob]]
    /\ backup = [pc |-> "none", named |-> {}]
    /\ gc = NoGc /\ bootDue = TRUE /\ lost = {} /\ faults = 0
    /\ handed = {}

Fault == faults < MaxFaults /\ faults' = faults + 1

InFlight == {c \in Captures : worker[c] \in {"admitted", "registered", "copying"}}

(* Mutant: only the receipts count, a worker at its copy does not. *)
StagingInUseByReceipts == stagingPins

(* staging_in_use: a path a live worker has named, or a receipt owns. *)
StagingInUse == {c \in Captures : worker[c] \in {"registered", "copying"}} \cup stagingPins

Owned(h)  == \E j \in Jobs : ref[j] = h
(* Mutant: a backup pins nothing. *)
PinnedByReaders(h) ==
    \/ \E r \in Readers : reader[r] = [pc |-> "pinned", blob |-> h]
    \/ \E c \in Captures : caller[c] = "holding" /\ content[c] = h

Pinned(h) ==
    \/ backup.pc # "none"
    \/ \E r \in Readers : reader[r] = [pc |-> "pinned", blob |-> h]
    \/ \E c \in Captures : caller[c] = "holding" /\ content[c] = h

Intact(h) == object[h] # "none"         \* _verify_object

-----------------------------------------------------------------------------
(* The worker of a capture, and the caller that waits for it.               *)

(* _admit: a slot or a refusal, never a queue. *)
Admit(c) ==
    /\ caller[c] = "none" /\ worker[c] = "none"
    /\ Cardinality(InFlight) < CaptureWorkers
    /\ c \in Background => InFlight \cap Background = {}
    /\ worker' = [worker EXCEPT ![c] = "admitted"]
    /\ caller' = [caller EXCEPT ![c] = "waiting"]
    /\ UNCHANGED <<db, files, abandoned, content, stagingPins, lock, pins, rest>>

(* The path is named in RAM before the file exists. *)
WorkerNamesPart(c) ==
    /\ worker[c] = "admitted"
    /\ worker' = [worker EXCEPT ![c] = "registered"]
    /\ UNCHANGED <<db, files, abandoned, caller, content, stagingPins, lock, pins, rest>>

WorkerOpensPart(c) ==
    /\ worker[c] = "registered" /\ c \notin abandoned
    /\ worker' = [worker EXCEPT ![c] = "copying"]
    /\ part' = [part EXCEPT ![c] = "young"]
    /\ UNCHANGED <<db, object, abandoned, caller, content, stagingPins, lock, pins, rest>>

(* _finish: leaving the slot and handing the bytes over are one step. *)
WorkerKeeps(c) ==
    /\ worker[c] = "copying" /\ c \notin abandoned
    /\ worker' = [worker EXCEPT ![c] = "kept"]
    /\ stagingPins' = stagingPins \cup {c}
    /\ UNCHANGED <<db, files, abandoned, caller, content, lock, pins, rest>>

(* An unreadable original, a full disk, a stop, or bytes nobody waits for. *)
WorkerFails(c) ==
    /\ c \in InFlight
    /\ worker' = [worker EXCEPT ![c] = IF @ = "admitted" THEN "failed" ELSE "dropping"]
    /\ UNCHANGED <<db, files, abandoned, caller, content, stagingPins, lock, pins, rest>>

(* Only the owner of a .part unlinks it: its worker, or who gave it up. *)
Drop(c) ==
    /\ worker[c] = "dropping"
    /\ part' = [part EXCEPT ![c] = "none"]
    /\ worker' = [worker EXCEPT ![c] = "failed"]
    /\ UNCHANGED <<db, object, abandoned, caller, content, stagingPins, lock, pins, rest>>

Worker(c) == WorkerNamesPart(c) \/ WorkerOpensPart(c) \/ WorkerKeeps(c) \/ WorkerFails(c)

Receive(c) ==
    /\ caller[c] = "waiting" /\ worker[c] \in {"kept", "failed"}
    /\ caller' = [caller EXCEPT ![c] = IF worker[c] = "kept" THEN "staged" ELSE "gone"]
    /\ UNCHANGED <<db, files, worker, abandoned, content, stagingPins, lock, pins, rest>>

(* Mutant: bytes handed over to a caller that has gone stay pinned. *)
GiveUpLeavesBytes(c) ==
    /\ caller[c] = "waiting"
    /\ caller' = [caller EXCEPT ![c] = "gone"]
    /\ abandoned' = IF c \in InFlight THEN abandoned \cup {c} ELSE abandoned
    /\ UNCHANGED <<db, files, worker, content, stagingPins, lock, pins, rest>>

(* A deadline or a cancelled request.  A worker still at it keeps its slot   *)
(* until the system call returns; bytes already handed over are let go.     *)
GiveUp(c) ==
    /\ caller[c] = "waiting"
    /\ caller' = [caller EXCEPT ![c] = "gone"]
    /\ abandoned' = IF c \in InFlight THEN abandoned \cup {c} ELSE abandoned
    /\ stagingPins' = stagingPins \ {c}
    /\ worker' = IF c \in stagingPins THEN [worker EXCEPT ![c] = "dropping"] ELSE worker
    /\ UNCHANGED <<db, files, content, lock, pins, rest>>

(* The caller decides against the job. *)
Discard(c) ==
    /\ caller[c] = "staged"
    /\ caller' = [caller EXCEPT ![c] = "gone"]
    /\ stagingPins' = stagingPins \ {c}
    /\ worker' = [worker EXCEPT ![c] = "dropping"]
    /\ UNCHANGED <<db, files, abandoned, content, lock, pins, rest>>

-----------------------------------------------------------------------------
(* Publication.                                                             *)

PublishBegin(c) ==
    /\ caller[c] = "staged"
    /\ caller' = [caller EXCEPT ![c] = "publishing"]
    /\ UNCHANGED <<db, files, worker, abandoned, content, stagingPins, lock, pins, rest>>

(* What an already known hash means for these bytes. *)
Reuse(h)  == source[h].state = "ready" /\ Intact(h)
Busy(h)   == source[h].state = "deleting" \/ (source[h].state # "none" /\ ~Reuse(h) /\ Pinned(h))
(* Mutant: the publication does not wait for the storage guard. *)
PublishLooksUpUnguarded(c) ==
    LET h == content[c] IN
    /\ caller[c] = "publishing" /\ pub = NoPub
    /\ ~Busy(h)
    /\ guard' = c
    /\ pub' = [pc |-> IF Reuse(h) \/ (source[h].state = "broken" /\ Intact(h)) THEN "attach" ELSE "install",
               created |-> source[h].state = "none", moved |-> FALSE,
               repaired |-> source[h].state # "none" /\ ~Reuse(h)]
    /\ UNCHANGED <<db, files, copy, pins, rest>>

PublishLooksUp(c) ==
    LET h == content[c] IN
    /\ caller[c] = "publishing" /\ guard = Free
    /\ IF Busy(h)
       THEN /\ caller' = [caller EXCEPT ![c] = "staged"]
            /\ UNCHANGED lock
       ELSE /\ guard' = c
            /\ pub' = [pc |-> IF Reuse(h) \/ (source[h].state = "broken" /\ Intact(h)) THEN "attach" ELSE "install",
                       created |-> source[h].state = "none", moved |-> FALSE,
                       repaired |-> source[h].state # "none" /\ ~Reuse(h)]
            /\ UNCHANGED caller
    /\ UNCHANGED <<db, files, worker, abandoned, content, stagingPins, pins, rest>>

(* os.replace; the file keeps the age of its staging time. *)
PublishInstalls(c) ==
    /\ guard = c /\ pub.pc = "install" /\ part[c] # "none"
    /\ object' = [object EXCEPT ![content[c]] = part[c]]
    /\ part' = [part EXCEPT ![c] = "none"]
    /\ pub' = [pub EXCEPT !.pc = "attach", !.moved = TRUE]
    /\ lost' = lost \ {content[c]}
    /\ UNCHANGED <<db, copy, guard, pins, gc, bootDue, faults>>

(* Nothing moved, and the receipt is good for another try; or the request   *)
(* was cancelled with the file already moved, and the receipt is spent.     *)
InstallFails(c) ==
    /\ Fault
    /\ guard = c /\ pub.pc = "install"
    /\ \/ /\ caller' = [caller EXCEPT ![c] = "staged"]
          /\ UNCHANGED <<files, stagingPins, lost>>
       \/ /\ part[c] # "none"
          /\ object' = [object EXCEPT ![content[c]] = part[c]]
          /\ part' = [part EXCEPT ![c] = "none"]
          /\ lost' = lost \ {content[c]}
          /\ caller' = [caller EXCEPT ![c] = "gone"]
          /\ stagingPins' = stagingPins \ {c}
    /\ guard' = Free /\ pub' = NoPub
    /\ UNCHANGED <<db, worker, abandoned, content, pins, gc, bootDue>>

(* The row, the caller's rows and the receipt, in one commit.  The blob of  *)
(* a rebalanced job is published without an owner.  A caller cancelled      *)
(* after the commit learns nothing and its duplicate is left to the sweep.  *)
PublishCommits(c) ==
    LET h == content[c]
        new == {j \in Jobs : ref[j] = NoBlob}
    IN
    /\ guard = c /\ pub.pc = "attach"
    /\ source' = [source EXCEPT ![h].state = "ready",
                                ![h].mark = IF pub.created \/ pub.repaired THEN "none" ELSE @]
    /\ IF c \in Rebalanced
       THEN ref' = ref /\ caller' = [caller EXCEPT ![c] = "handover"]
       ELSE /\ \E j \in new : ref' = [ref EXCEPT ![j] = h]
            /\ caller' = [caller EXCEPT ![c] = "published"]
    /\ stagingPins' = stagingPins \ {c}
    /\ worker' = [worker EXCEPT ![c] = "dropping"]
    /\ guard' = Free /\ pub' = NoPub
    /\ UNCHANGED <<files, abandoned, content, pins, gc, bootDue, lost, faults, handed>>

(* attach refuses or the transaction fails: rolled back, and the new object *)
(* is removed again.                                                        *)
PublishFails(c) ==
    /\ guard = c /\ pub.pc = "attach"
    /\ pub' = [pub EXCEPT !.pc = "undo"]
    /\ UNCHANGED <<db, files, copy, guard, pins, rest>>

PublishUndoes(c) ==
    /\ guard = c /\ pub.pc = "undo"
    /\ object' = IF pub.created THEN [object EXCEPT ![content[c]] = "none"] ELSE object
    /\ caller' = [caller EXCEPT ![c] = IF pub.moved THEN "gone" ELSE "staged"]
    /\ stagingPins' = IF pub.moved THEN stagingPins \ {c} ELSE stagingPins
    /\ guard' = Free /\ pub' = NoPub
    /\ UNCHANGED <<db, part, worker, abandoned, content, pins, rest>>

Publish(c) ==
    PublishLooksUp(c) \/ PublishInstalls(c) \/ PublishCommits(c) \/ PublishFails(c) \/ PublishUndoes(c)

(* A rebalanced job: pinned after the publication, owned after its commit. *)
HandoverPins(c) ==
    /\ caller[c] = "handover" /\ guard = Free
    /\ caller' = [caller EXCEPT ![c] = "holding"]
    /\ UNCHANGED <<db, files, worker, abandoned, content, stagingPins, lock, pins, rest>>

HandoverEnds(c) ==
    /\ caller[c] = "holding"
    /\ \/ \E j \in Jobs : /\ ref[j] = NoBlob
                         /\ ref' = [ref EXCEPT ![j] = content[c]]
                         /\ handed' = handed \cup {j}
       \/ UNCHANGED <<ref, handed>>
    /\ caller' = [caller EXCEPT ![c] = "gone"]
    /\ UNCHANGED <<source, files, worker, abandoned, content, stagingPins, lock, pins, rest>>

-----------------------------------------------------------------------------
(* Jobs, readers and backups.                                               *)

(* Mutant: the state is read first and the guard never taken. *)
CloneUnguarded(j, h) ==
    /\ ref[j] = NoBlob /\ source[h].state = "ready"
    /\ ref' = [ref EXCEPT ![j] = h]
    /\ UNCHANGED <<source, handed, files, copy, lock, pins, rest>>

(* reusing_sources: a clone, retry or repeat of a job read some time ago. *)
Clone(j, h) ==
    /\ ref[j] = NoBlob
    /\ guard = Free /\ source[h].state = "ready"
    /\ ref' = [ref EXCEPT ![j] = h]
    /\ UNCHANGED <<source, handed, files, copy, lock, pins, rest>>

(* The router's row is promoted without the guard: it is read live. *)
Promote(i, j) ==
    /\ ref[i] # NoBlob /\ ref[j] = NoBlob
    /\ ref' = [ref EXCEPT ![j] = ref[i]]
    /\ handed' = IF i \in handed THEN handed \cup {j} ELSE handed
    /\ UNCHANGED <<source, files, copy, lock, pins, rest>>

JobGoes(j) ==
    /\ ref[j] # NoBlob
    /\ ref' = [ref EXCEPT ![j] = NoBlob] /\ handed' = handed \ {j}
    /\ UNCHANGED <<source, files, copy, lock, pins, rest>>

ReaderReads(r) ==
    /\ reader[r].pc = "none"
    /\ \E j \in Jobs : ref[j] # NoBlob /\ reader' = [reader EXCEPT ![r] = [pc |-> "read", blob |-> ref[j]]]
    /\ UNCHANGED <<db, files, copy, lock, backup, rest>>
(* Mutant: the pin does not wait for the storage guard. *)
ReaderPinsAtOnce(r) ==
    /\ reader[r].pc = "read"
    /\ reader' = [reader EXCEPT ![r].pc = "pinned"]
    /\ UNCHANGED <<db, files, copy, lock, backup, rest>>

ReaderPins(r) ==
    /\ reader[r].pc = "read" /\ guard = Free
    /\ reader' = [reader EXCEPT ![r].pc = "pinned"]
    /\ UNCHANGED <<db, files, copy, lock, backup, rest>>

ReaderEnds(r) ==
    /\ reader[r].pc = "pinned"
    /\ reader' = [reader EXCEPT ![r] = [pc |-> "none", blob |-> NoBlob]]
    /\ UNCHANGED <<db, files, copy, lock, backup, rest>>

BackupPins ==
    /\ backup.pc = "none" /\ guard = Free
    /\ backup' = [pc |-> "pinned", named |-> {}]
    /\ UNCHANGED <<db, files, copy, lock, reader, rest>>

BackupDumps ==
    /\ backup.pc = "pinned"
    /\ backup' = [pc |-> "copy", named |-> {h \in Blobs : source[h].state = "ready"}]
    /\ UNCHANGED <<db, files, copy, lock, reader, rest>>

BackupEnds ==
    /\ backup.pc = "copy"
    /\ backup' = [pc |-> "none", named |-> {}]
    /\ UNCHANGED <<db, files, copy, lock, reader, rest>>

-----------------------------------------------------------------------------
(* The collector.                                                           *)

(* The rows, the owners and the pins, read under the guard: a tombstone     *)
(* somebody wants again is verified, an unowned row starts or spends its    *)
(* grace.                                                                   *)
GcReads(boot) ==
    LET held(h) == Owned(h) \/ Pinned(h)
        row(h)  == source[h]
    IN
    /\ gc.pc = "none" /\ guard = Free
    /\ boot => bootDue
    /\ guard' = Collector
    /\ source' = [h \in Blobs |->
         CASE row(h).state = "none"                        -> row(h)
           [] row(h).state = "deleting" /\ held(h)         -> [state |-> IF Intact(h) THEN "ready" ELSE "broken",
                                                               mark |-> "none"]
           [] row(h).state = "deleting" /\ ~held(h)        -> row(h)
           [] row(h).state \in {"ready", "broken"} /\ Owned(h) -> [row(h) EXCEPT !.mark = "none"]
           [] OTHER -> IF ~held(h) /\ row(h).mark = "none" THEN [row(h) EXCEPT !.mark = "young"] ELSE row(h)]
    /\ gc' = [NoGc EXCEPT !.pc = "rows", !.boot = boot,
                !.todo = {h \in Blobs : ~held(h) /\ (row(h).state = "deleting" \/ row(h).mark = "old")}]
    /\ bootDue' = (bootDue /\ ~boot)
    /\ UNCHANGED <<ref, handed, files, copy, pub, pins, lost, faults>>

(* Mutant: the unlink comes before the tombstone. *)
GcEntombsLate(h) ==
    /\ gc.pc = "rows" /\ h \in gc.todo
    /\ gc' = [gc EXCEPT !.pc = "unlink", !.one = h, !.todo = @ \ {h}]
    /\ UNCHANGED <<db, files, copy, lock, pins, bootDue, lost, faults>>

(* The tombstone is committed before the unlink. *)
GcEntombs(h) ==
    /\ gc.pc = "rows" /\ h \in gc.todo
    /\ source' = [source EXCEPT ![h].state = "deleting"]
    /\ gc' = [gc EXCEPT !.pc = "unlink", !.one = h, !.todo = @ \ {h}]
    /\ UNCHANGED <<ref, handed, files, copy, lock, pins, bootDue, lost, faults>>

GcUnlinks ==
    /\ gc.pc = "unlink"
    /\ object' = [object EXCEPT ![gc.one] = "none"]
    /\ lost' = lost \ {gc.one}
    /\ gc' = [gc EXCEPT !.pc = "delete"]
    /\ UNCHANGED <<db, part, copy, lock, pins, bootDue, faults>>

GcUnlinkFails ==
    /\ Fault
    /\ gc.pc = "unlink"
    /\ gc' = [gc EXCEPT !.pc = "rows", !.one = NoBlob]
    /\ UNCHANGED <<db, files, copy, lock, pins, bootDue, lost>>

GcDeletes ==
    /\ gc.pc = "delete"
    /\ source' = [source EXCEPT ![gc.one] = NoRow]
    /\ gc' = [gc EXCEPT !.pc = "rows", !.one = NoBlob]
    /\ UNCHANGED <<ref, handed, files, copy, lock, pins, bootDue, lost, faults>>

(* The walk: files no row names, and every .part.  Old enough as it was     *)
(* seen; the restart waives the age of a .part.                             *)
GcScans ==
    /\ gc.pc = "rows" /\ gc.todo = {}
    /\ gc' = [gc EXCEPT !.pc = "ask",
                        !.orphans = {h \in Blobs : source[h].state = "none" /\ object[h] = "old"},
                        !.parts = {c \in Captures : part[c] = "old" \/ (gc.boot /\ part[c] # "none")}]
    /\ UNCHANGED <<db, files, copy, lock, pins, bootDue, lost, faults>>

(* Who uses a .part is asked after the walk, never before. *)
GcAsks ==
    /\ gc.pc = "ask"
    /\ gc' = [gc EXCEPT !.pc = "sweep", !.parts = @ \ StagingInUse]
    /\ UNCHANGED <<db, files, copy, lock, pins, bootDue, lost, faults>>

GcSweeps ==
    /\ gc.pc = "sweep"
    /\ object' = [h \in Blobs |-> IF h \in gc.orphans THEN "none" ELSE object[h]]
    /\ part' = [c \in Captures |-> IF c \in gc.parts THEN "none" ELSE part[c]]
    /\ gc' = NoGc /\ guard' = Free
    /\ UNCHANGED <<db, copy, pub, pins, bootDue, lost, faults>>

Collect ==
    \/ \E boot \in BOOLEAN : GcReads(boot)
    \/ \E h \in Blobs : GcEntombs(h)
    \/ GcUnlinks \/ GcDeletes \/ GcScans \/ GcAsks \/ GcSweeps

-----------------------------------------------------------------------------
(* Time and faults.                                                         *)

Older(age) == IF age = "young" THEN "old" ELSE age

(* An hour passes: ORPHAN_GRACE_SECONDS.  It takes no hour from a           *)
(* publication to the pin of its rebalance.                                 *)
Hour ==
    /\ \A c \in Captures : caller[c] # "handover"
    /\ source' = [h \in Blobs |-> [source[h] EXCEPT !.mark = Older(@)]]
    /\ object' = [h \in Blobs |-> Older(object[h])]
    /\ part' = [c \in Captures |-> Older(part[c])]
    /\ UNCHANGED <<ref, handed, copy, lock, pins, rest>>

(* The disk loses a published file. *)
Lose(h) ==
    /\ Fault
    /\ object[h] # "none"
    /\ object' = [object EXCEPT ![h] = "none"]
    /\ lost' = lost \cup {h}
    /\ UNCHANGED <<db, part, copy, lock, pins, gc, bootDue>>

Crash ==
    /\ Fault
    /\ worker' = [c \in Captures |-> "none"] /\ abandoned' = {} /\ stagingPins' = {}
    /\ caller' = [c \in Captures |-> IF caller[c] = "none" THEN "none" ELSE "gone"]
    /\ guard' = Free /\ pub' = NoPub
    /\ reader' = [r \in Readers |-> [pc |-> "none", blob |-> NoBlob]]
    /\ backup' = [pc |-> "none", named |-> {}]
    /\ gc' = NoGc /\ bootDue' = TRUE
    /\ UNCHANGED <<db, files, content, lost>>

-----------------------------------------------------------------------------

Capture(c) ==
    \/ Admit(c) \/ Worker(c) \/ Drop(c) \/ Receive(c) \/ GiveUp(c) \/ Discard(c)
    \/ PublishBegin(c) \/ Publish(c) \/ InstallFails(c)
    \/ HandoverPins(c) \/ HandoverEnds(c)

Job(j) == JobGoes(j) \/ (\E h \in Blobs : Clone(j, h)) \/ (\E i \in Jobs : Promote(i, j))

Next ==
    \/ \E c \in Captures : Capture(c)
    \/ \E j \in Jobs : Job(j)
    \/ \E r \in Readers : ReaderReads(r) \/ ReaderPins(r) \/ ReaderEnds(r)
    \/ BackupPins \/ BackupDumps \/ BackupEnds
    \/ Collect \/ GcUnlinkFails
    \/ Hour \/ (\E h \in Blobs : Lose(h)) \/ Crash

(* The collector's loop runs on and time passes; a publication that holds   *)
(* the guard comes to an end, and a file call to drop a .part returns.      *)
(* Nothing is assumed of a copy, which a dead share may hang for ever.      *)
Fairness ==
    /\ WF_vars(Collect) /\ WF_vars(Hour)
    /\ \A c \in Captures : WF_vars(Publish(c)) /\ WF_vars(Drop(c))

Spec == Init /\ [][Next]_vars /\ Fairness

-----------------------------------------------------------------------------
(* Properties.                                                              *)

(* A job never names a blob whose row is gone or on its way out, whatever   *)
(* the collector decided meanwhile.  Jobs whose blob came through a         *)
(* rebalance are told apart: see EveryJobNamesASource.                      *)
JobsNameLiveSources ==
    \A j \in Jobs \ handed : ref[j] # NoBlob => source[ref[j]].state \in {"ready", "broken"}

(* The commit never precedes the file, and an unlink never the tombstone:   *)
(* a ready row has its bytes through every crash and failed file call,      *)
(* unless the disk lost them.                                               *)
ReadyHasBytes == \A h \in Blobs \ lost : source[h].state = "ready" => Intact(h)

(* The bytes of a copy still running or of a receipt not yet published are  *)
(* there: no sweep takes a .part from under its writer or its owner.        *)
StagedBytesStay ==
    \A c \in Captures :
        worker[c] = "copying" \/ caller[c] = "staged" \/ (caller[c] = "publishing" /\ guard # c) => part[c] # "none"

(* What a backup's database names, its file copy still finds. *)
BackupIsWhole == \A h \in backup.named \ lost : Intact(h)

(* The file of a row somebody holds is never removed, whatever was decided  *)
(* about it before the pin was there (the disk aside).                      *)
PinnedFileStays ==
    [][\A h \in Blobs : Intact(h) /\ Pinned(h) /\ source[h].state # "none"
                          => Intact(h)' \/ h \in lost']_vars

(* Nothing stays in the spool for nothing: a file no row names and nobody   *)
(* publishes, and a staged copy nobody owns, go in the end.                 *)
GarbageGoes ==
    /\ \A h \in Blobs : (Intact(h) /\ source[h].state = "none") ~> (~Intact(h) \/ source[h].state # "none")
    /\ \A c \in Captures :
         (part[c] # "none" /\ caller[c] = "gone" /\ worker[c] \notin {"registered", "copying"}) ~> (part[c] = "none")

(* A rebalanced job, too, names a blob that exists: "a pin is what section  *)
(* 9 offers for exactly that gap" (queue_rebalance.py).                     *)
EveryJobNamesASource == \A j \in Jobs : ref[j] # NoBlob => source[ref[j]].state # "none"
=============================================================================
