----------------------------- MODULE FarmStartup -----------------------------
(***************************************************************************)
(* The durable start-up latch of the farm (services/farm_startup_guard.py). *)
(*                                                                         *)
(* One installation has one record, state.json (disk), and one OS lock,    *)
(* owner.lock (lock).  A server process reads the record when it starts,   *)
(* keeps a copy in RAM (ram) and admits new work only while Allowed says   *)
(* so.  A record that does not say "clean" leaves a hold behind; only an   *)
(* operator, or the proof that the store was just created, removes it.     *)
(*                                                                         *)
(* A write of the record is a rename followed by an fsync of the           *)
(* directory (_write), so a write that raises OSError may or may not have  *)
(* replaced the file: Saved and SaveFails below.                           *)
(*                                                                         *)
(* epoch and reviewed are history variables.  epoch counts the events an   *)
(* operator has to look at before the farm prints again: an owner that     *)
(* died with admitted work, and a restore.  reviewed is the epoch the last *)
(* release answered for.                                                   *)
(***************************************************************************)
EXTENDS Naturals

CONSTANTS
    Procs,          \* server processes that may be started on the data directory
    Operators,      \* people with an open "resume" dialog
    NoProc,         \* nobody holds owner.lock
    LocklessStarts, \* may start() fail before it owns the lock?
    MaxBoots,       \* bound: successful readings of the record by start()
    MaxHolds,       \* bound: hold ids handed out
    MaxEpoch        \* bound: events that call for a review

ASSUME ConstantsAssumption ==
    /\ NoProc \notin Procs
    /\ LocklessStarts \in BOOLEAN
    /\ MaxBoots \in Nat /\ MaxHolds \in Nat /\ MaxEpoch \in Nat

VARIABLES
    lock,            \* who holds owner.lock
    disk,            \* state.json
    pc,              \* where each process is in its lifespan
    ram,             \* FarmStartupGuard.state
    ready, stopping, storageError, readinessFailed, restartRequired,
    nextBoot, nextHold,
    dialog,          \* what the operator's open dialog shows
    worked,          \* has this boot admitted work?
    epoch, reviewed

flags == <<ready, stopping, storageError, readinessFailed, restartRequired>>
vars  == <<lock, disk, pc, ram, flags, nextBoot, nextHold, dialog, worked,
           epoch, reviewed>>

-----------------------------------------------------------------------------
(* Records.  0 is "no id". *)

Reasons == {"unclean_shutdown", "previous_run_unknown", "restore"}
NoHold  == [id |-> 0, reason |-> "none"]
NoAck   == [boot |-> 0, hold |-> 0]
Hold    == [id : Nat, reason : Reasons \cup {"none"}]
Record  == [boot : Nat, lifecycle : {"absent", "running", "clean"},
            hold : Hold, ack : [boot : Nat, hold : Nat]]

(* {} in RAM; a file that is missing, damaged or fails _valid on disk. *)
Blank == [boot |-> 0, lifecycle |-> "absent", hold |-> NoHold, ack |-> NoAck]

(* {**state, ...}: the same boot with another lifecycle, hold or ack. *)
Update(r, lifecycle, hold, ack) ==
    [boot |-> r.boot, lifecycle |-> lifecycle, hold |-> hold, ack |-> ack]

Valid(r) == r.boot # 0
Held(r)  == r.hold.id # 0

(* A file whose record has no boot is one the next start() cannot use. *)
OnDisk(r) == IF Valid(r) THEN r ELSE Blank

Saved(r)     == disk' = OnDisk(r)
SaveFails(r) == disk' \in {disk, OnDisk(r)}

(* FarmStartupGuard.allowed: what every admission of new work asks. *)
Allowed(p) ==
    /\ pc[p] # "down"
    /\ ready[p] /\ ~stopping[p] /\ ~storageError[p]
    /\ ~Held(ram[p])
    /\ ~readinessFailed[p] /\ ~restartRequired[p]

TypeOK ==
    /\ lock \in Procs \cup {NoProc}
    /\ disk \in Record
    /\ pc \in [Procs -> {"down", "locked", "init", "app", "closing", "unlocking"}]
    /\ ram \in [Procs -> Record]
    /\ ready \in [Procs -> BOOLEAN]
    /\ stopping \in [Procs -> BOOLEAN]
    /\ storageError \in [Procs -> BOOLEAN]
    /\ readinessFailed \in [Procs -> BOOLEAN]
    /\ restartRequired \in [Procs -> BOOLEAN]
    /\ nextBoot \in Nat \ {0}
    /\ nextHold \in Nat \ {0}
    /\ dialog \in [Operators -> [boot : Nat, hold : Nat, epoch : Nat]]
    /\ worked \in [Procs -> BOOLEAN]
    /\ epoch \in Nat
    /\ reviewed \in Nat

Init ==
    /\ lock = NoProc
    /\ disk = Blank
    /\ pc = [p \in Procs |-> "down"]
    /\ ram = [p \in Procs |-> Blank]
    /\ ready = [p \in Procs |-> FALSE]
    /\ stopping = [p \in Procs |-> FALSE]
    /\ storageError = [p \in Procs |-> FALSE]
    /\ readinessFailed = [p \in Procs |-> FALSE]
    /\ restartRequired = [p \in Procs |-> FALSE]
    /\ nextBoot = 1
    /\ nextHold = 1
    /\ dialog = [o \in Operators |-> [boot |-> 0, hold |-> 0, epoch |-> 0]]
    /\ worked = [p \in Procs |-> FALSE]
    /\ epoch = 0
    /\ reviewed = 0

-----------------------------------------------------------------------------
(* start(), in a process that has just been created: FarmStartupGuard's     *)
(* fields are those of __init__.  A process that finds the lock taken       *)
(* raises owner_alive and exits: it changes nothing.                        *)

StartLock(p) ==
    /\ pc[p] = "down"
    /\ lock = NoProc
    /\ lock' = p
    /\ pc' = [pc EXCEPT ![p] = "locked"]
    /\ UNCHANGED <<disk, ram, flags, nextBoot, nextHold, dialog, worked, epoch, reviewed>>

(* Mutant: the OSError is logged and not remembered. *)
StartWithoutLockForgotten(p) ==
    /\ LocklessStarts
    /\ pc[p] = "down"
    /\ pc' = [pc EXCEPT ![p] = "init"]
    /\ UNCHANGED <<lock, disk, ram, flags, nextBoot, nextHold, dialog, worked, epoch, reviewed>>

(* OSError before the lock is owned: the server runs on, admission closed. *)
StartWithoutLock(p) ==
    /\ LocklessStarts
    /\ pc[p] = "down"
    /\ pc' = [pc EXCEPT ![p] = "init"]
    /\ storageError' = [storageError EXCEPT ![p] = TRUE]
    /\ UNCHANGED <<lock, disk, ram, ready, stopping, readinessFailed, restartRequired,
                   nextBoot, nextHold, dialog, worked, epoch, reviewed>>

(* Mutant: only a missing record calls for a hold. *)
HoldDueWithoutRecord(previous) == ~Held(previous) /\ ~Valid(previous)

(* A fresh hold is due when none was left and the last run is not known to *)
(* have ended cleanly.                                                     *)
HoldDue(previous) == ~Held(previous) /\ previous.lifecycle # "clean"

(* Mutant: a reason that _valid does not know. *)
StartStateUnknownReason(previous) ==
    [boot |-> nextBoot,
     lifecycle |-> "running",
     hold |-> IF HoldDue(previous) THEN [id |-> nextHold, reason |-> "crash"] ELSE previous.hold,
     ack |-> previous.ack]

(* Mutant: a clean shutdown is taken to have settled the hold it left. *)
StartStateForgetsHold(previous) ==
    [boot |-> nextBoot,
     lifecycle |-> "running",
     hold |-> IF previous.lifecycle = "clean" THEN NoHold
              ELSE [id |-> nextHold, reason |-> "unclean_shutdown"],
     ack |-> previous.ack]

StartState(previous) ==
    [boot |-> nextBoot,
     lifecycle |-> "running",
     hold |-> IF HoldDue(previous)
              THEN [id |-> nextHold,
                    reason |-> IF Valid(previous) THEN "unclean_shutdown"
                                                  ELSE "previous_run_unknown"]
              ELSE previous.hold,
     ack |-> previous.ack]

StartRecord(p) ==
    LET state == StartState(disk) IN
    /\ pc[p] = "locked"
    /\ nextBoot < MaxBoots /\ nextHold < MaxHolds
    /\ nextBoot' = nextBoot + 1
    /\ nextHold' = IF HoldDue(disk) THEN nextHold + 1 ELSE nextHold
    /\ \/ Saved(state) /\ ram' = [ram EXCEPT ![p] = state] /\ UNCHANGED storageError
       \/ /\ SaveFails(state)
          /\ storageError' = [storageError EXCEPT ![p] = TRUE]
          /\ UNCHANGED ram
    /\ pc' = [pc EXCEPT ![p] = "init"]
    /\ UNCHANGED <<lock, ready, stopping, readinessFailed, restartRequired,
                   dialog, worked, epoch, reviewed>>

-----------------------------------------------------------------------------
(* The application's own start-up, then startup.complete. *)

(* init_db has just created the store: nothing older can be lost.  Any other *)
(* answer of init_db leaves the guard as it is.                             *)
AdmitNewInstallation(p) ==
    LET state == Update(ram[p], ram[p].lifecycle, NoHold, ram[p].ack) IN
    /\ pc[p] = "init"
    /\ ram[p].hold.reason = "previous_run_unknown" /\ ram[p].ack = NoAck
    /\ ~storageError[p] /\ ~stopping[p] /\ ~restartRequired[p]
    /\ ~ready[p] /\ ~readinessFailed[p]
    /\ \/ /\ Saved(state)
          /\ ram' = [ram EXCEPT ![p] = state]
          /\ reviewed' = epoch
          /\ UNCHANGED storageError
       \/ /\ SaveFails(state)
          /\ storageError' = [storageError EXCEPT ![p] = TRUE]
          /\ UNCHANGED <<ram, reviewed>>
    /\ UNCHANGED <<lock, pc, ready, stopping, readinessFailed, restartRequired,
                   nextBoot, nextHold, dialog, worked, epoch>>

(* The sweep of interrupted claims raised. *)
ReadinessFails(p) ==
    /\ pc[p] = "init"
    /\ readinessFailed' = [readinessFailed EXCEPT ![p] = TRUE]
    /\ UNCHANGED <<lock, disk, pc, ram, ready, stopping, storageError,
                   restartRequired, nextBoot, nextHold, dialog, worked, epoch, reviewed>>

MarkReady(p) ==
    /\ pc[p] = "init"
    /\ pc' = [pc EXCEPT ![p] = "app"]
    /\ ready' = [ready EXCEPT ![p] =
                    ~stopping[p] /\ ~storageError[p] /\ ~readinessFailed[p]]
    /\ UNCHANGED <<lock, disk, ram, stopping, storageError, readinessFailed,
                   restartRequired, nextBoot, nextHold, dialog, worked, epoch, reviewed>>

-----------------------------------------------------------------------------
(* The running server. *)

(* Any guarded consumer (scheduler claim, dispatch, drying) starts work. *)
AdmitWork(p) ==
    /\ Allowed(p)
    /\ ~worked[p]
    /\ worked' = [worked EXCEPT ![p] = TRUE]
    /\ UNCHANGED <<lock, disk, pc, ram, flags, nextBoot, nextHold, dialog,
                   epoch, reviewed>>

(* hold("restore"), called before a restore touches any data; when it      *)
(* raises, the restore does not run.  No lock and no storage check here.   *)
HoldForRestore(p) ==
    LET state == Update(ram[p], ram[p].lifecycle,
                        [id |-> nextHold, reason |-> "restore"], ram[p].ack) IN
    /\ pc[p] = "app"
    /\ nextHold < MaxHolds /\ epoch < MaxEpoch
    /\ nextHold' = nextHold + 1
    /\ restartRequired' = [restartRequired EXCEPT ![p] = TRUE]
    /\ \/ /\ Saved(state)
          /\ ram' = [ram EXCEPT ![p] = state]
          /\ epoch' = epoch + 1
          /\ UNCHANGED storageError
       \/ /\ SaveFails(state)
          /\ storageError' = [storageError EXCEPT ![p] = TRUE]
          /\ UNCHANGED <<ram, epoch>>
    /\ UNCHANGED <<lock, pc, ready, stopping, readinessFailed, nextBoot, dialog,
                   worked, reviewed>>

(* GET farm-startup: the operator's browser shows the hold of this moment. *)
OpenDialog(p, o) ==
    /\ pc[p] = "app" /\ Held(ram[p])
    /\ dialog' = [dialog EXCEPT ![o] = [boot |-> ram[p].boot, hold |-> ram[p].hold.id,
                                        epoch |-> epoch]]
    /\ UNCHANGED <<lock, disk, pc, ram, flags, nextBoot, nextHold, worked, epoch, reviewed>>

(* resume(boot_id, hold_id): every other outcome refuses and changes       *)
(* nothing, "already_released" included.                                   *)
Resumable(p, d) ==
    /\ pc[p] = "app"
    /\ ~storageError[p]
    /\ ready[p] /\ ~stopping[p] /\ ~readinessFailed[p]
    /\ d.boot = ram[p].boot
    /\ Held(ram[p]) /\ d.hold = ram[p].hold.id
    /\ ~restartRequired[p]

(* Mutant: admission opens in RAM though the write has failed. *)
ResumeBeforeSave(p, o) ==
    LET d     == dialog[o]
        state == Update(ram[p], ram[p].lifecycle, NoHold,
                        [boot |-> d.boot, hold |-> d.hold])
    IN  /\ Resumable(p, d)
        /\ Saved(state) \/ SaveFails(state)
        /\ ram' = [ram EXCEPT ![p] = state]
        /\ reviewed' = d.epoch
        /\ UNCHANGED <<lock, pc, flags, nextBoot, nextHold, dialog, worked, epoch>>

Resume(p, o) ==
    LET d     == dialog[o]
        state == Update(ram[p], ram[p].lifecycle, NoHold,
                        [boot |-> d.boot, hold |-> d.hold])
    IN  /\ Resumable(p, d)
        /\ \/ /\ Saved(state)
              /\ ram' = [ram EXCEPT ![p] = state]
              /\ reviewed' = d.epoch
           \/ SaveFails(state) /\ UNCHANGED <<ram, reviewed>>
        /\ UNCHANGED <<lock, pc, flags, nextBoot, nextHold, dialog, worked, epoch>>

-----------------------------------------------------------------------------
(* Shutdown: close_admission and drain, the clean record, the lock. *)

CloseAdmission(p) ==
    /\ pc[p] = "app"
    /\ pc' = [pc EXCEPT ![p] = "closing"]
    /\ stopping' = [stopping EXCEPT ![p] = TRUE]
    /\ ready' = [ready EXCEPT ![p] = FALSE]
    /\ UNCHANGED <<lock, disk, ram, storageError, readinessFailed, restartRequired,
                   nextBoot, nextHold, dialog, worked, epoch, reviewed>>

FinishRecord(p) ==
    LET state == Update(ram[p], "clean", ram[p].hold, ram[p].ack) IN
    /\ pc[p] = "closing"
    /\ pc' = [pc EXCEPT ![p] = "unlocking"]
    /\ IF ~storageError[p] /\ ~readinessFailed[p] /\ ram[p] # Blank
       THEN \/ Saved(state) /\ ram' = [ram EXCEPT ![p] = state]
            \/ SaveFails(state) /\ UNCHANGED ram
       ELSE UNCHANGED <<disk, ram>>
    /\ UNCHANGED <<lock, flags, nextBoot, nextHold, dialog, worked, epoch, reviewed>>

(* The process is gone, and with it the lock and everything in its RAM. *)
Exit(p) ==
    /\ pc' = [pc EXCEPT ![p] = "down"]
    /\ lock' = IF lock = p THEN NoProc ELSE lock
    /\ ram' = [ram EXCEPT ![p] = Blank]
    /\ ready' = [ready EXCEPT ![p] = FALSE]
    /\ stopping' = [stopping EXCEPT ![p] = FALSE]
    /\ storageError' = [storageError EXCEPT ![p] = FALSE]
    /\ readinessFailed' = [readinessFailed EXCEPT ![p] = FALSE]
    /\ restartRequired' = [restartRequired EXCEPT ![p] = FALSE]
    /\ worked' = [worked EXCEPT ![p] = FALSE]

FinishUnlock(p) ==
    /\ pc[p] = "unlocking"
    /\ Exit(p)
    /\ UNCHANGED <<disk, nextBoot, nextHold, dialog, epoch, reviewed>>

(* The process is killed, or start-up or teardown raises: the OS drops the *)
(* lock.  Work it admitted and had not drained now needs a review.         *)
Crash(p) ==
    /\ pc[p] # "down"
    /\ Exit(p)
    /\ IF worked[p] /\ pc[p] # "unlocking"
       THEN epoch < MaxEpoch /\ epoch' = epoch + 1
       ELSE UNCHANGED epoch
    /\ UNCHANGED <<disk, nextBoot, nextHold, dialog, reviewed>>

(* The file is deleted or damaged from outside while no owner lives. *)
RecordLost ==
    /\ lock = NoProc /\ disk # Blank
    /\ disk' = Blank
    /\ UNCHANGED <<lock, pc, ram, flags, nextBoot, nextHold, dialog, worked, epoch, reviewed>>

-----------------------------------------------------------------------------

ProcStep(p) ==
    \/ StartLock(p) \/ StartWithoutLock(p) \/ StartRecord(p)
    \/ AdmitNewInstallation(p) \/ ReadinessFails(p) \/ MarkReady(p)
    \/ AdmitWork(p) \/ HoldForRestore(p)
    \/ CloseAdmission(p) \/ FinishRecord(p) \/ FinishUnlock(p) \/ Crash(p)

Next ==
    \/ \E p \in Procs : ProcStep(p)
    \/ \E p \in Procs, o \in Operators : OpenDialog(p, o) \/ Resume(p, o)
    \/ RecordLost

Spec == Init /\ [][Next]_vars

-----------------------------------------------------------------------------
(* Properties. *)

(* Work is admitted only when an operator has answered for every unclean    *)
(* death of a working server and for every restore so far: the promise of   *)
(* allowed() across any sequence of boots, failed writes and stale dialogs. *)
AdmissionIsReviewed == \A p \in Procs : Allowed(p) => reviewed = epoch

(* While a server admits work it owns the lock, and the file says exactly   *)
(* what its RAM says: a running boot without a hold.  So a crash at any     *)
(* moment leaves a record that start() reads as an unclean shutdown, and no *)
(* second server admits work.                                               *)
OpenRecordIsRunning ==
    \A p \in Procs : Allowed(p) =>
        lock = p /\ disk = ram[p] /\ Valid(disk) /\ disk.lifecycle = "running"

(* A hold in a readable record disappears from it only because somebody     *)
(* confirmed that very hold in that very boot, because a store proven new   *)
(* was admitted, or because a newer hold took its place.  No restart, clean *)
(* or not, and no failed write drops one.                                   *)
HoldGoesOnlyByReview ==
    [][Held(disk) /\ Valid(disk') /\ disk'.hold # disk.hold =>
         \/ disk'.hold.id > disk.hold.id
         \/ disk'.ack = [boot |-> disk.boot, hold |-> disk.hold.id]
         \/ disk.hold.reason = "previous_run_unknown" /\ disk.ack = NoAck]_vars
=============================================================================
