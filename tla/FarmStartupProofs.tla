-------------------------- MODULE FarmStartupProofs --------------------------
(***************************************************************************)
(* Proofs about FarmStartup, for every set of processes and operators and  *)
(* every bound.  The one hypothesis is OneWriter: either start() never      *)
(* fails before it owns the lock, or there is a single server process.      *)
(***************************************************************************)
EXTENDS FarmStartup, TLAPS

OneWriter == LocklessStarts => \A p, q \in Procs : p = q

Running(p) == pc[p] \in {"init", "app", "closing", "unlocking"}

(* The lock: whoever runs without it has a storage error. *)
LockInv ==
    /\ \A p \in Procs : lock = p => pc[p] # "down"
    /\ \A p \in Procs : pc[p] = "locked" => lock = p
    /\ \A p \in Procs : Running(p) /\ lock # p => storageError[p] /\ LocklessStarts
    /\ \A p \in Procs : worked[p] => lock = p /\ Running(p) /\ Valid(ram[p])

(* RAM: a running server without a storage error knows its boot. *)
RamInv ==
    /\ \A p \in Procs : Running(p) /\ ~storageError[p] => Valid(ram[p])
    /\ \A p \in Procs : ram[p].boot < nextBoot
    /\ \A p \in Procs : pc[p] \in {"down", "locked"} => ram[p] = Blank
    /\ \A p \in Procs : pc[p] # "unlocking" => ram[p].lifecycle # "clean"
    /\ \A p \in Procs : Valid(ram[p]) /\ pc[p] # "unlocking" => ram[p].lifecycle = "running"
    /\ \A p \in Procs : ready[p] => pc[p] = "app"

(* The record on disk while its owner runs: never "clean" before the end,   *)
(* and the owner's own words while the owner holds nothing back.            *)
DiskInv ==
    /\ \A p \in Procs : lock = p /\ Valid(ram[p]) /\ pc[p] \in {"init", "app", "closing"}
          => disk.lifecycle # "clean"
    /\ \A p \in Procs : lock = p /\ pc[p] \in {"init", "app"} /\ ~storageError[p] /\ ~Held(ram[p])
          => disk = ram[p]

(* What is owed a review survives in the record and in every server's RAM. *)
OwedInv ==
    reviewed # epoch =>
        /\ Held(disk) \/ disk.lifecycle # "clean"
        /\ \A p \in Procs : Running(p) /\ ~storageError[p] => Held(ram[p])

(* A dialog that this boot would still accept shows everything so far. *)
DialogInv ==
    /\ \A o \in Operators : dialog[o].boot < nextBoot
    /\ \A o \in Operators, p \in Procs :
          Running(p) /\ ~storageError[p] /\ ~restartRequired[p]
          /\ dialog[o].boot = ram[p].boot => dialog[o].epoch = epoch

IInv == TypeOK /\ LockInv /\ RamInv /\ DiskInv /\ OwedInv /\ DialogInv

-----------------------------------------------------------------------------
(* Taking the lock: nobody else held it, and nothing is read yet. *)
LEMMA StartLockStep ==
    ASSUME OneWriter, IInv, NEW p \in Procs, StartLock(p)
    PROVE  IInv'
<1> USE ConstantsAssumption DEF IInv, TypeOK, Record, Hold, NoHold, NoAck, Blank, Reasons,
        Held, Valid, Running, flags, StartLock
<1>1. TypeOK'
  OBVIOUS
<1>2. LockInv'
  BY DEF LockInv, RamInv
<1>3. RamInv'
  BY DEF LockInv, RamInv
<1>4. DiskInv'
  BY DEF LockInv, RamInv, DiskInv, OneWriter
<1>5. OwedInv'
  BY DEF LockInv, RamInv, DiskInv, OwedInv, DialogInv, OneWriter
<1>6. DialogInv'
  BY DEF LockInv, RamInv, DialogInv, OneWriter
<1> QED
  BY <1>1, <1>2, <1>3, <1>4, <1>5, <1>6

(* A start that fails before the lock: a second writer only if OneWriter allows it. *)
LEMMA StartWithoutLockStep ==
    ASSUME OneWriter, IInv, NEW p \in Procs, StartWithoutLock(p)
    PROVE  IInv'
<1> USE ConstantsAssumption DEF IInv, TypeOK, Record, Hold, NoHold, NoAck, Blank, Reasons,
        Held, Valid, Running, flags, StartWithoutLock
<1>1. TypeOK'
  OBVIOUS
<1>2. LockInv'
  BY DEF LockInv, RamInv
<1>3. RamInv'
  BY DEF LockInv, RamInv
<1>4. DiskInv'
  BY DEF LockInv, RamInv, DiskInv, OneWriter
<1>5. OwedInv'
  BY DEF LockInv, RamInv, DiskInv, OwedInv, DialogInv, OneWriter
<1>6. DialogInv'
  BY DEF LockInv, RamInv, DialogInv, OneWriter
<1> QED
  BY <1>1, <1>2, <1>3, <1>4, <1>5, <1>6

(* start() under the lock: a held or unclean record is turned into this boot's own hold. *)
LEMMA StartRecordStep ==
    ASSUME OneWriter, IInv, NEW p \in Procs, StartRecord(p)
    PROVE  IInv'
<1> USE ConstantsAssumption DEF IInv, TypeOK,
        Held, Valid, Running, flags, StartRecord, StartState, HoldDue, Saved, SaveFails, OnDisk, Update
<1>1. StartState(disk) \in Record /\ Blank \in Record
  BY DEF Record, Hold, NoHold, NoAck, Blank, Reasons
<1>2. disk' \in Record
  BY <1>1
<1>3. ram' \in [Procs -> Record]
  BY <1>1
<1>4. TypeOK'
  <2>1. nextBoot' \in Nat \ {0} /\ nextHold' \in Nat \ {0} /\ epoch' \in Nat
    OBVIOUS
  <2> QED
    BY <1>2, <1>3, <2>1
<1>5. LockInv'
  BY DEF LockInv, RamInv
<1>6. RamInv'
  <2>1. \A q \in Procs : q # p => ram'[q] = ram[q]
    BY <1>1
  <2>2. ram'[p].boot \in {0, nextBoot} /\ ram'[p].lifecycle \in {"absent", "running"}
    BY <1>1 DEF RamInv, Blank
  <2>3. nextBoot \in Nat /\ \A q \in Procs : ram[q].boot \in Nat
    BY DEF Record
  <2> QED
    BY <2>1, <2>2, <2>3 DEF LockInv, RamInv
<1>7. DiskInv'
  BY DEF NoHold, Blank, Record, LockInv, RamInv, DiskInv, OneWriter
<1>8. OwedInv'
  BY DEF NoHold, Blank, Record, LockInv, RamInv, DiskInv, OwedInv, DialogInv, OneWriter
<1>9. DialogInv'
  BY DEF LockInv, RamInv, DialogInv, OneWriter
<1> QED
  BY <1>4, <1>5, <1>6, <1>7, <1>8, <1>9

(* A new installation: nothing is owed a review yet. *)
LEMMA AdmitNewInstallationStep ==
    ASSUME OneWriter, IInv, NEW p \in Procs, AdmitNewInstallation(p)
    PROVE  IInv'
<1> USE ConstantsAssumption DEF IInv, TypeOK,
        Held, Valid, Running, flags, AdmitNewInstallation, Saved, SaveFails, OnDisk, Update
<1>1. Update(ram[p], ram[p].lifecycle, NoHold, ram[p].ack) \in Record /\ Blank \in Record
  BY DEF Record, Hold, NoHold, NoAck, Blank, Reasons
<1>2. disk' \in Record
  BY <1>1
<1>3. ram' \in [Procs -> Record]
  BY <1>1
<1>4. TypeOK'
  BY <1>2, <1>3
<1>5. LockInv'
  BY DEF LockInv, RamInv
<1>6. RamInv'
  <2>1. \A q \in Procs : q # p => ram'[q] = ram[q]
    BY <1>1
  <2>2. ram'[p].boot = ram[p].boot /\ ram'[p].lifecycle = ram[p].lifecycle
    BY <1>1 DEF RamInv, Blank
  <2>3. nextBoot \in Nat /\ \A q \in Procs : ram[q].boot \in Nat
    BY DEF Record
  <2> QED
    BY <2>1, <2>2, <2>3 DEF LockInv, RamInv
<1>7. DiskInv'
  BY DEF NoHold, Blank, Record, LockInv, RamInv, DiskInv, OneWriter
<1>8. OwedInv'
  BY DEF NoHold, Blank, Record, LockInv, RamInv, DiskInv, OwedInv, DialogInv, OneWriter
<1>9. DialogInv'
  BY DEF LockInv, RamInv, DialogInv, OneWriter
<1> QED
  BY <1>4, <1>5, <1>6, <1>7, <1>8, <1>9

(* A lifespan that fails before readiness goes to its shutdown. *)
LEMMA ReadinessFailsStep ==
    ASSUME OneWriter, IInv, NEW p \in Procs, ReadinessFails(p)
    PROVE  IInv'
<1> USE ConstantsAssumption DEF IInv, TypeOK, Record, Hold, NoHold, NoAck, Blank, Reasons,
        Held, Valid, Running, flags, ReadinessFails
<1>1. TypeOK'
  OBVIOUS
<1>2. LockInv'
  BY DEF LockInv, RamInv
<1>3. RamInv'
  BY DEF LockInv, RamInv
<1>4. DiskInv'
  BY DEF LockInv, RamInv, DiskInv, OneWriter
<1>5. OwedInv'
  BY DEF LockInv, RamInv, DiskInv, OwedInv, DialogInv, OneWriter
<1>6. DialogInv'
  BY DEF LockInv, RamInv, DialogInv, OneWriter
<1> QED
  BY <1>1, <1>2, <1>3, <1>4, <1>5, <1>6

(* Readiness touches only the flag. *)
LEMMA MarkReadyStep ==
    ASSUME OneWriter, IInv, NEW p \in Procs, MarkReady(p)
    PROVE  IInv'
<1> USE ConstantsAssumption DEF IInv, TypeOK, Record, Hold, NoHold, NoAck, Blank, Reasons,
        Held, Valid, Running, flags, MarkReady
<1>1. TypeOK'
  OBVIOUS
<1>2. LockInv'
  BY DEF LockInv, RamInv
<1>3. RamInv'
  BY DEF LockInv, RamInv
<1>4. DiskInv'
  BY DEF LockInv, RamInv, DiskInv, OneWriter
<1>5. OwedInv'
  BY DEF LockInv, RamInv, DiskInv, OwedInv, DialogInv, OneWriter
<1>6. DialogInv'
  BY DEF LockInv, RamInv, DialogInv, OneWriter
<1> QED
  BY <1>1, <1>2, <1>3, <1>4, <1>5, <1>6

(* Work is admitted only without a hold, so nothing is owed. *)
LEMMA AdmitWorkStep ==
    ASSUME OneWriter, IInv, NEW p \in Procs, AdmitWork(p)
    PROVE  IInv'
<1> USE ConstantsAssumption DEF IInv, TypeOK, Record, Hold, NoHold, NoAck, Blank, Reasons,
        Held, Valid, Running, flags, AdmitWork, Allowed
<1>1. TypeOK'
  OBVIOUS
<1>2. LockInv'
  BY DEF LockInv, RamInv
<1>3. RamInv'
  BY DEF LockInv, RamInv
<1>4. DiskInv'
  BY DEF LockInv, RamInv, DiskInv, OneWriter
<1>5. OwedInv'
  BY DEF LockInv, RamInv, DiskInv, OwedInv, DialogInv, OneWriter
<1>6. DialogInv'
  BY DEF LockInv, RamInv, DialogInv, OneWriter
<1> QED
  BY <1>1, <1>2, <1>3, <1>4, <1>5, <1>6

(* A restore: the debt it makes is in the record, or the server is in storage error. *)
LEMMA HoldForRestoreStep ==
    ASSUME OneWriter, IInv, NEW p \in Procs, HoldForRestore(p)
    PROVE  IInv'
<1> USE ConstantsAssumption DEF IInv, TypeOK,
        Held, Valid, Running, flags, HoldForRestore, Saved, SaveFails, OnDisk, Update
<1>1. Update(ram[p], ram[p].lifecycle, [id |-> nextHold, reason |-> "restore"], ram[p].ack) \in Record /\ Blank \in Record
  BY DEF Record, Hold, NoHold, NoAck, Blank, Reasons
<1>2. disk' \in Record
  BY <1>1
<1>3. ram' \in [Procs -> Record]
  BY <1>1
<1>4. TypeOK'
  <2>1. nextBoot' \in Nat \ {0} /\ nextHold' \in Nat \ {0} /\ epoch' \in Nat
    OBVIOUS
  <2> QED
    BY <1>2, <1>3, <2>1
<1>5. LockInv'
  BY SMTT(30), ZenonT(30) DEF LockInv, RamInv
<1>6. RamInv'
  <2>1. \A q \in Procs : q # p => ram'[q] = ram[q]
    BY <1>1
  <2>2. ram'[p].boot = ram[p].boot /\ ram'[p].lifecycle = ram[p].lifecycle
    BY <1>1 DEF RamInv, Blank
  <2>3. nextBoot \in Nat /\ \A q \in Procs : ram[q].boot \in Nat
    BY DEF Record
  <2> QED
    BY <2>1, <2>2, <2>3, SMTT(30) DEF LockInv, RamInv
<1>7. DiskInv'
  BY DEF NoHold, Blank, Record, LockInv, RamInv, DiskInv, OneWriter
<1>8. OwedInv'
  BY DEF NoHold, Blank, Record, LockInv, RamInv, DiskInv, OwedInv, DialogInv, OneWriter
<1>9. DialogInv'
  BY DEF LockInv, RamInv, DialogInv, OneWriter
<1> QED
  BY <1>4, <1>5, <1>6, <1>7, <1>8, <1>9

(* The start of a shutdown. *)
LEMMA CloseAdmissionStep ==
    ASSUME OneWriter, IInv, NEW p \in Procs, CloseAdmission(p)
    PROVE  IInv'
<1> USE ConstantsAssumption DEF IInv, TypeOK, Record, Hold, NoHold, NoAck, Blank, Reasons,
        Held, Valid, Running, flags, CloseAdmission
<1>1. TypeOK'
  OBVIOUS
<1>2. LockInv'
  BY DEF LockInv, RamInv
<1>3. RamInv'
  BY DEF LockInv, RamInv
<1>4. DiskInv'
  BY DEF LockInv, RamInv, DiskInv, OneWriter
<1>5. OwedInv'
  BY DEF LockInv, RamInv, DiskInv, OwedInv, DialogInv, OneWriter
<1>6. DialogInv'
  BY DEF LockInv, RamInv, DialogInv, OneWriter
<1> QED
  BY <1>1, <1>2, <1>3, <1>4, <1>5, <1>6

(* The clean record: written only by a server that owes nothing new. *)
LEMMA FinishRecordStep ==
    ASSUME OneWriter, IInv, NEW p \in Procs, FinishRecord(p)
    PROVE  IInv'
<1> USE ConstantsAssumption DEF IInv, TypeOK,
        Held, Valid, Running, flags, FinishRecord, Saved, SaveFails, OnDisk, Update
<1>1. Update(ram[p], "clean", ram[p].hold, ram[p].ack) \in Record /\ Blank \in Record
  BY DEF Record, Hold, NoHold, NoAck, Blank, Reasons
<1>2. disk' \in Record
  BY <1>1
<1>3. ram' \in [Procs -> Record]
  BY <1>1
<1>4. TypeOK'
  BY <1>2, <1>3
<1>5. LockInv'
  BY DEF LockInv, RamInv
<1>6. RamInv'
  <2>1. \A q \in Procs : q # p => ram'[q] = ram[q]
    BY <1>1
  <2>2. ram'[p].boot = ram[p].boot /\ ram'[p].lifecycle \in {"clean", ram[p].lifecycle}
    BY <1>1 DEF RamInv, Blank
  <2>3. nextBoot \in Nat /\ \A q \in Procs : ram[q].boot \in Nat
    BY DEF Record
  <2> QED
    BY <2>1, <2>2, <2>3 DEF LockInv, RamInv
<1>7. DiskInv'
  BY DEF NoHold, Blank, Record, LockInv, RamInv, DiskInv, OneWriter
<1>8. OwedInv'
  BY DEF NoHold, Blank, Record, LockInv, RamInv, DiskInv, OwedInv, DialogInv, OneWriter
<1>9. DialogInv'
  BY DEF LockInv, RamInv, DialogInv, OneWriter
<1> QED
  BY <1>4, <1>5, <1>6, <1>7, <1>8, <1>9

(* Giving up the lock. *)
LEMMA FinishUnlockStep ==
    ASSUME OneWriter, IInv, NEW p \in Procs, FinishUnlock(p)
    PROVE  IInv'
<1> USE ConstantsAssumption DEF IInv, TypeOK, Record, Hold, NoHold, NoAck, Blank, Reasons,
        Held, Valid, Running, flags, FinishUnlock, Exit
<1>1. TypeOK'
  OBVIOUS
<1>2. LockInv'
  BY DEF LockInv, RamInv
<1>3. RamInv'
  BY DEF LockInv, RamInv
<1>4. DiskInv'
  BY DEF LockInv, RamInv, DiskInv, OneWriter
<1>5. OwedInv'
  BY DEF LockInv, RamInv, DiskInv, OwedInv, DialogInv, OneWriter
<1>6. DialogInv'
  BY DEF LockInv, RamInv, DialogInv, OneWriter
<1> QED
  BY <1>1, <1>2, <1>3, <1>4, <1>5, <1>6

(* A crash loses RAM and the lock; the record stays as it was. *)
LEMMA CrashStep ==
    ASSUME OneWriter, IInv, NEW p \in Procs, Crash(p)
    PROVE  IInv'
<1> USE ConstantsAssumption DEF IInv, TypeOK, Record, Hold, NoHold, NoAck, Blank, Reasons,
        Held, Valid, Running, flags, Crash, Exit
<1>1. TypeOK'
  OBVIOUS
<1>2. LockInv'
  BY DEF LockInv, RamInv
<1>3. RamInv'
  BY DEF LockInv, RamInv
<1>4. DiskInv'
  BY DEF LockInv, RamInv, DiskInv, OneWriter
<1>5. OwedInv'
  BY DEF LockInv, RamInv, DiskInv, OwedInv, DialogInv, OneWriter
<1>6. DialogInv'
  BY DEF LockInv, RamInv, DialogInv, OneWriter
<1> QED
  BY <1>1, <1>2, <1>3, <1>4, <1>5, <1>6

(* A dialog remembers the boot and the epoch it showed. *)
LEMMA OpenDialogStep ==
    ASSUME OneWriter, IInv, NEW p \in Procs, NEW o \in Operators, OpenDialog(p, o)
    PROVE  IInv'
<1> USE ConstantsAssumption DEF IInv, TypeOK, Record, Hold, NoHold, NoAck, Blank, Reasons,
        Held, Valid, Running, flags, OpenDialog
<1>1. TypeOK'
  OBVIOUS
<1>2. LockInv'
  BY DEF LockInv, RamInv
<1>3. RamInv'
  BY DEF LockInv, RamInv
<1>4. DiskInv'
  BY DEF LockInv, RamInv, DiskInv, OneWriter
<1>5. OwedInv'
  BY DEF LockInv, RamInv, DiskInv, OwedInv, DialogInv, OneWriter
<1>6. DialogInv'
  BY DEF LockInv, RamInv, DialogInv, OneWriter
<1> QED
  BY <1>1, <1>2, <1>3, <1>4, <1>5, <1>6

(* Resume: the dialog is of this boot, so it showed every debt so far. *)
LEMMA ResumeStep ==
    ASSUME OneWriter, IInv, NEW p \in Procs, NEW o \in Operators, Resume(p, o)
    PROVE  IInv'
<1> USE ConstantsAssumption DEF IInv, TypeOK,
        Held, Valid, Running, flags, Resume, Resumable, Saved, SaveFails, OnDisk, Update
<1>1. Update(ram[p], ram[p].lifecycle, NoHold, [boot |-> dialog[o].boot, hold |-> dialog[o].hold]) \in Record /\ Blank \in Record
  BY DEF Record, Hold, NoHold, NoAck, Blank, Reasons
<1>2. disk' \in Record
  BY <1>1
<1>3. ram' \in [Procs -> Record]
  BY <1>1
<1>4. TypeOK'
  BY <1>2, <1>3
<1>5. LockInv'
  BY DEF LockInv, RamInv
<1>6. RamInv'
  <2>1. \A q \in Procs : q # p => ram'[q] = ram[q]
    BY <1>1
  <2>2. ram'[p].boot = ram[p].boot /\ ram'[p].lifecycle = ram[p].lifecycle
    BY <1>1 DEF RamInv, Blank
  <2>3. nextBoot \in Nat /\ \A q \in Procs : ram[q].boot \in Nat
    BY DEF Record
  <2>4. UNCHANGED <<pc, lock, flags, nextBoot, worked>> /\ pc[p] = "app"
    OBVIOUS
  <2> HIDE DEF Resume
  <2> QED
    BY <2>1, <2>2, <2>3, <2>4, SMTT(30) DEF LockInv, RamInv
<1>7. DiskInv'
  BY DEF NoHold, Blank, Record, LockInv, RamInv, DiskInv, OneWriter
<1>8. OwedInv'
  BY DEF NoHold, Blank, Record, LockInv, RamInv, DiskInv, OwedInv, DialogInv, OneWriter
<1>9. DialogInv'
  BY DEF LockInv, RamInv, DialogInv, OneWriter
<1> QED
  BY <1>4, <1>5, <1>6, <1>7, <1>8, <1>9

(* A lost record makes a debt and cannot be told from a new installation without evidence. *)
LEMMA RecordLostStep ==
    ASSUME OneWriter, IInv, RecordLost
    PROVE  IInv'
<1> USE ConstantsAssumption DEF IInv, TypeOK, Record, Hold, NoHold, NoAck, Blank, Reasons,
        Held, Valid, Running, flags, RecordLost
<1>1. TypeOK'
  OBVIOUS
<1>2. LockInv'
  BY DEF LockInv, RamInv
<1>3. RamInv'
  BY DEF LockInv, RamInv
<1>4. DiskInv'
  BY DEF LockInv, RamInv, DiskInv, OneWriter
<1>5. OwedInv'
  BY DEF LockInv, RamInv, DiskInv, OwedInv, DialogInv, OneWriter
<1>6. DialogInv'
  BY DEF LockInv, RamInv, DialogInv, OneWriter
<1> QED
  BY <1>1, <1>2, <1>3, <1>4, <1>5, <1>6
-----------------------------------------------------------------------------

(* The initial states satisfy the invariant. *)
LEMMA InitIInv == Init => IInv
<1> SUFFICES ASSUME Init PROVE IInv
  OBVIOUS
<1> USE ConstantsAssumption DEF Init
<1>1. Blank \in Record /\ Blank.boot = 0 /\ Blank.lifecycle = "absent"
  BY DEF Blank, Record, Hold, NoHold, NoAck, Reasons
<1>2. TypeOK
  BY <1>1 DEF TypeOK
<1>3. LockInv /\ RamInv /\ DiskInv /\ OwedInv /\ DialogInv
  BY <1>1 DEF LockInv, RamInv, DiskInv, OwedInv, DialogInv, Valid, Running
<1> QED
  BY <1>2, <1>3 DEF IInv

(* Every step keeps it. *)
LEMMA NextIInv ==
    ASSUME OneWriter
    PROVE  IInv /\ [Next]_vars => IInv'
<1>1. ASSUME IInv, Next
      PROVE  IInv'
  BY <1>1, StartLockStep, StartWithoutLockStep, StartRecordStep, AdmitNewInstallationStep,
     ReadinessFailsStep, MarkReadyStep, AdmitWorkStep, HoldForRestoreStep, CloseAdmissionStep,
     FinishRecordStep, FinishUnlockStep, CrashStep, OpenDialogStep, ResumeStep, RecordLostStep
  DEF Next, ProcStep
<1>2. ASSUME IInv, UNCHANGED vars
      PROVE  IInv'
  BY <1>2 DEF vars, flags, IInv, TypeOK, LockInv, RamInv, DiskInv, OwedInv, DialogInv, Running
<1> QED
  BY <1>1, <1>2

(* So it is one. *)
LEMMA Invariance ==
    ASSUME OneWriter
    PROVE  Spec => []IInv
BY InitIInv, NextIInv, PTL DEF Spec

(* Every variable keeps its type, whatever the processes, crashes and       *)
(* failed writes.                                                           *)
THEOREM TypeCorrect ==
    ASSUME OneWriter
    PROVE  Spec => []TypeOK
<1>1. IInv => TypeOK
  BY DEF IInv
<1> QED
  BY <1>1, Invariance, PTL

(* allowed() admits work only when every unclean death of a working server  *)
(* and every restore has been answered for by an operator who saw it.       *)
THEOREM ReviewedAdmission ==
    ASSUME OneWriter
    PROVE  Spec => []AdmissionIsReviewed
<1>1. IInv => AdmissionIsReviewed
  BY DEF IInv, TypeOK, LockInv, RamInv, OwedInv, AdmissionIsReviewed, Allowed, Running
<1> QED
  BY <1>1, Invariance, PTL

(* A server that admits work owns the lock and has its own running boot on  *)
(* disk, so a crash at that moment is seen by the next start().             *)
THEOREM CrashLeavesRunningRecord ==
    ASSUME OneWriter
    PROVE  Spec => []OpenRecordIsRunning
<1>1. IInv => OpenRecordIsRunning
  BY DEF IInv, TypeOK, LockInv, RamInv, DiskInv, OpenRecordIsRunning, Allowed, Running
<1> QED
  BY <1>1, Invariance, PTL

-----------------------------------------------------------------------------
(* The hold on disk. *)

(* A hold has been handed out, and what an owner without a storage error    *)
(* has on disk is its own record, or one a failed answer has released.      *)
HoldInv ==
    /\ disk.hold.id < nextHold
    /\ \A p \in Procs : ram[p].hold.id < nextHold
    /\ \A p \in Procs : lock = p /\ pc[p] \in {"init", "app", "closing"} /\ ~storageError[p]
          => disk = ram[p] \/ (~Held(disk) /\ pc[p] # "init")

(* A server without a storage error owns the lock, and then no other server *)
(* writes the record.                                                      *)
LEMMA SoleWriter ==
    ASSUME OneWriter, IInv, NEW p \in Procs, Running(p), ~storageError[p]
    PROVE  lock = p /\ Valid(ram[p]) /\ \A q \in Procs : Running(q) => q = p
BY DEF OneWriter, IInv, TypeOK, LockInv, RamInv

(* The numbers of holds and records are numbers. *)
LEMMA Numbers ==
    ASSUME IInv
    PROVE  /\ nextHold \in Nat \ {0} /\ nextBoot \in Nat \ {0} /\ disk.hold.id \in Nat
           /\ \A p \in Procs : ram[p].hold.id \in Nat /\ ram[p].boot \in Nat
BY DEF IInv, TypeOK, Record, Hold

(* What a step may do to a hold in a readable record. *)
HoldKept ==
    Held(disk) /\ Valid(disk') /\ disk'.hold # disk.hold =>
        \/ disk'.hold.id > disk.hold.id
        \/ disk'.ack = [boot |-> disk.boot, hold |-> disk.hold.id]
        \/ disk.hold.reason = "previous_run_unknown" /\ disk.ack = NoAck

(* The steps that do not write the record. *)
LEMMA OtherStepsKeepHold ==
    ASSUME OneWriter, IInv, HoldInv, NEW p \in Procs,
           \/ StartLock(p) \/ StartWithoutLock(p) \/ ReadinessFails(p) \/ MarkReady(p) \/ AdmitWork(p)
           \/ CloseAdmission(p) \/ FinishUnlock(p) \/ Crash(p)
    PROVE  HoldInv' /\ HoldKept
<1> USE DEF IInv, TypeOK, HoldInv, HoldKept, flags
<1>1. CASE StartLock(p) BY <1>1 DEF StartLock, Held
<1>2. CASE StartWithoutLock(p) BY <1>2 DEF StartWithoutLock, Held
<1>3. CASE ReadinessFails(p) BY <1>3 DEF ReadinessFails, Held
<1>4. CASE MarkReady(p) BY <1>4 DEF MarkReady, Held
<1>5. CASE AdmitWork(p) BY <1>5 DEF AdmitWork, Held
<1>6. CASE CloseAdmission(p) BY <1>6 DEF CloseAdmission, Held
<1>7. CASE FinishUnlock(p) \/ Crash(p)
  BY <1>7, ConstantsAssumption DEF FinishUnlock, Crash, Exit, Held, Blank, NoHold
<1> QED BY <1>1, <1>2, <1>3, <1>4, <1>5, <1>6, <1>7

(* start() carries a hold of the record into its own. *)
LEMMA StartRecordKeepsHold ==
    ASSUME OneWriter, IInv, HoldInv, NEW p \in Procs, StartRecord(p)
    PROVE  HoldInv' /\ HoldKept
<1>1. lock = p /\ \A q \in Procs : lock = q => q = p
  BY DEF StartRecord, IInv, LockInv
<1>2. /\ StartState(disk).boot = nextBoot
      /\ Held(disk) => StartState(disk).hold = disk.hold /\ nextHold' = nextHold
      /\ StartState(disk).hold.id < nextHold' /\ nextHold <= nextHold'
      /\ nextHold' \in Nat /\ StartState(disk).hold.id \in Nat
  BY Numbers DEF StartState, HoldDue, Held, StartRecord, HoldInv
<1>3. Valid(StartState(disk)) BY <1>2, Numbers DEF Valid
<1>4. disk' \in {disk, StartState(disk)}
  BY <1>3 DEF StartRecord, Saved, SaveFails, OnDisk
<1>5. \/ disk' = StartState(disk) /\ ram' = [ram EXCEPT ![p] = StartState(disk)] /\ UNCHANGED storageError
      \/ storageError' = [storageError EXCEPT ![p] = TRUE] /\ UNCHANGED ram
  BY <1>3 DEF StartRecord, Saved, SaveFails, OnDisk
<1>6. HoldKept BY <1>2, <1>4 DEF HoldKept
<1>7. disk'.hold.id < nextHold' BY <1>2, <1>4, Numbers DEF HoldInv
<1>8. \A q \in Procs : ram'[q].hold.id < nextHold'
  BY <1>2, <1>5, Numbers DEF HoldInv, IInv, TypeOK
<1>9. \A q \in Procs : lock' = q /\ ~storageError'[q] => disk' = ram'[q]
  BY <1>1, <1>5 DEF StartRecord, IInv, TypeOK
<1> QED BY <1>6, <1>7, <1>8, <1>9 DEF HoldInv

(* A hold is admitted away only in the record of a store proven new. *)
LEMMA AdmitNewKeepsHold ==
    ASSUME OneWriter, IInv, HoldInv, NEW p \in Procs, AdmitNewInstallation(p)
    PROVE  HoldInv' /\ HoldKept
<1> DEFINE state == Update(ram[p], ram[p].lifecycle, NoHold, ram[p].ack)
<1>1. lock = p /\ Valid(ram[p]) /\ \A q \in Procs : Running(q) => q = p
  BY SoleWriter DEF AdmitNewInstallation, Running
<1>2. disk = ram[p] BY <1>1 DEF AdmitNewInstallation, HoldInv
<1>3. state.boot = ram[p].boot /\ state.hold = NoHold BY DEF Update
<1>4. OnDisk(state) = state BY <1>1, <1>3 DEF OnDisk, Valid
<1> HIDE DEF state
<1>5. disk' \in {disk, state}
  BY <1>4 DEF AdmitNewInstallation, Saved, SaveFails, state
<1>6. \/ disk' = state /\ ram' = [ram EXCEPT ![p] = state] /\ UNCHANGED storageError
      \/ storageError' = [storageError EXCEPT ![p] = TRUE] /\ UNCHANGED ram
  BY <1>4 DEF AdmitNewInstallation, Saved, SaveFails, state
<1>7. disk.hold.reason = "previous_run_unknown" /\ disk.ack = NoAck
  BY <1>2 DEF AdmitNewInstallation
<1>8. HoldKept BY <1>7 DEF HoldKept
<1>9. UNCHANGED <<lock, pc, nextHold>> BY DEF AdmitNewInstallation
<1>10. disk'.hold.id < nextHold' BY <1>3, <1>5, <1>9, Numbers DEF HoldInv, NoHold
<1>11. \A q \in Procs : ram'[q].hold.id < nextHold'
  BY <1>3, <1>6, <1>9, Numbers DEF HoldInv, NoHold, IInv, TypeOK
<1>12. \A q \in Procs : lock' = q /\ pc'[q] \in {"init", "app", "closing"} /\ ~storageError'[q] => disk' = ram'[q]
  BY <1>1, <1>6, <1>9 DEF Running, IInv, TypeOK
<1> QED BY <1>8, <1>10, <1>11, <1>12 DEF HoldInv

(* The hold of a restore is newer than any other. *)
LEMMA RestoreKeepsHold ==
    ASSUME OneWriter, IInv, HoldInv, NEW p \in Procs, HoldForRestore(p)
    PROVE  HoldInv' /\ HoldKept
<1> DEFINE state == Update(ram[p], ram[p].lifecycle, [id |-> nextHold, reason |-> "restore"], ram[p].ack)
<1>1. state.hold.id = nextHold /\ state.boot = ram[p].boot BY DEF Update
<1>2. OnDisk(state) = state \/ (OnDisk(state) = Blank /\ ~Valid(ram[p])) BY <1>1 DEF OnDisk, Valid
<1> HIDE DEF state
<1>3. \/ disk' = OnDisk(state) /\ ram' = [ram EXCEPT ![p] = state] /\ UNCHANGED storageError
      \/ disk' \in {disk, OnDisk(state)} /\ storageError' = [storageError EXCEPT ![p] = TRUE] /\ UNCHANGED ram
  BY DEF HoldForRestore, Saved, SaveFails, state
<1>4. nextHold' = nextHold + 1 /\ UNCHANGED <<lock, pc>> /\ pc[p] = "app"
  BY DEF HoldForRestore
<1>5. HoldKept BY <1>1, <1>2, <1>3, Numbers DEF HoldKept, HoldInv, Valid, Blank
<1>6. disk'.hold.id < nextHold'
  BY <1>1, <1>2, <1>3, <1>4, Numbers DEF HoldInv, Blank, NoHold
<1>7. \A q \in Procs : ram'[q].hold.id < nextHold'
  BY <1>1, <1>3, <1>4, Numbers DEF HoldInv, IInv, TypeOK
<1>8. ASSUME NEW q \in Procs, lock' = q, pc'[q] \in {"init", "app", "closing"}, ~storageError'[q]
      PROVE  disk' = ram'[q] \/ (~Held(disk') /\ pc'[q] # "init")
  <2>1. ~storageError[q] BY <1>3, <1>8 DEF IInv, TypeOK
  <2>2. q = p /\ Valid(ram[p])
    BY <1>4, <1>8, <2>1, SoleWriter DEF Running
  <2>3. disk' = state /\ ram' = [ram EXCEPT ![p] = state]
    BY <1>2, <1>3, <1>8, <2>2 DEF IInv, TypeOK
  <2> QED BY <2>2, <2>3 DEF IInv, TypeOK
<1>9. \A q \in Procs : lock' = q /\ pc'[q] \in {"init", "app", "closing"} /\ ~storageError'[q]
         => disk' = ram'[q] \/ (~Held(disk)' /\ pc'[q] # "init")
  BY <1>8 DEF Held
<1> QED BY <1>5, <1>6, <1>7, <1>9 DEF HoldInv

(* resume() releases the hold it was shown, in the record that has it. *)
LEMMA ResumeKeepsHold ==
    ASSUME OneWriter, IInv, HoldInv, NEW p \in Procs, NEW o \in Operators, Resume(p, o)
    PROVE  HoldInv' /\ HoldKept
<1> DEFINE state == Update(ram[p], ram[p].lifecycle, NoHold, [boot |-> dialog[o].boot, hold |-> dialog[o].hold])
<1>1. lock = p /\ Valid(ram[p]) /\ \A q \in Procs : Running(q) => q = p
  BY SoleWriter DEF Resume, Resumable, Running
<1>2. disk = ram[p] \/ ~Held(disk) BY <1>1 DEF Resume, Resumable, HoldInv
<1>3. state.boot = ram[p].boot /\ state.hold = NoHold
      /\ state.ack = [boot |-> ram[p].boot, hold |-> ram[p].hold.id]
  BY DEF Update, Resume, Resumable
<1>4. OnDisk(state) = state BY <1>1, <1>3 DEF OnDisk, Valid
<1> HIDE DEF state
<1>5. \/ disk' = state /\ ram' = [ram EXCEPT ![p] = state]
      \/ disk' \in {disk, state} /\ UNCHANGED ram
  BY <1>4 DEF Resume, Saved, SaveFails, state
<1>6. UNCHANGED <<lock, pc, nextHold, storageError>> /\ pc[p] = "app"
  BY DEF Resume, Resumable, flags
<1>7. HoldKept BY <1>2, <1>3, <1>5 DEF HoldKept
<1>8. disk'.hold.id < nextHold' BY <1>3, <1>5, <1>6, Numbers DEF HoldInv, NoHold
<1>9. \A q \in Procs : ram'[q].hold.id < nextHold'
  BY <1>3, <1>5, <1>6, Numbers DEF HoldInv, NoHold, IInv, TypeOK
<1>10. ASSUME NEW q \in Procs, lock' = q, pc'[q] \in {"init", "app", "closing"}, ~storageError'[q]
       PROVE  disk' = ram'[q] \/ (~Held(disk)' /\ pc'[q] # "init")
  <2>1. q = p BY <1>1, <1>6, <1>10
  <2>2. ~Held(state) BY <1>3 DEF Held, NoHold
  <2> QED BY <1>2, <1>5, <1>6, <2>1, <2>2 DEF Held, IInv, TypeOK
<1> QED BY <1>7, <1>8, <1>9, <1>10 DEF HoldInv

(* A clean shutdown keeps the hold it has not released. *)
LEMMA FinishKeepsHold ==
    ASSUME OneWriter, IInv, HoldInv, NEW p \in Procs, FinishRecord(p)
    PROVE  HoldInv' /\ HoldKept
<1> DEFINE state == Update(ram[p], "clean", ram[p].hold, ram[p].ack)
<1>1. pc[p] = "closing" /\ pc' = [pc EXCEPT ![p] = "unlocking"] /\ UNCHANGED <<lock, nextHold, storageError>>
  BY DEF FinishRecord, flags
<1>2. CASE ~storageError[p] /\ ~readinessFailed[p] /\ ram[p] # Blank
  <2>1. lock = p /\ Valid(ram[p]) /\ \A q \in Procs : Running(q) => q = p
    BY <1>1, <1>2, SoleWriter DEF Running
  <2>2. disk = ram[p] \/ ~Held(disk) BY <1>1, <1>2, <2>1 DEF HoldInv
  <2>3. state.boot = ram[p].boot /\ state.hold = ram[p].hold BY DEF Update
  <2>4. OnDisk(state) = state BY <2>1, <2>3 DEF OnDisk, Valid
  <2> HIDE DEF state
  <2>5. disk' \in {disk, state} /\ (ram' = ram \/ ram' = [ram EXCEPT ![p] = state])
    BY <1>2, <2>4 DEF FinishRecord, Saved, SaveFails, state
  <2>6. HoldKept BY <2>2, <2>3, <2>5 DEF HoldKept
  <2>7. disk'.hold.id < nextHold' BY <1>1, <2>3, <2>5 DEF HoldInv
  <2>8. \A q \in Procs : ram'[q].hold.id < nextHold'
    BY <1>1, <2>3, <2>5 DEF HoldInv, IInv, TypeOK
  <2>9. \A q \in Procs : lock' = q => pc'[q] = "unlocking"
    BY <1>1, <2>1 DEF IInv, TypeOK
  <2> QED BY <2>6, <2>7, <2>8, <2>9 DEF HoldInv
<1>3. CASE ~(~storageError[p] /\ ~readinessFailed[p] /\ ram[p] # Blank)
  <2>1. UNCHANGED <<disk, ram>> BY <1>3 DEF FinishRecord
  <2> QED BY <1>1, <2>1 DEF HoldInv, HoldKept, Held, IInv, TypeOK
<1> QED BY <1>2, <1>3

(* A record that is lost cannot be read. *)
LEMMA LossKeepsHold ==
    ASSUME IInv, HoldInv, RecordLost
    PROVE  HoldInv' /\ HoldKept
BY Numbers, ConstantsAssumption DEF RecordLost, HoldInv, HoldKept, Held, Valid, Blank, NoHold, flags, IInv, TypeOK

(* Every step, from every state that can be reached. *)
LEMMA HoldStep ==
    ASSUME OneWriter, IInv, HoldInv, [Next]_vars
    PROVE  HoldInv' /\ HoldKept
<1>1. ASSUME NEW p \in Procs, ProcStep(p) PROVE HoldInv' /\ HoldKept
  <2>1. CASE StartRecord(p) BY <2>1, StartRecordKeepsHold
  <2>2. CASE AdmitNewInstallation(p) BY <2>2, AdmitNewKeepsHold
  <2>3. CASE HoldForRestore(p) BY <2>3, RestoreKeepsHold
  <2>4. CASE FinishRecord(p) BY <2>4, FinishKeepsHold
  <2>5. CASE ~(StartRecord(p) \/ AdmitNewInstallation(p) \/ HoldForRestore(p) \/ FinishRecord(p))
    BY <1>1, <2>5, OtherStepsKeepHold DEF ProcStep
  <2> QED BY <2>1, <2>2, <2>3, <2>4, <2>5
<1>2. ASSUME NEW p \in Procs, NEW o \in Operators, OpenDialog(p, o) \/ Resume(p, o)
      PROVE  HoldInv' /\ HoldKept
  <2>1. CASE OpenDialog(p, o) BY <2>1 DEF OpenDialog, flags, HoldInv, HoldKept, Held
  <2>2. CASE Resume(p, o) BY <2>2, ResumeKeepsHold
  <2> QED BY <1>2, <2>1, <2>2
<1>3. CASE RecordLost BY <1>3, LossKeepsHold
<1>4. CASE UNCHANGED vars BY <1>4 DEF vars, flags, HoldInv, HoldKept, Held
<1> QED BY <1>1, <1>2, <1>3, <1>4 DEF Next

(* No restart, clean or not, and no failed write drops a hold from a         *)
(* readable record: only a person who confirmed that very hold of that very *)
(* boot, a store proven new, or a newer hold removes one.                   *)
THEOREM HoldsStay ==
    ASSUME OneWriter
    PROVE  Spec => HoldGoesOnlyByReview
<1>1. Init => HoldInv BY ConstantsAssumption DEF Init, HoldInv, Blank, NoHold, Held
<1>2. IInv /\ HoldInv /\ [Next]_vars => HoldInv' BY HoldStep
<1>3. IInv /\ HoldInv /\ [Next]_vars => [HoldKept]_vars BY HoldStep
<1> QED BY <1>1, <1>2, <1>3, Invariance, PTL DEF Spec, HoldGoesOnlyByReview, HoldKept

=============================================================================
