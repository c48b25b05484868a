-------------------------- MODULE QueueSourcesProofs --------------------------
(***************************************************************************)
(* Proofs about QueueSources, for any number of blobs, jobs, captures and   *)
(* readers: its types and the guard's ownership, the jobs' references, and  *)
(* the bytes behind a ready row.                                            *)
(***************************************************************************)
EXTENDS QueueSources, TLAPS

LEMMA TypeInductive == TypeOK /\ [Next]_vars => TypeOK'
<1> SUFFICES ASSUME TypeOK, [Next]_vars PROVE TypeOK'
  OBVIOUS
<1> USE NamesAssumption, BoundAssumption DEF TypeOK, db, files, copy, lock, pins, rest, Ages, Free, Collector, NoPub, NoGc, NoRow
<1>1. ASSUME NEW c \in Captures, Admit(c) PROVE TypeOK'
  BY <1>1 DEF Admit, Fault
<1>2. ASSUME NEW c \in Captures, WorkerNamesPart(c) PROVE TypeOK'
  BY <1>2 DEF WorkerNamesPart, Fault
<1>3. ASSUME NEW c \in Captures, WorkerOpensPart(c) PROVE TypeOK'
  BY <1>3 DEF WorkerOpensPart, Fault
<1>4. ASSUME NEW c \in Captures, WorkerKeeps(c) PROVE TypeOK'
  BY <1>4 DEF WorkerKeeps, Fault
<1>5. ASSUME NEW c \in Captures, WorkerFails(c) PROVE TypeOK'
  BY <1>5 DEF WorkerFails, Fault
<1>6. ASSUME NEW c \in Captures, Drop(c) PROVE TypeOK'
  BY <1>6 DEF Drop, Fault
<1>7. ASSUME NEW c \in Captures, Receive(c) PROVE TypeOK'
  BY <1>7 DEF Receive, Fault
<1>8. ASSUME NEW c \in Captures, GiveUp(c) PROVE TypeOK'
  BY <1>8 DEF GiveUp, Fault
<1>9. ASSUME NEW c \in Captures, Discard(c) PROVE TypeOK'
  BY <1>9 DEF Discard, Fault
<1>10. ASSUME NEW c \in Captures, PublishBegin(c) PROVE TypeOK'
  BY <1>10 DEF PublishBegin, Fault
<1>11. ASSUME NEW c \in Captures, PublishLooksUp(c) PROVE TypeOK'
  <2>1. CASE Busy(content[c])
    BY <1>11, <2>1 DEF PublishLooksUp
  <2>2. CASE ~Busy(content[c])
    <3>1. pub' \in [pc : {"none", "install", "attach", "undo"}, created : BOOLEAN, moved : BOOLEAN, repaired : BOOLEAN]
      <4> DEFINE a == IF Reuse(content[c]) \/ (source[content[c]].state = "broken" /\ Intact(content[c]))
                     THEN "attach" ELSE "install"
                 n == source[content[c]].state = "none"
                 m == source[content[c]].state # "none" /\ ~Reuse(content[c])
      <4>1. pub' = [pc |-> a, created |-> n, moved |-> FALSE, repaired |-> m]
        BY <1>11, <2>2 DEF PublishLooksUp
      <4>2. a \in {"install", "attach"} /\ n \in BOOLEAN /\ m \in BOOLEAN
        OBVIOUS
      <4> HIDE DEF a, n, m
      <4> QED BY <4>1, <4>2
    <3>2. guard' = c /\ pub'.pc # "none" /\ gc.pc = "none" /\ UNCHANGED caller
      BY <1>11, <2>2 DEF PublishLooksUp
    <3> QED BY <1>11, <3>1, <3>2 DEF PublishLooksUp
  <2> QED BY <2>1, <2>2
<1>12. ASSUME NEW c \in Captures, PublishInstalls(c) PROVE TypeOK'
  BY <1>12 DEF PublishInstalls, Fault
<1>13. ASSUME NEW c \in Captures, PublishCommits(c) PROVE TypeOK'
  <2>1. content[c] \in Blobs
    OBVIOUS
  <2>2. source' \in [Blobs -> [state : {"none", "ready", "deleting", "broken"}, mark : Ages]]
    <3> SUFFICES ASSUME NEW h \in Blobs
                 PROVE  source'[h] \in [state : {"none", "ready", "deleting", "broken"}, mark : Ages]
      BY <1>13, <2>1 DEF PublishCommits
    <3>1. CASE h = content[c]
      BY <1>13, <3>1, SMTT(30) DEF PublishCommits
    <3>2. CASE h # content[c]
      BY <1>13, <3>2 DEF PublishCommits
    <3> QED BY <3>1, <3>2
  <2>3. ref' \in [Jobs -> Blobs \cup {NoBlob}]
    BY <1>13, <2>1, SMTT(30) DEF PublishCommits
  <2>4. caller' \in [Captures -> {"none", "waiting", "staged", "publishing", "published", "handover", "holding", "gone"}]
    BY <1>13, SMTT(30), ZenonT(30) DEF PublishCommits
  <2> QED BY <1>13, <2>2, <2>3, <2>4 DEF PublishCommits
<1>14. ASSUME NEW c \in Captures, PublishFails(c) PROVE TypeOK'
  BY <1>14 DEF PublishFails, Fault
<1>15. ASSUME NEW c \in Captures, PublishUndoes(c) PROVE TypeOK'
  BY <1>15 DEF PublishUndoes, Fault
<1>16. ASSUME NEW c \in Captures, InstallFails(c) PROVE TypeOK'
  <2>1. faults' \in 0 .. MaxFaults
    BY <1>16 DEF InstallFails, Fault
  <2>2. /\ object' \in [Blobs -> Ages] /\ part' \in [Captures -> Ages]
        /\ caller' \in [Captures -> {"none", "waiting", "staged", "publishing", "published", "handover", "holding", "gone"}]
        /\ stagingPins' \subseteq Captures /\ lost' \subseteq Blobs
    <3>1. CASE caller' = [caller EXCEPT ![c] = "staged"] /\ UNCHANGED <<files, stagingPins, lost>>
      BY <3>1
    <3>2. CASE /\ object' = [object EXCEPT ![content[c]] = part[c]]
               /\ part' = [part EXCEPT ![c] = "none"]
               /\ lost' = lost \ {content[c]}
               /\ caller' = [caller EXCEPT ![c] = "gone"]
               /\ stagingPins' = stagingPins \ {c}
      BY <3>2
    <3> QED BY <1>16, <3>1, <3>2 DEF InstallFails
  <2>3. /\ guard' = Free /\ pub' = NoPub /\ gc.pc = "none"
        /\ UNCHANGED <<db, worker, abandoned, content, pins, gc, bootDue>>
    BY <1>16 DEF InstallFails
  <2> QED BY <2>1, <2>2, <2>3
<1>17. ASSUME NEW c \in Captures, HandoverPins(c) PROVE TypeOK'
  BY <1>17 DEF HandoverPins, Fault
<1>18. ASSUME NEW c \in Captures, HandoverEnds(c) PROVE TypeOK'
  <2>1. ref' \in [Jobs -> Blobs \cup {NoBlob}] /\ handed' \subseteq Jobs
    BY <1>18 DEF HandoverEnds
  <2> QED BY <1>18, <2>1 DEF HandoverEnds
<1>19. ASSUME NEW j \in Jobs, JobGoes(j) PROVE TypeOK'
  BY <1>19 DEF JobGoes, Fault
<1>20. ASSUME NEW j \in Jobs, NEW h \in Blobs, Clone(j, h) PROVE TypeOK'
  BY <1>20 DEF Clone, Fault
<1>21. ASSUME NEW i \in Jobs, NEW j \in Jobs, Promote(i, j) PROVE TypeOK'
  BY <1>21 DEF Promote, Fault
<1>22. ASSUME NEW r \in Readers, ReaderReads(r) PROVE TypeOK'
  BY <1>22 DEF ReaderReads, Fault
<1>23. ASSUME NEW r \in Readers, ReaderPins(r) PROVE TypeOK'
  BY <1>23 DEF ReaderPins, Fault
<1>24. ASSUME NEW r \in Readers, ReaderEnds(r) PROVE TypeOK'
  BY <1>24 DEF ReaderEnds, Fault
<1>25. ASSUME BackupPins PROVE TypeOK'
  BY <1>25 DEF BackupPins, Fault
<1>26. ASSUME BackupDumps PROVE TypeOK'
  BY <1>26 DEF BackupDumps, Fault
<1>27. ASSUME BackupEnds PROVE TypeOK'
  BY <1>27 DEF BackupEnds, Fault
<1>28. ASSUME NEW boot \in BOOLEAN, GcReads(boot) PROVE TypeOK'
  <2>1. source' \in [Blobs -> [state : {"none", "ready", "deleting", "broken"}, mark : Ages]]
    <3> SUFFICES ASSUME NEW h \in Blobs
                 PROVE  source'[h] \in [state : {"none", "ready", "deleting", "broken"}, mark : Ages]
      BY <1>28 DEF GcReads
    <3> QED BY <1>28 DEF GcReads
  <2>2. /\ gc' \in [pc : {"none", "rows", "unlink", "delete", "ask", "sweep"}, boot : BOOLEAN, todo : SUBSET Blobs,
               one : Blobs \cup {NoBlob}, orphans : SUBSET Blobs, parts : SUBSET Captures]
        /\ gc'.pc # "none"
    BY <1>28 DEF GcReads
  <2>3. guard' = Collector /\ pub.pc = "none"
    BY <1>28 DEF GcReads
  <2>4. UNCHANGED <<ref, handed, files, copy, pub, pins, lost, faults>> /\ bootDue' \in BOOLEAN
    BY <1>28 DEF GcReads
  <2> QED BY <2>1, <2>2, <2>3, <2>4
<1>29. ASSUME NEW h \in Blobs, GcEntombs(h) PROVE TypeOK'
  <2>1. source' \in [Blobs -> [state : {"none", "ready", "deleting", "broken"}, mark : Ages]]
    BY <1>29 DEF GcEntombs
  <2>2. /\ gc' \in [pc : {"none", "rows", "unlink", "delete", "ask", "sweep"}, boot : BOOLEAN, todo : SUBSET Blobs,
               one : Blobs \cup {NoBlob}, orphans : SUBSET Blobs, parts : SUBSET Captures]
        /\ gc'.pc # "none" /\ gc.pc # "none"
    BY <1>29 DEF GcEntombs
  <2> QED BY <1>29, <2>1, <2>2 DEF GcEntombs
<1>30. ASSUME GcUnlinks PROVE TypeOK'
  BY <1>30 DEF GcUnlinks, Fault
<1>31. ASSUME GcUnlinkFails PROVE TypeOK'
  <2>1. faults' \in 0 .. MaxFaults
    BY <1>31 DEF GcUnlinkFails, Fault
  <2>2. /\ gc' = [gc EXCEPT !.pc = "rows", !.one = NoBlob]
        /\ gc.pc # "none"
        /\ UNCHANGED <<db, files, copy, lock, pins, bootDue, lost>>
    BY <1>31 DEF GcUnlinkFails
  <2> QED BY <2>1, <2>2, SMTT(30), ZenonT(30)
<1>32. ASSUME GcDeletes PROVE TypeOK'
  BY <1>32, SMTT(30), ZenonT(30) DEF GcDeletes, Fault
<1>33. ASSUME GcScans PROVE TypeOK'
  BY <1>33 DEF GcScans, Fault
<1>34. ASSUME GcAsks PROVE TypeOK'
  BY <1>34 DEF GcAsks, Fault
<1>35. ASSUME GcSweeps PROVE TypeOK'
  BY <1>35 DEF GcSweeps, Fault
<1>36. ASSUME Hour PROVE TypeOK'
  <2>1. \A age \in Ages : Older(age) \in Ages
    BY DEF Older
  <2>2. source' \in [Blobs -> [state : {"none", "ready", "deleting", "broken"}, mark : Ages]]
    <3> SUFFICES ASSUME NEW h \in Blobs
                 PROVE  source'[h] \in [state : {"none", "ready", "deleting", "broken"}, mark : Ages]
      BY <1>36 DEF Hour
    <3>1. source'[h] = [source[h] EXCEPT !.mark = Older(source[h].mark)]
      BY <1>36 DEF Hour
    <3> QED BY <2>1, <3>1, SMTT(30)
  <2>3. object' \in [Blobs -> Ages] /\ part' \in [Captures -> Ages]
    BY <1>36, <2>1 DEF Hour
  <2> QED BY <1>36, <2>2, <2>3 DEF Hour
<1>37. ASSUME NEW h \in Blobs, Lose(h) PROVE TypeOK'
  BY <1>37 DEF Lose, Fault
<1>38. ASSUME Crash PROVE TypeOK'
  BY <1>38 DEF Crash, Fault
<1>39. CASE UNCHANGED vars
  BY <1>39 DEF vars
<1> QED
  BY <1>1, <1>2, <1>3, <1>4, <1>5, <1>6, <1>7, <1>8, <1>9, <1>10, <1>11, <1>12, <1>13, <1>14, <1>15, <1>16, <1>17, <1>18, <1>19, <1>20, SMTT(30), ZenonT(30),
     <1>21, <1>22, <1>23, <1>24, <1>25, <1>26, <1>27, <1>28, <1>29, <1>30, <1>31, <1>32, <1>33, <1>34, <1>35, <1>36, <1>37, <1>38, <1>39
     DEF Next, Capture, Worker, Publish, Job, Collect

(* What the collector has decided, and what a publication has found, stays   *)
(* true while it holds the guard.                                           *)
Decided ==
    /\ gc.pc = "none" => gc.todo = {}
    /\ gc.pc \in {"unlink", "delete"} => gc.one \in Blobs /\ source[gc.one].state = "deleting"
    /\ gc.pc \in {"ask", "sweep"} => \A h \in gc.orphans : source[h].state = "none"
    /\ \A c \in Captures : guard = c /\ pub.created => source[content[c]].state = "none"
    /\ \A c \in Captures : guard = c /\ pub.pc = "attach" => Intact(content[c]) \/ content[c] \in lost

(* No blob a job names is condemned. *)
Spared ==
    \A j \in Jobs \ handed : ref[j] # NoBlob =>
        /\ source[ref[j]].state \in {"ready", "broken"}
        /\ ref[j] \notin gc.todo
        /\ gc.pc \in {"unlink", "delete"} => ref[j] # gc.one

SpoolInv == Decided /\ Spared /\ ReadyHasBytes

(* The collector's question leaves the state of a live row alone. *)
LEMMA ReadsKeepRows ==
    ASSUME TypeOK, NEW boot \in BOOLEAN, GcReads(boot),
           NEW h \in Blobs, source[h].state \in {"ready", "broken"}
    PROVE  source'[h].state = source[h].state
<1>1. source[h].state # "none" /\ source[h].state # "deleting"
  OBVIOUS
<1>2. CASE Owned(h)
  BY <1>1, <1>2 DEF GcReads, TypeOK
<1>3. CASE ~Owned(h)
  BY <1>1, <1>3 DEF GcReads, TypeOK
<1> QED BY <1>2, <1>3

LEMMA SpoolInductive == TypeOK /\ SpoolInv /\ [Next]_vars => SpoolInv'
<1> SUFFICES ASSUME TypeOK, SpoolInv, [Next]_vars PROVE SpoolInv'
  OBVIOUS
<1> USE NamesAssumption DEF TypeOK, SpoolInv, Decided, Spared, ReadyHasBytes, Intact, Free, Collector
<1> DEFINE spool == <<source, ref, handed, object, lost, guard, pub, gc, content>>
<1>1. ASSUME UNCHANGED spool PROVE SpoolInv'
  BY <1>1
<1>2. ASSUME NEW c \in Captures,
             \/ Admit(c) \/ Worker(c) \/ Drop(c) \/ Receive(c) \/ GiveUp(c) \/ Discard(c)
             \/ PublishBegin(c) \/ HandoverPins(c)
      PROVE  SpoolInv'
  BY <1>1, <1>2 DEF Admit, Worker, WorkerNamesPart, WorkerOpensPart, WorkerKeeps, WorkerFails, Drop, Receive,
                    GiveUp, Discard, PublishBegin, HandoverPins, db, files, lock, pins, rest
<1>3. ASSUME NEW r \in Readers, ReaderReads(r) \/ ReaderPins(r) \/ ReaderEnds(r) PROVE SpoolInv'
  BY <1>1, <1>3 DEF ReaderReads, ReaderPins, ReaderEnds, db, files, copy, lock, rest
<1>4. ASSUME BackupPins \/ BackupDumps \/ BackupEnds PROVE SpoolInv'
  BY <1>1, <1>4 DEF BackupPins, BackupDumps, BackupEnds, db, files, copy, lock, rest
<1>5. ASSUME NEW c \in Captures, PublishLooksUp(c) PROVE SpoolInv'
  <2>1. UNCHANGED <<source, ref, handed, object, lost, gc, content>>
    BY <1>5 DEF PublishLooksUp, db, files, rest
  <2>2. CASE Busy(content[c])
    BY <1>1, <1>5, <2>1, <2>2 DEF PublishLooksUp, lock
  <2>3. CASE ~Busy(content[c])
    <3>1. guard' = c /\ gc.pc = "none" /\ (pub'.created => source[content[c]].state = "none")
      <4>1. guard' = c /\ guard = Free
        BY <1>5, <2>3 DEF PublishLooksUp
      <4>2. pub'.created = (source[content[c]].state = "none")
        BY <1>5, <2>3 DEF PublishLooksUp
      <4> QED BY <4>1, <4>2
    <3>2. pub'.pc = "attach" => Reuse(content[c]) \/ Intact(content[c])
      BY <1>5, <2>3 DEF PublishLooksUp
    <3>3. pub'.pc = "attach" => Intact(content[c])
      BY <3>2 DEF Reuse
    <3> QED BY <2>1, <3>1, <3>3
  <2> QED BY <2>2, <2>3
<1>6. ASSUME NEW c \in Captures, PublishInstalls(c) PROVE SpoolInv'
  BY <1>6 DEF PublishInstalls, db, files, copy, lock, pins, rest
<1>7. ASSUME NEW c \in Captures, PublishCommits(c) PROVE SpoolInv'
  BY <1>7 DEF PublishCommits, NoPub, db, files, copy, lock, pins, rest
<1>8. ASSUME NEW c \in Captures, PublishFails(c) PROVE SpoolInv'
  BY <1>8 DEF PublishFails, db, files, copy, lock, pins, rest
<1>9. ASSUME NEW c \in Captures, PublishUndoes(c) PROVE SpoolInv'
  BY <1>9 DEF PublishUndoes, NoPub, db, files, copy, lock, pins, rest
<1>10. ASSUME NEW c \in Captures, InstallFails(c) PROVE SpoolInv'
  BY <1>10 DEF InstallFails, NoPub, db, files, copy, lock, pins, rest
<1>11. ASSUME NEW c \in Captures, HandoverEnds(c) PROVE SpoolInv'
  BY <1>11 DEF HandoverEnds, db, files, copy, lock, pins, rest
<1>12. ASSUME NEW j \in Jobs, JobGoes(j) PROVE SpoolInv'
  BY <1>12 DEF JobGoes, db, files, copy, lock, pins, rest
<1>13. ASSUME NEW j \in Jobs, NEW h \in Blobs, Clone(j, h) PROVE SpoolInv'
  BY <1>13 DEF Clone, db, files, copy, lock, pins, rest
<1>14. ASSUME NEW i \in Jobs, NEW j \in Jobs, Promote(i, j) PROVE SpoolInv'
  BY <1>14 DEF Promote, db, files, copy, lock, pins, rest
<1>15. ASSUME NEW boot \in BOOLEAN, GcReads(boot) PROVE SpoolInv'
  <2>1. /\ UNCHANGED <<ref, handed, object, lost, pub, content>>
        /\ guard' = Collector /\ gc'.pc = "rows" /\ gc'.todo \subseteq Blobs
    BY <1>15 DEF GcReads, NoGc, files, copy
  <2>2. \A h \in gc'.todo : ~Owned(h)
    BY <1>15 DEF GcReads, NoGc
  <2>3. Decided'
    BY <2>1
  <2>4. Spared'
    <3> SUFFICES ASSUME NEW j \in Jobs \ handed, ref[j] # NoBlob
                 PROVE  source'[ref[j]].state \in {"ready", "broken"} /\ ref[j] \notin gc'.todo
      BY <2>1
    <3>1. ref[j] \in Blobs /\ source[ref[j]].state \in {"ready", "broken"}
      OBVIOUS
    <3>2. source'[ref[j]].state = source[ref[j]].state
      BY <1>15, <3>1, ReadsKeepRows
    <3> QED BY <2>2, <3>1, <3>2 DEF Owned
  <2>5. ReadyHasBytes'
    <3> SUFFICES ASSUME NEW h \in Blobs \ lost, source'[h].state = "ready" PROVE Intact(h)
      BY <2>1
    <3>1. CASE source[h].state = "deleting"
      BY <1>15, <3>1 DEF GcReads
    <3>2. CASE source[h].state # "deleting"
      <4>1. source'[h].state = source[h].state
        BY <1>15, <3>2 DEF GcReads
      <4> QED BY <4>1
    <3> QED BY <3>1, <3>2
  <2> QED BY <2>3, <2>4, <2>5
<1>16. ASSUME NEW h \in Blobs, GcEntombs(h) PROVE SpoolInv'
  BY <1>16 DEF GcEntombs, db, files, copy, lock, pins, rest
<1>17. ASSUME GcUnlinks PROVE SpoolInv'
  BY <1>17 DEF GcUnlinks, db, files, copy, lock, pins, rest
<1>18. ASSUME GcUnlinkFails PROVE SpoolInv'
  BY <1>18 DEF GcUnlinkFails, db, files, copy, lock, pins, rest
<1>19. ASSUME GcDeletes PROVE SpoolInv'
  BY <1>19 DEF GcDeletes, NoRow, db, files, copy, lock, pins, rest
<1>20. ASSUME GcScans PROVE SpoolInv'
  BY <1>20 DEF GcScans, db, files, copy, lock, pins, rest
<1>21. ASSUME GcAsks PROVE SpoolInv'
  BY <1>21 DEF GcAsks, db, files, copy, lock, pins, rest
<1>22. ASSUME GcSweeps PROVE SpoolInv'
  BY <1>22 DEF GcSweeps, NoGc, db, files, copy, lock, pins, rest
<1>23. ASSUME Hour PROVE SpoolInv'
  <2>1. \A h \in Blobs : source'[h].state = source[h].state /\ (Intact(h)' <=> Intact(h))
    BY <1>23 DEF Hour, Older, Ages
  <2>2. UNCHANGED <<ref, handed, lost, guard, pub, gc, content>>
    BY <1>23 DEF Hour, copy, lock, rest
  <2> QED BY <2>1, <2>2
<1>24. ASSUME NEW h \in Blobs, Lose(h) PROVE SpoolInv'
  BY <1>24 DEF Lose, db, files, copy, lock, pins, rest
<1>25. ASSUME Crash PROVE SpoolInv'
  BY <1>25 DEF Crash, NoGc, NoPub, db, files, copy, lock, pins, rest
<1>26. CASE UNCHANGED vars
  BY <1>1, <1>26 DEF vars, db, files, copy, lock, rest
<1> QED
  BY <1>2, <1>3, <1>4, <1>5, <1>6, <1>7, <1>8, <1>9, <1>10, <1>11, <1>12, <1>13, <1>14, <1>15, <1>16, <1>17, <1>18, <1>19, <1>20,
     <1>21, <1>22, <1>23, <1>24, <1>25, <1>26, SMTT(30), ZenonT(30)
     DEF Next, Capture, Worker, Publish, Job, Collect

(* What is held is not condemned, and a backup's names keep their files.    *)
PinInv ==
    /\ \A h \in gc.todo : ~Pinned(h)
    /\ gc.pc \in {"unlink", "delete"} => ~Pinned(gc.one)
    /\ backup.pc # "copy" => backup.named = {}
    /\ \A h \in backup.named : source[h].state \in {"ready", "broken"} /\ (Intact(h) \/ h \in lost)

LEMMA PinInductive == TypeOK /\ SpoolInv /\ PinInv /\ [Next]_vars => PinInv'
<1> SUFFICES ASSUME TypeOK, SpoolInv, PinInv, [Next]_vars PROVE PinInv'
  OBVIOUS
<1> USE NamesAssumption DEF TypeOK, SpoolInv, Decided, ReadyHasBytes, PinInv, Pinned, Intact, Free, Collector, Ages
<1>1. ASSUME NEW c \in Captures, Admit(c) PROVE PinInv'
  BY <1>1 DEF Admit, db, files, copy, lock, pins, rest
<1>2. ASSUME NEW c \in Captures, WorkerNamesPart(c) PROVE PinInv'
  BY <1>2 DEF WorkerNamesPart, db, files, copy, lock, pins, rest
<1>3. ASSUME NEW c \in Captures, WorkerOpensPart(c) PROVE PinInv'
  BY <1>3 DEF WorkerOpensPart, db, files, copy, lock, pins, rest
<1>4. ASSUME NEW c \in Captures, WorkerKeeps(c) PROVE PinInv'
  BY <1>4 DEF WorkerKeeps, db, files, copy, lock, pins, rest
<1>5. ASSUME NEW c \in Captures, WorkerFails(c) PROVE PinInv'
  BY <1>5 DEF WorkerFails, db, files, copy, lock, pins, rest
<1>6. ASSUME NEW c \in Captures, Drop(c) PROVE PinInv'
  BY <1>6 DEF Drop, db, files, copy, lock, pins, rest
<1>7. ASSUME NEW c \in Captures, Receive(c) PROVE PinInv'
  BY <1>7 DEF Receive, db, files, copy, lock, pins, rest
<1>8. ASSUME NEW c \in Captures, GiveUp(c) PROVE PinInv'
  BY <1>8 DEF GiveUp, db, files, copy, lock, pins, rest
<1>9. ASSUME NEW c \in Captures, Discard(c) PROVE PinInv'
  BY <1>9 DEF Discard, db, files, copy, lock, pins, rest
<1>10. ASSUME NEW c \in Captures, PublishBegin(c) PROVE PinInv'
  BY <1>10 DEF PublishBegin, db, files, copy, lock, pins, rest
<1>11. ASSUME NEW c \in Captures, PublishLooksUp(c) PROVE PinInv'
  BY <1>11 DEF PublishLooksUp, db, files, copy, lock, pins, rest
<1>12. ASSUME NEW c \in Captures, PublishInstalls(c) PROVE PinInv'
  BY <1>12 DEF PublishInstalls, db, files, copy, lock, pins, rest
<1>13. ASSUME NEW c \in Captures, PublishCommits(c) PROVE PinInv'
  BY <1>13 DEF PublishCommits, db, files, copy, lock, pins, rest
<1>14. ASSUME NEW c \in Captures, PublishFails(c) PROVE PinInv'
  BY <1>14 DEF PublishFails, db, files, copy, lock, pins, rest
<1>15. ASSUME NEW c \in Captures, PublishUndoes(c) PROVE PinInv'
  BY <1>15 DEF PublishUndoes, db, files, copy, lock, pins, rest
<1>16. ASSUME NEW c \in Captures, InstallFails(c) PROVE PinInv'
  BY <1>16 DEF InstallFails, db, files, copy, lock, pins, rest
<1>17. ASSUME NEW c \in Captures, HandoverPins(c) PROVE PinInv'
  BY <1>17 DEF HandoverPins, db, files, copy, lock, pins, rest
<1>18. ASSUME NEW c \in Captures, HandoverEnds(c) PROVE PinInv'
  BY <1>18 DEF HandoverEnds, db, files, copy, lock, pins, rest
<1>19. ASSUME NEW r \in Readers, ReaderReads(r) PROVE PinInv'
  BY <1>19 DEF ReaderReads, db, files, copy, lock, pins, rest
<1>20. ASSUME NEW r \in Readers, ReaderPins(r) PROVE PinInv'
  BY <1>20 DEF ReaderPins, db, files, copy, lock, pins, rest
<1>21. ASSUME NEW r \in Readers, ReaderEnds(r) PROVE PinInv'
  BY <1>21 DEF ReaderEnds, db, files, copy, lock, pins, rest
<1>22. ASSUME BackupPins PROVE PinInv'
  BY <1>22 DEF BackupPins, db, files, copy, lock, pins, rest
<1>23. ASSUME BackupDumps PROVE PinInv'
  BY <1>23 DEF BackupDumps, db, files, copy, lock, pins, rest
<1>24. ASSUME BackupEnds PROVE PinInv'
  BY <1>24 DEF BackupEnds, db, files, copy, lock, pins, rest
<1>25. ASSUME NEW boot \in BOOLEAN, GcReads(boot) PROVE PinInv'
  <2>1. \A h \in gc'.todo : ~Pinned(h)
    BY <1>25 DEF GcReads, NoGc
  <2>2. \A h \in Blobs : source[h].state \in {"ready", "broken"} => source'[h].state = source[h].state
    BY <1>25, ReadsKeepRows
  <2>3. UNCHANGED <<object, lost, reader, backup, caller, content>> /\ gc'.pc = "rows"
    BY <1>25 DEF GcReads, NoGc, files, copy, pins
  <2> QED BY <2>1, <2>2, <2>3
<1>26. ASSUME NEW h \in Blobs, GcEntombs(h) PROVE PinInv'
  BY <1>26 DEF GcEntombs, db, files, copy, lock, pins, rest
<1>27. ASSUME GcUnlinks PROVE PinInv'
  BY <1>27 DEF GcUnlinks, db, files, copy, lock, pins, rest
<1>28. ASSUME GcUnlinkFails PROVE PinInv'
  BY <1>28 DEF GcUnlinkFails, db, files, copy, lock, pins, rest
<1>29. ASSUME GcDeletes PROVE PinInv'
  BY <1>29 DEF GcDeletes, NoRow, db, files, copy, lock, pins, rest
<1>30. ASSUME GcScans PROVE PinInv'
  BY <1>30 DEF GcScans, db, files, copy, lock, pins, rest
<1>31. ASSUME GcAsks PROVE PinInv'
  BY <1>31 DEF GcAsks, db, files, copy, lock, pins, rest
<1>32. ASSUME GcSweeps PROVE PinInv'
  BY <1>32 DEF GcSweeps, NoGc, db, files, copy, lock, pins, rest
<1>33. ASSUME Hour PROVE PinInv'
  <2>1. \A h \in Blobs : source'[h].state = source[h].state /\ (object'[h] # "none" <=> object[h] # "none")
    BY <1>33 DEF Hour, Older
  <2>2. UNCHANGED <<lost, gc, reader, backup, caller, content>>
    BY <1>33 DEF Hour, copy, lock, pins, rest
  <2> QED BY <2>1, <2>2
<1>34. ASSUME NEW h \in Blobs, Lose(h) PROVE PinInv'
  BY <1>34 DEF Lose, db, files, copy, lock, pins, rest
<1>35. ASSUME Crash PROVE PinInv'
  BY <1>35 DEF Crash, NoGc, NoPub, db, files, copy, lock, pins, rest
<1>36. ASSUME NEW j \in Jobs, Job(j) PROVE PinInv'
  BY <1>36 DEF Job, JobGoes, Clone, Promote, db, files, copy, lock, pins, rest
<1>37. CASE UNCHANGED vars
  BY <1>37 DEF vars, db, files, copy, lock, pins, rest
<1> QED
  BY <1>1, <1>2, <1>3, <1>4, <1>5, <1>6, <1>7, <1>8, <1>9, <1>10, <1>11, <1>12, <1>13, <1>14, <1>15, <1>16, <1>17, <1>18, <1>19, SMTT(30), ZenonT(90),
     <1>20, <1>21, <1>22, <1>23, <1>24, <1>25, <1>26, <1>27, <1>28, <1>29, <1>30, <1>31, <1>32, <1>33, <1>34, <1>35, <1>36, <1>37
     DEF Next, Capture, Worker, Publish, Collect

(* What a pinned blob's file may meet in one step. *)
Stays == \A h \in Blobs : Intact(h) /\ Pinned(h) /\ source[h].state # "none" => Intact(h)' \/ h \in lost'

LEMMA StepKeepsPinned == TypeOK /\ SpoolInv /\ PinInv /\ [Next]_vars => Stays
<1> SUFFICES ASSUME TypeOK, SpoolInv, PinInv, [Next]_vars PROVE Stays
  OBVIOUS
<1> USE NamesAssumption DEF TypeOK, SpoolInv, Decided, PinInv, Stays, Intact, Free, Collector, Ages
<1>1. ASSUME NEW c \in Captures, Admit(c) PROVE Stays
  BY <1>1 DEF Admit, db, files, copy, lock, pins, rest
<1>2. ASSUME NEW c \in Captures, WorkerNamesPart(c) PROVE Stays
  BY <1>2 DEF WorkerNamesPart, db, files, copy, lock, pins, rest
<1>3. ASSUME NEW c \in Captures, WorkerOpensPart(c) PROVE Stays
  BY <1>3 DEF WorkerOpensPart, db, files, copy, lock, pins, rest
<1>4. ASSUME NEW c \in Captures, WorkerKeeps(c) PROVE Stays
  BY <1>4 DEF WorkerKeeps, db, files, copy, lock, pins, rest
<1>5. ASSUME NEW c \in Captures, WorkerFails(c) PROVE Stays
  BY <1>5 DEF WorkerFails, db, files, copy, lock, pins, rest
<1>6. ASSUME NEW c \in Captures, Drop(c) PROVE Stays
  BY <1>6 DEF Drop, db, files, copy, lock, pins, rest
<1>7. ASSUME NEW c \in Captures, Receive(c) PROVE Stays
  BY <1>7 DEF Receive, db, files, copy, lock, pins, rest
<1>8. ASSUME NEW c \in Captures, GiveUp(c) PROVE Stays
  BY <1>8 DEF GiveUp, db, files, copy, lock, pins, rest
<1>9. ASSUME NEW c \in Captures, Discard(c) PROVE Stays
  BY <1>9 DEF Discard, db, files, copy, lock, pins, rest
<1>10. ASSUME NEW c \in Captures, PublishBegin(c) PROVE Stays
  BY <1>10 DEF PublishBegin, db, files, copy, lock, pins, rest
<1>11. ASSUME NEW c \in Captures, PublishLooksUp(c) PROVE Stays
  BY <1>11 DEF PublishLooksUp, db, files, copy, lock, pins, rest
<1>12. ASSUME NEW c \in Captures, PublishInstalls(c) PROVE Stays
  BY <1>12 DEF PublishInstalls, db, files, copy, lock, pins, rest
<1>13. ASSUME NEW c \in Captures, PublishCommits(c) PROVE Stays
  BY <1>13 DEF PublishCommits, db, files, copy, lock, pins, rest
<1>14. ASSUME NEW c \in Captures, PublishFails(c) PROVE Stays
  BY <1>14 DEF PublishFails, db, files, copy, lock, pins, rest
<1>15. ASSUME NEW c \in Captures, PublishUndoes(c) PROVE Stays
  BY <1>15 DEF PublishUndoes, db, files, copy, lock, pins, rest
<1>16. ASSUME NEW c \in Captures, InstallFails(c) PROVE Stays
  BY <1>16 DEF InstallFails, db, files, copy, lock, pins, rest
<1>17. ASSUME NEW c \in Captures, HandoverPins(c) PROVE Stays
  BY <1>17 DEF HandoverPins, db, files, copy, lock, pins, rest
<1>18. ASSUME NEW c \in Captures, HandoverEnds(c) PROVE Stays
  BY <1>18 DEF HandoverEnds, db, files, copy, lock, pins, rest
<1>19. ASSUME NEW r \in Readers, ReaderReads(r) PROVE Stays
  BY <1>19 DEF ReaderReads, db, files, copy, lock, pins, rest
<1>20. ASSUME NEW r \in Readers, ReaderPins(r) PROVE Stays
  BY <1>20 DEF ReaderPins, db, files, copy, lock, pins, rest
<1>21. ASSUME NEW r \in Readers, ReaderEnds(r) PROVE Stays
  BY <1>21 DEF ReaderEnds, db, files, copy, lock, pins, rest
<1>22. ASSUME BackupPins PROVE Stays
  BY <1>22 DEF BackupPins, db, files, copy, lock, pins, rest
<1>23. ASSUME BackupDumps PROVE Stays
  BY <1>23 DEF BackupDumps, db, files, copy, lock, pins, rest
<1>24. ASSUME BackupEnds PROVE Stays
  BY <1>24 DEF BackupEnds, db, files, copy, lock, pins, rest
<1>25. ASSUME NEW boot \in BOOLEAN, GcReads(boot) PROVE Stays
  BY <1>25 DEF GcReads, NoGc, db, files, copy, lock, pins, rest
<1>26. ASSUME NEW h \in Blobs, GcEntombs(h) PROVE Stays
  BY <1>26 DEF GcEntombs, db, files, copy, lock, pins, rest
<1>27. ASSUME GcUnlinks PROVE Stays
  BY <1>27 DEF GcUnlinks, db, files, copy, lock, pins, rest
<1>28. ASSUME GcUnlinkFails PROVE Stays
  BY <1>28 DEF GcUnlinkFails, db, files, copy, lock, pins, rest
<1>29. ASSUME GcDeletes PROVE Stays
  BY <1>29 DEF GcDeletes, NoRow, db, files, copy, lock, pins, rest
<1>30. ASSUME GcScans PROVE Stays
  BY <1>30 DEF GcScans, db, files, copy, lock, pins, rest
<1>31. ASSUME GcAsks PROVE Stays
  BY <1>31 DEF GcAsks, db, files, copy, lock, pins, rest
<1>32. ASSUME GcSweeps PROVE Stays
  BY <1>32 DEF GcSweeps, NoGc, db, files, copy, lock, pins, rest
<1>33. ASSUME Hour PROVE Stays
  <2>1. \A h \in Blobs : source'[h].state = source[h].state /\ (object'[h] # "none" <=> object[h] # "none")
    BY <1>33 DEF Hour, Older
  <2>2. UNCHANGED <<lost, gc, reader, backup, caller, content>>
    BY <1>33 DEF Hour, copy, lock, pins, rest
  <2> QED BY <2>1, <2>2
<1>34. ASSUME NEW h \in Blobs, Lose(h) PROVE Stays
  BY <1>34 DEF Lose, db, files, copy, lock, pins, rest
<1>35. ASSUME Crash PROVE Stays
  BY <1>35 DEF Crash, NoGc, NoPub, db, files, copy, lock, pins, rest
<1>36. ASSUME NEW j \in Jobs, Job(j) PROVE Stays
  BY <1>36 DEF Job, JobGoes, Clone, Promote, db, files, copy, lock, pins, rest
<1>37. CASE UNCHANGED vars
  BY <1>37 DEF vars, db, files, copy, lock, pins, rest
<1> QED
  BY <1>1, <1>2, <1>3, <1>4, <1>5, <1>6, <1>7, <1>8, <1>9, <1>10, <1>11, <1>12, <1>13, <1>14, <1>15, <1>16, <1>17, <1>18, <1>19,
     <1>20, <1>21, <1>22, <1>23, <1>24, <1>25, <1>26, <1>27, <1>28, <1>29, <1>30, <1>31, <1>32, <1>33, <1>34, <1>35, <1>36, <1>37
     DEF Next, Capture, Worker, Publish, Collect

(* Where the staged bytes are: a copy that runs has its file, and a receipt    *)
(* that is pinned has it until its publication has moved it; what the        *)
(* collector's walk found is neither about to be opened nor in use.          *)
StagedInv ==
    /\ \A c \in Captures : caller[c] = "none" => worker[c] = "none" /\ part[c] = "none"
    /\ \A c \in Captures : worker[c] \in {"admitted", "registered"} => part[c] = "none"
    /\ \A c \in Captures : worker[c] = "copying" => part[c] # "none"
    /\ \A c \in InFlight \ abandoned : caller[c] = "waiting"
    /\ \A c \in Captures : worker[c] = "kept" /\ caller[c] = "waiting" => c \in stagingPins
    /\ \A c \in Captures : caller[c] \in {"staged", "publishing"} => c \in stagingPins
    /\ \A c \in stagingPins : worker[c] = "kept" /\ caller[c] \in {"waiting", "staged", "publishing"}
    /\ \A c \in stagingPins : part[c] # "none" \/ (guard = c /\ pub.moved)
    /\ \A c \in Captures : guard = c => caller[c] = "publishing" /\ (pub.pc = "install" => ~pub.moved)
    /\ gc.pc \in {"ask", "sweep"} =>
          \A c \in gc.parts : caller[c] # "none" /\ worker[c] \notin {"admitted", "registered"}
    /\ gc.pc = "sweep" => \A c \in gc.parts : worker[c] # "copying" /\ c \notin stagingPins

LEMMA StagedInductive == TypeOK /\ StagedInv /\ [Next]_vars => StagedInv'
<1> SUFFICES ASSUME TypeOK, StagedInv, [Next]_vars PROVE StagedInv'
  OBVIOUS
<1> USE NamesAssumption DEF TypeOK, StagedInv, InFlight, Free, Collector
<1> DEFINE staging == <<part, worker, caller, abandoned, stagingPins, guard, pub, gc>>
<1>1. ASSUME UNCHANGED staging PROVE StagedInv'
  BY <1>1
<1>2. ASSUME NEW c \in Captures, Admit(c) PROVE StagedInv'
  BY <1>2 DEF Admit, db, files, copy, lock, pins, rest
<1>3. ASSUME NEW c \in Captures, WorkerNamesPart(c) PROVE StagedInv'
  BY <1>3 DEF WorkerNamesPart, db, files, copy, lock, pins, rest
<1>4. ASSUME NEW c \in Captures, WorkerOpensPart(c) PROVE StagedInv'
  BY <1>4 DEF WorkerOpensPart, db, files, copy, lock, pins, rest
<1>5. ASSUME NEW c \in Captures, WorkerKeeps(c) PROVE StagedInv'
  BY <1>5 DEF WorkerKeeps, db, files, copy, lock, pins, rest
<1>6. ASSUME NEW c \in Captures, WorkerFails(c) PROVE StagedInv'
  BY <1>6 DEF WorkerFails, db, files, copy, lock, pins, rest
<1>7. ASSUME NEW c \in Captures, Drop(c) PROVE StagedInv'
  BY <1>7 DEF Drop, db, files, copy, lock, pins, rest
<1>8. ASSUME NEW c \in Captures, Receive(c) PROVE StagedInv'
  BY <1>8 DEF Receive, db, files, copy, lock, pins, rest
<1>9. ASSUME NEW c \in Captures, GiveUp(c) PROVE StagedInv'
  BY <1>9 DEF GiveUp, db, files, copy, lock, pins, rest
<1>10. ASSUME NEW c \in Captures, Discard(c) PROVE StagedInv'
  BY <1>10 DEF Discard, db, files, copy, lock, pins, rest
<1>11. ASSUME NEW c \in Captures, PublishBegin(c) PROVE StagedInv'
  BY <1>11 DEF PublishBegin, db, files, copy, lock, pins, rest
<1>12. ASSUME NEW c \in Captures, PublishLooksUp(c) PROVE StagedInv'
  BY <1>12 DEF PublishLooksUp, db, files, copy, lock, pins, rest
<1>13. ASSUME NEW c \in Captures, PublishInstalls(c) PROVE StagedInv'
  BY <1>13 DEF PublishInstalls, db, files, copy, lock, pins, rest
<1>14. ASSUME NEW c \in Captures, PublishCommits(c) PROVE StagedInv'
  BY <1>14 DEF PublishCommits, NoPub, db, files, copy, lock, pins, rest
<1>15. ASSUME NEW c \in Captures, PublishFails(c) PROVE StagedInv'
  BY <1>15 DEF PublishFails, db, files, copy, lock, pins, rest
<1>16. ASSUME NEW c \in Captures, PublishUndoes(c) PROVE StagedInv'
  BY <1>16 DEF PublishUndoes, NoPub, db, files, copy, lock, pins, rest
<1>17. ASSUME NEW c \in Captures, InstallFails(c) PROVE StagedInv'
  <2>1. /\ guard = c /\ pub.pc = "install" /\ guard' = Free
        /\ UNCHANGED <<worker, abandoned, gc>>
    BY <1>17 DEF InstallFails, pins
  <2>2. CASE caller' = [caller EXCEPT ![c] = "staged"] /\ UNCHANGED <<files, stagingPins, lost>>
    BY <2>1, <2>2 DEF files
  <2>3. CASE /\ part' = [part EXCEPT ![c] = "none"]
             /\ caller' = [caller EXCEPT ![c] = "gone"]
             /\ stagingPins' = stagingPins \ {c}
    BY <2>1, <2>3
  <2> QED BY <1>17, <2>2, <2>3 DEF InstallFails
<1>18. ASSUME NEW c \in Captures, HandoverPins(c) PROVE StagedInv'
  BY <1>18 DEF HandoverPins, db, files, copy, lock, pins, rest
<1>19. ASSUME NEW c \in Captures, HandoverEnds(c) PROVE StagedInv'
  BY <1>19 DEF HandoverEnds, db, files, copy, lock, pins, rest
<1>20. ASSUME NEW r \in Readers, ReaderReads(r) \/ ReaderPins(r) \/ ReaderEnds(r) PROVE StagedInv'
  BY <1>1, <1>20 DEF ReaderReads, ReaderPins, ReaderEnds, db, files, copy, lock, rest
<1>21. ASSUME BackupPins \/ BackupDumps \/ BackupEnds PROVE StagedInv'
  BY <1>1, <1>21 DEF BackupPins, BackupDumps, BackupEnds, db, files, copy, lock, rest
<1>22. ASSUME NEW j \in Jobs, Job(j) PROVE StagedInv'
  BY <1>1, <1>22 DEF Job, JobGoes, Clone, Promote, files, copy, lock, rest
<1>23. ASSUME NEW boot \in BOOLEAN, GcReads(boot) PROVE StagedInv'
  BY <1>23 DEF GcReads, NoGc, files, copy
<1>24. ASSUME NEW h \in Blobs, GcEntombs(h) PROVE StagedInv'
  BY <1>24 DEF GcEntombs, files, copy, lock
<1>25. ASSUME GcUnlinks PROVE StagedInv'
  BY <1>25 DEF GcUnlinks, db, files, copy, lock, pins, rest
<1>26. ASSUME GcUnlinkFails PROVE StagedInv'
  BY <1>26 DEF GcUnlinkFails, db, files, copy, lock, pins, rest
<1>27. ASSUME GcDeletes PROVE StagedInv'
  BY <1>27 DEF GcDeletes, db, files, copy, lock, pins, rest
<1>28. ASSUME GcScans PROVE StagedInv'
  BY <1>28 DEF GcScans, db, files, copy, lock, pins, rest
<1>29. ASSUME GcAsks PROVE StagedInv'
  BY <1>29 DEF GcAsks, StagingInUse, db, files, copy, lock, pins, rest
<1>30. ASSUME GcSweeps PROVE StagedInv'
  BY <1>30 DEF GcSweeps, NoGc, db, files, copy, lock, pins, rest
<1>31. ASSUME Hour PROVE StagedInv'
  BY <1>31 DEF Hour, Older, Ages, db, files, copy, lock, pins, rest
<1>32. ASSUME Crash PROVE StagedInv'
  BY <1>32 DEF Crash, NoGc, NoPub, db, files, copy, lock, pins, rest
<1>33. ASSUME NEW h \in Blobs, Lose(h) PROVE StagedInv'
  BY <1>1, <1>33 DEF Lose, copy, lock
<1>34. CASE UNCHANGED vars
  BY <1>1, <1>34 DEF vars, files, copy, lock, rest
<1> QED
  BY <1>2, <1>3, <1>4, <1>5, <1>6, <1>7, <1>8, <1>9, <1>10, <1>11, <1>12, <1>13, <1>14, <1>15, <1>16, <1>17, <1>18, <1>19, <1>20, <1>21, <1>22, <1>23, <1>24, <1>25, <1>26, <1>27, <1>28, <1>29, <1>30, <1>31, <1>32, <1>33, <1>34, SMTT(30), ZenonT(90)
     DEF Next, Capture, Worker, Publish, Collect

LEMMA InitHolds == Init => TypeOK /\ SpoolInv /\ PinInv
  BY NamesAssumption, BoundAssumption
     DEF Init, TypeOK, SpoolInv, Decided, Spared, ReadyHasBytes, PinInv, Intact, Ages, Free, Collector, NoPub,
         NoGc, NoRow

LEMMA InvHolds == Spec => [](TypeOK /\ SpoolInv /\ PinInv)
  BY InitHolds, TypeInductive, SpoolInductive, PinInductive, PTL DEF Spec

(* The types, and the storage guard: at most one of a publication and the   *)
(* collector is in its critical section.                                    *)
THEOREM TypeCorrect == Spec => []TypeOK
  BY InvHolds, PTL

(* However clones, promotions, publications and the collector interleave,   *)
(* a job names a row that is neither gone nor on its way out.               *)
THEOREM JobsAreSafe == Spec => []JobsNameLiveSources
<1>1. SpoolInv => JobsNameLiveSources
  BY DEF SpoolInv, Spared, JobsNameLiveSources
<1> QED BY <1>1, InvHolds, PTL

(* A ready row has its bytes, through every crash and failed file call. *)
THEOREM ReadyRowsHaveBytes == Spec => []ReadyHasBytes
<1>1. SpoolInv => ReadyHasBytes
  BY DEF SpoolInv
<1> QED BY <1>1, InvHolds, PTL

(* What a backup's database names, its file copy still finds. *)
THEOREM BackupsAreWhole == Spec => []BackupIsWhole
<1>1. PinInv => BackupIsWhole
  BY DEF PinInv, BackupIsWhole
<1> QED BY <1>1, InvHolds, PTL

(* The file of a row that a reader, a handover or a backup holds is never   *)
(* removed, whatever the collector decided before the pin was there.        *)
THEOREM PinnedFilesStay == Spec => PinnedFileStays
<1>1. TypeOK /\ SpoolInv /\ PinInv /\ [Next]_vars => [Stays]_vars
  BY StepKeepsPinned
<1>2. Spec => [][Stays]_vars
  BY <1>1, InvHolds, PTL DEF Spec
<1> QED BY <1>2, PTL DEF PinnedFileStays, Stays

(* No sweep takes a .part from under the copy that writes it or the receipt *)
(* that owns it, though the walk, the question who uses what and the unlink *)
(* are three steps and copies begin, end and are given up in between.       *)
THEOREM StagedBytesAreSafe == Spec => []StagedBytesStay
<1>1. Init => StagedInv
  BY NamesAssumption DEF Init, StagedInv, InFlight, NoGc, Free
<1>2. TypeOK /\ StagedInv /\ [Next]_vars => StagedInv'
  BY StagedInductive
<1>3. TypeOK /\ StagedInv => StagedBytesStay
  BY DEF TypeOK, StagedInv, StagedBytesStay
<1> QED BY <1>1, <1>2, <1>3, InvHolds, PTL DEF Spec
=============================================================================
