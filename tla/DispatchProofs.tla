---------------------------- MODULE DispatchProofs ----------------------------
(***************************************************************************)
(* Proofs about Dispatch, for every set of rows and every bound.            *)
(*                                                                         *)
(* Inv is inductive together with TypeOK.  Own, which says that an attempt  *)
(* of a queued row reads its own claim and that the row points at its own   *)
(* archive, needs one hypothesis: RetryOvertakes = {}, i.e. no Retry of a   *)
(* row is faster than the row's attempt is in making its archive.           *)
(* With them every step is one the abstract PrintRequest allows, which the   *)
(* last part proves (RequestRefinement).                                   *)
(***************************************************************************)
EXTENDS Dispatch, FiniteSetTheorems, TLAPS

(* What has been sent: a start under way or printing, and a job's own fact  *)
(* of it, are in "published"; the execution archive of a published attempt *)
(* has left "prepared", and its job knows of it while it lives.            *)
SentInv ==
    /\ wire \subseteq published
    /\ onPrinter # 0 => onPrinter \in published
    /\ \A k \in Claims : Published(k) => k \in published
    /\ \A k \in published : phase[k] \in {"sending", "sent", "accepted"} /\ archive[k] # "none"
    /\ \A k \in published : pc[k] \in Unfinished => pc[k] \in AfterSend \cup {"settle"} /\ Published(k)
    /\ \A k \in Claims : pc[k] = "sending" => phase[k] = "sending"
    /\ \A k \in Claims : pc[k] \in AfterSend => k \in published
    /\ \A k \in Claims : pc[k] = "settle" /\ outcome[k] \in {"success", "uncertain"} => k \in published

(* Attempts are numbered by their claims, and a row names its own.          *)
ClaimInv ==
    /\ \A k \in Claims : k > claims => pc[k] = "none" /\ archive[k] = "none" /\ item[k] = NoItem
    /\ \A k \in Claims : pc[k] = "none" => k \notin published
    /\ \A i \in Items : startedAt[i] # 0 => item[startedAt[i]] = i
    /\ \A i \in Items : status[i] = "printing" => startedAt[i] # 0
    /\ \A k \in Claims : direct[k] => item[k] \in Directs
    /\ \A k \in Claims : pc[k] = "queued" => direct[k]
    /\ \A k \in Claims : item[k] \in Items => status[item[k]] # "absent"

(* An execution archive is made once, and a row points only at made ones.   *)
ArchiveInv ==
    /\ \A k \in Claims : pc[k] \in {"none", "queued", "spawned", "admitted", "prepared"}
                            => archive[k] = "none"
    /\ \A k \in Claims : pc[k] \in {"archived"} \cup InTry \cup AfterSend => archive[k] # "none"
    /\ \A k \in Claims : swapRan[k] => archive[k] # "none"
    /\ \A i \in Items : link[i] \in Claims => archive[link[i]] # "none"
    /\ \A k \in Claims : orig[k] \in Claims => archive[orig[k]] # "none"
    /\ \A i \in Items : status[i] = "printing" /\ archive[startedAt[i]] # "none" => link[i] \in Claims

(* A printing row and an external row never claim one print. *)
ExternalInv ==
    external # 0 => /\ external \in published
                    /\ \A i \in Items : status[i] = "printing" => link[i] # external

(* Until a queued row's attempt has made its archive, the row is its own or *)
(* has been taken from it for good.                                        *)
GateInv ==
    \A k \in Claims :
        ~direct[k] /\ pc[k] \in {"spawned", "admitted", "prepared"} =>
            /\ status[item[k]] # "pending"
            /\ status[item[k]] = "printing" => startedAt[item[k]] = k

(* So the attempt reads its own claim, and its row points at its own archive. *)
TokenInv ==
    /\ \A k \in Claims : ~direct[k] /\ pc[k] \in Unfinished \cup {"done"} => token[k] \in {0, k}
    /\ \A k \in Claims : item[k] \notin Directs => orig[k] \notin Claims
    /\ \A i \in Items \ Directs :
          /\ status[i] = "pending" => link[i] \notin Claims
          /\ status[i] = "printing" /\ link[i] \in Claims => link[i] = startedAt[i]

(* Holds whatever a Retry overtakes. *)
Inv == OneClaimPerLane /\ BindingIsOwned /\ SentInv /\ ClaimInv /\ ArchiveInv /\ ExternalInv

(* Holds when no Retry overtakes an attempt. *)
Own == GateInv /\ TokenInv /\ QueuedClaimWasSent

(* The three action properties, as formulas about one step. *)
RequeueStepOK ==
    \A i \in Items : status[i] = "printing" /\ status'[i] = "pending" =>
        /\ startedAt[i] \notin published
        /\ startedAt[i] # 0 => ~swapRan[startedAt[i]]

FailureStepOK ==
    \A i \in Items \ Directs :
        (status[i] = "printing" /\ status'[i] = "failed" /\ current = i) => laneStatus' \in Halted

HaltStepOK ==
    (laneStatus \in Halted /\ laneStatus' \notin Halted) =>
        \/ ResumeLane
        \/ bound' = onPrinter' /\ bound' # 0 /\ <<bound, onPrinter>>' # <<bound, onPrinter>>

-----------------------------------------------------------------------------
(* What the end of a refused attempt does to its row, its archive and its job. *)
RefusalEffect(k) ==
    /\ item[k] \in Items /\ pc[k] = "settle" /\ outcome[k] \in {"wait", "refuse"}
    /\ pc' = [pc EXCEPT ![k] = "done"]
    /\ orig' = [orig EXCEPT ![k] = NoLink]
    /\ fact' = [fact EXCEPT ![k] = "none"]
    /\ outcome' = [outcome EXCEPT ![k] = "none"]
    /\ UNCHANGED <<item, direct, token, phase, archBoot, swapRan, isPaused, external, server,
                   device, history>>
    /\ \A c \in Claims : archive'[c] = archive[c] \/ (archive[c] # "none" /\ archive'[c] # "none")
    /\ \A i \in Items : i # item[k] => status'[i] = status[i] /\ startedAt'[i] = startedAt[i]
                                     /\ link'[i] = link[i]
    /\ IF token[k] # 0 /\ OwnsClaim(k)
       THEN /\ status'[item[k]] = IF DeferTerminal(k) THEN "failed" ELSE "pending"
            /\ startedAt'[item[k]] \in {0, startedAt[item[k]]}
            /\ link'[item[k]] = orig[k]
       ELSE /\ status'[item[k]] = status[item[k]] /\ startedAt'[item[k]] = startedAt[item[k]]
            /\ link'[item[k]] = link[item[k]]

(* SettleDeferred does that. *)
LEMMA SettleDeferredEffect ==
    ASSUME TypeOK, NEW k \in Claims, SettleDeferred(k)
    PROVE  RefusalEffect(k)
<1> USE DEF TypeOK, RowsOK, JobsOK, ArchivesOK, Terminal, BeforeTry, InTry, AfterSend, Active,
        Unfinished, rows, server, device, history, SettleDeferred, DeferClaim, CloseArchive, Finished,
        RefusalEffect
<1>1. item[k] \in Items
  OBVIOUS
<1>2. \A c \in Claims : archive'[c] = archive[c] \/ (archive[c] # "none" /\ archive'[c] # "none")
  BY SMTT(30)
<1>3. CASE token[k] # 0 /\ OwnsClaim(k)
  BY <1>1, <1>2, <1>3, SMTT(30)
<1>4. CASE ~(token[k] # 0 /\ OwnsClaim(k))
  BY <1>1, <1>2, <1>4, SMTT(30)
<1> QED  BY <1>3, <1>4

(* Every action keeps the type invariant. *)
LEMMA TypeStep ==
    ASSUME TypeOK, Next
    PROVE  TypeOK'
<1> USE ConstantsAssumption DEF TypeOK, RowsOK, LaneOK, JobsOK, ArchivesOK, ServerOK, DeviceOK,
        HistoryOK, Halted, Terminal, BeforeTry, InTry, AfterSend, Active, Unfinished, rows,
        lane, jobs, jobData, archs, server, device, history
<1>1. ASSUME NEW i \in Items, Claim(i) PROVE TypeOK'
  <2> USE <1>1 DEF Claim, LaneFree, NewJob, Claims
  <2>1. RowsOK'
    BY SMTT(30), ZenonT(60)
  <2>2. LaneOK'
    OBVIOUS
  <2>3. JobsOK'
    OBVIOUS
  <2>4. ArchivesOK'
    OBVIOUS
  <2>5. ServerOK'
    OBVIOUS
  <2>6. DeviceOK' /\ HistoryOK'
    OBVIOUS
  <2> QED  BY <2>1, <2>2, <2>3, <2>4, <2>5, <2>6
<1>2. ASSUME NEW i \in Items, ClaimSpent(i) PROVE TypeOK'
  BY <1>2 DEF ClaimSpent
<1>3. ASSUME NEW i \in Items, ClaimDirect(i) PROVE TypeOK'
  BY <1>3, SMTT(30), ZenonT(60) DEF ClaimDirect, LaneFree, NewJob, Claims
<1>4. ASSUME NEW i \in Items, SettleInterrupted(i) PROVE TypeOK'
  BY <1>4 DEF SettleInterrupted, Interrupted, SourceLink, SetQueueError, SetQueueIdle
<1>5. ASSUME NEW i \in Items, Stop(i) PROVE TypeOK'
  BY <1>5 DEF Stop, StopRow, CloseArchive, SetQueuePaused
<1>6. ASSUME NEW i \in Items, BeginStop(i) PROVE TypeOK'
  BY <1>6 DEF BeginStop
<1>7. ASSUME NEW i \in Items, CancelPending(i) PROVE TypeOK'
  BY <1>7 DEF CancelPending
<1>8. ASSUME NEW i \in Items, Retry(i) PROVE TypeOK'
  BY <1>8 DEF Retry, SourceLink
<1>9. ASSUME NEW k \in Claims, TakeJob(k) PROVE TypeOK'
  BY <1>9 DEF TakeJob, MoveTo
<1>10. ASSUME NEW k \in Claims, CancelQueued(k) PROVE TypeOK'
  BY <1>10 DEF CancelQueued, MoveTo
<1>11. ASSUME NEW k \in Claims, CancelJob(k) PROVE TypeOK'
  BY <1>11 DEF CancelJob
<1>12. ASSUME NEW k \in Claims, Admit(k) PROVE TypeOK'
  BY <1>12, SMTT(30) DEF Admit, MoveTo, RunnerEnds
<1>13. ASSUME NEW k \in Claims, Prepare(k) PROVE TypeOK'
  BY <1>13, SMTT(30), ZenonT(60) DEF Prepare, MoveTo, RunnerEnds
<1>14. ASSUME NEW k \in Claims, CreateArchive(k) PROVE TypeOK'
  BY <1>14 DEF CreateArchive, MoveTo
<1>15. ASSUME NEW k \in Claims, CancelBeforeTry(k) PROVE TypeOK'
  BY <1>15 DEF CancelBeforeTry, RunnerEnds
<1>16. ASSUME NEW k \in Claims, Upload(k) PROVE TypeOK'
  BY <1>16 DEF Upload, MoveTo
<1>17. ASSUME NEW k \in Claims, CancelInTry(k) PROVE TypeOK'
  BY <1>17 DEF CancelInTry, RunnerEnds, CloseArchive
<1>18. ASSUME NEW k \in Claims, Bind(k) PROVE TypeOK'
  BY <1>18, SMTT(30), ZenonT(60) DEF Bind, MoveTo, RunnerEnds
<1>19. ASSUME NEW k \in Claims, RunSwapMacro(k) PROVE TypeOK'
  <2> USE <1>19 DEF RunSwapMacro, MoveTo, RunnerEnds
  <2>1. RowsOK' /\ LaneOK' /\ JobsOK' /\ ServerOK' /\ DeviceOK' /\ HistoryOK'
    BY SMTT(30), ZenonT(60)
  <2>2. archive' \in [Claims -> {"none", "printing"} \cup Terminal]
    <3>1. archive' = archive \/ archive' = [archive EXCEPT ![k] = IF archive[k] = "printing"
                                                             THEN "failed" ELSE archive[k]]
      OBVIOUS
    <3> QED  BY <3>1
  <2>3. swapRan' \in [Claims -> BOOLEAN]
    <3>1. swapRan' = swapRan \/ swapRan' = [swapRan EXCEPT ![k] = TRUE]
      OBVIOUS
    <3>2. swapRan \in [Claims -> BOOLEAN]
      OBVIOUS
    <3> HIDE DEF TypeOK, RunSwapMacro
    <3> QED  BY <3>1, <3>2, SMTT(20), ZenonT(30)
  <2>4. phase' = phase /\ archBoot' = archBoot
    OBVIOUS
  <2> QED  BY <2>1, <2>2, <2>3, <2>4
<1>20. ASSUME NEW k \in Claims, Verify(k) PROVE TypeOK'
  BY <1>20, SMTT(30) DEF Verify, MoveTo, RunnerEnds
<1>21. ASSUME NEW k \in Claims, Deferred(k) PROVE TypeOK'
  BY <1>21 DEF Deferred, RunnerEnds
<1>22. ASSUME NEW k \in Claims, RunnerFails(k) PROVE TypeOK'
  BY <1>22 DEF RunnerFails, RunnerEnds, CloseArchive
<1>23. ASSUME NEW k \in Claims, CommitSending(k) PROVE TypeOK'
  BY <1>23 DEF CommitSending, MoveTo, RunnerEnds, CloseArchive
<1>24. ASSUME NEW k \in Claims, Publish(k) PROVE TypeOK'
  BY <1>24 DEF Publish, MoveTo, RunnerEnds
<1>25. ASSUME NEW k \in Claims, RecordSent(k) PROVE TypeOK'
  BY <1>25 DEF RecordSent, MoveTo
<1>26. ASSUME NEW k \in Claims, Answer(k) PROVE TypeOK'
  BY <1>26, SMTT(30) DEF Answer, RunnerEnds, CloseArchive
<1>27. ASSUME NEW k \in Claims, SettleDeferred(k) PROVE TypeOK'
  BY <1>27, SMTT(30), ZenonT(60) DEF SettleDeferred, DeferClaim, CloseArchive, Finished,
     SetQueueError, SetQueueIdle, OwnsClaim
<1>28. ASSUME NEW k \in Claims, SettleFailed(k) PROVE TypeOK'
  BY <1>28, SMTT(30), ZenonT(60) DEF SettleFailed, ReleaseDirectClaim, FailAttempt, Finished,
     SetQueueError, SetQueueIdle, OwnsClaim
<1>29. ASSUME NEW k \in Claims, SettleCancelled(k) PROVE TypeOK'
  BY <1>29, SMTT(30), ZenonT(60) DEF SettleCancelled, ReleaseDirectClaim, CancelItem, Finished,
     SetQueueError, SetQueueIdle, SetQueuePaused, OwnsClaim
<1>30. ASSUME NEW k \in Claims, SettleSent(k) PROVE TypeOK'
  <2> USE <1>30 DEF SettleSent, Finished
  <2>1. RowsOK' /\ LaneOK' /\ JobsOK' /\ ArchivesOK'
    BY SMTT(30)
  <2>2. ServerOK'
    <3>1. item[k] \in Items
      OBVIOUS
    <3>2. boot' = boot /\ open' = open /\ bound' = bound /\ item' = item /\ hold' \in BOOLEAN
      OBVIOUS
    <3>3. watching' \subseteq watching \cup {k}
      OBVIOUS
    <3> QED  BY <3>1, <3>2, <3>3
  <2>3. DeviceOK' /\ HistoryOK'
    OBVIOUS
  <2> QED  BY <2>1, <2>2, <2>3
<1>31. ASSUME NEW k \in Claims, WatchdogFails(k) PROVE TypeOK'
  <2> USE <1>31 DEF WatchdogFails, FailAttempt, CloseArchive, SetQueueError
  <2>1. RowsOK'
    OBVIOUS
  <2>2. LaneOK'
    OBVIOUS
  <2>3. JobsOK'
    OBVIOUS
  <2>4. ArchivesOK'
    OBVIOUS
  <2>5. ServerOK'
    OBVIOUS
  <2>6. DeviceOK' /\ HistoryOK'
    OBVIOUS
  <2> QED  BY <2>1, <2>2, <2>3, <2>4, <2>5, <2>6
<1>32. ASSUME NEW k \in Claims, PrinterStarts(k) PROVE TypeOK'
  <2> USE <1>32 DEF PrinterStarts, CloseStaleRuns, MarkQueuePrinting
  <2>1. RowsOK'
    OBVIOUS
  <2>2. LaneOK'
    BY SMTT(30), ZenonT(60)
  <2>3. JobsOK'
    OBVIOUS
  <2>4. ArchivesOK'
    OBVIOUS
  <2>5. ServerOK'
    OBVIOUS
  <2>6. DeviceOK' /\ HistoryOK'
    OBVIOUS
  <2> QED  BY <2>1, <2>2, <2>3, <2>4, <2>5, <2>6
<1>33. ASSUME NEW k \in Claims, PrinterDrops(k) PROVE TypeOK'
  BY <1>33 DEF PrinterDrops
<1>34. ASSUME NEW r \in {"completed", "failed", "aborted"}, PrinterEnds(r) PROVE TypeOK'
  BY <1>34 DEF PrinterEnds, Normalised, SetQueueError, SetQueueIdle, SetQueuePaused
<1>35. ASSUME Restart PROVE TypeOK'
  <2> USE <1>35 DEF Restart
  <2>1. RowsOK'
    BY SMTT(30)
  <2>2. LaneOK'
    BY SMTT(30)
  <2>3. JobsOK'
    BY SMTT(30)
  <2>4. ServerOK'
    <3>1. boot' \in Nat \ {0}
      OBVIOUS
    <3>2. open' = FALSE /\ bound' = 0 /\ hold' = FALSE /\ watching' = {}
      OBVIOUS
    <3> QED  BY <3>1, <3>2
  <2>5. ArchivesOK' /\ DeviceOK' /\ HistoryOK'
    OBVIOUS
  <2> QED  BY <2>1, <2>2, <2>3, <2>4, <2>5
<1>36. ASSUME Adopt PROVE TypeOK'
  <2> USE <1>36 DEF Adopt, CloseStaleRuns, MarkQueuePrinting
  <2>1. onPrinter \in Claims
    OBVIOUS
  <2>2. link' \in [Items -> Claims \cup {NoLink, Source}]
    BY <2>1, SMTT(30), ZenonT(60)
  <2>3. LaneOK'
    BY <2>1, SMTT(30), ZenonT(120)
  <2>4. RowsOK' /\ JobsOK' /\ ArchivesOK' /\ ServerOK' /\ DeviceOK' /\ HistoryOK'
    BY <2>1, <2>2, SMTT(30)
  <2> QED  BY <2>3, <2>4
<1>37. ASSUME RepairRows PROVE TypeOK'
  BY <1>37, SMTT(30), ZenonT(60) DEF RepairRows, NoPrintingArchive
<1>38. ASSUME ClearContext PROVE TypeOK'
  BY <1>38 DEF ClearContext
<1>39. ASSUME CloseFarm PROVE TypeOK'
  BY <1>39, SMTT(30), ZenonT(60) DEF CloseFarm
<1>40. ASSUME OpenFarm PROVE TypeOK'
  BY <1>40 DEF OpenFarm
<1>41. ASSUME ResumeLane PROVE TypeOK'
  BY <1>41, SMTT(30), ZenonT(60) DEF ResumeLane
<1>42. ASSUME FinishStop PROVE TypeOK'
  BY <1>42 DEF FinishStop, StopRow, CloseArchive, SetQueuePaused
<1>43. ASSUME HoldExpires PROVE TypeOK'
  BY <1>43, SMTT(30), ZenonT(60) DEF HoldExpires
<1> HIDE DEF TypeOK
<1> QED
  BY <1>1, <1>2, <1>3, <1>4, <1>5, <1>6, <1>7, <1>8, <1>9, <1>10, <1>11, <1>12, <1>13,
     <1>14, <1>15, <1>16, <1>17, <1>18, <1>19, <1>20, <1>21, <1>22, <1>23, <1>24, <1>25, <1>26,
     <1>27, <1>28, <1>29, <1>30, <1>31, <1>32, <1>33, <1>34, <1>35, <1>36, <1>37, <1>38, <1>39,
     <1>40, <1>41, <1>42, <1>43
     DEF Next, JobStep, RowStep

(* Every action keeps the invariant that holds whatever a Retry overtakes. *)
LEMMA InvStep ==
    ASSUME TypeOK, TypeOK', Inv, Next
    PROVE  Inv'
<1> USE ConstantsAssumption DEF Inv, OneClaimPerLane, BindingIsOwned, SentInv, ClaimInv,
        ArchiveInv, ExternalInv, Published, TypeOK, RowsOK, LaneOK, JobsOK, ArchivesOK,
        ServerOK, DeviceOK, HistoryOK, Terminal, BeforeTry, InTry, AfterSend, Active,
        Unfinished, rows, lane, jobs, jobData, archs, server, device, history
<1>0. NoLink \notin Claims /\ Source \notin Claims /\ 0 \notin Claims
  BY DEF NoLink, Source, Claims
<1>1. ASSUME NEW i \in Items, Claim(i) PROVE Inv'
  BY <1>0, <1>1 DEF Claim, LaneFree, NewJob
<1>2. ASSUME NEW i \in Items, ClaimSpent(i) PROVE Inv'
  BY <1>0, <1>2 DEF ClaimSpent
<1>3. ASSUME NEW i \in Items, ClaimDirect(i) PROVE Inv'
  BY <1>0, <1>3 DEF ClaimDirect, LaneFree, NewJob
<1>4. ASSUME NEW i \in Items, SettleInterrupted(i) PROVE Inv'
  BY <1>0, <1>4 DEF SettleInterrupted, Interrupted, SourceLink, SetQueueError, SetQueueIdle
<1>5. ASSUME NEW i \in Items, Stop(i) PROVE Inv'
  BY <1>0, <1>5 DEF Stop, StopRow, CloseArchive, SetQueuePaused
<1>6. ASSUME NEW i \in Items, BeginStop(i) PROVE Inv'
  BY <1>0, <1>6 DEF BeginStop
<1>7. ASSUME NEW i \in Items, CancelPending(i) PROVE Inv'
  BY <1>0, <1>7 DEF CancelPending
<1>8. ASSUME NEW i \in Items, Retry(i) PROVE Inv'
  BY <1>0, <1>8 DEF Retry, SourceLink
<1>9. ASSUME NEW k \in Claims, TakeJob(k) PROVE Inv'
  BY <1>0, <1>9 DEF TakeJob, MoveTo
<1>10. ASSUME NEW k \in Claims, CancelQueued(k) PROVE Inv'
  BY <1>0, <1>10 DEF CancelQueued, MoveTo
<1>11. ASSUME NEW k \in Claims, CancelJob(k) PROVE Inv'
  BY <1>0, <1>11 DEF CancelJob
<1>12. ASSUME NEW k \in Claims, Admit(k) PROVE Inv'
  BY <1>0, <1>12, SMTT(30), ZenonT(30) DEF Admit, MoveTo, RunnerEnds
<1>13. ASSUME NEW k \in Claims, Prepare(k) PROVE Inv'
  BY <1>0, <1>13, SMTT(30), ZenonT(60) DEF Prepare, MoveTo, RunnerEnds
<1>14. ASSUME NEW k \in Claims, CreateArchive(k) PROVE Inv'
  BY <1>0, <1>14 DEF CreateArchive, MoveTo
<1>15. ASSUME NEW k \in Claims, CancelBeforeTry(k) PROVE Inv'
  BY <1>0, <1>15 DEF CancelBeforeTry, RunnerEnds
<1>16. ASSUME NEW k \in Claims, Upload(k) PROVE Inv'
  BY <1>0, <1>16 DEF Upload, MoveTo
<1>17. ASSUME NEW k \in Claims, CancelInTry(k) PROVE Inv'
  BY <1>0, <1>17 DEF CancelInTry, RunnerEnds, CloseArchive
<1>18. ASSUME NEW k \in Claims, Bind(k) PROVE Inv'
  BY <1>0, <1>18 DEF Bind, MoveTo, RunnerEnds
<1>19. ASSUME NEW k \in Claims, RunSwapMacro(k) PROVE Inv'
  BY <1>0, <1>19, SMTT(30), ZenonT(60) DEF RunSwapMacro, MoveTo, RunnerEnds
<1>20. ASSUME NEW k \in Claims, Verify(k) PROVE Inv'
  BY <1>0, <1>20 DEF Verify, MoveTo, RunnerEnds
<1>21. ASSUME NEW k \in Claims, Deferred(k) PROVE Inv'
  BY <1>0, <1>21 DEF Deferred, RunnerEnds
<1>22. ASSUME NEW k \in Claims, RunnerFails(k) PROVE Inv'
  BY <1>0, <1>22 DEF RunnerFails, RunnerEnds, CloseArchive
<1>23. ASSUME NEW k \in Claims, CommitSending(k) PROVE Inv'
  <2> USE <1>0, <1>23 DEF CommitSending, MoveTo, RunnerEnds, CloseArchive
  <2>1. CASE archive[k] = "printing" /\ phase[k] = "prepared" /\ archBoot[k] = boot
    <3>1. OneClaimPerLane'
      BY <2>1, SMTT(30), ZenonT(60)
    <3>2. BindingIsOwned'
      BY <2>1, SMTT(30), ZenonT(60)
    <3>3. SentInv'
      BY <2>1, SMTT(30), ZenonT(60)
    <3>4. ClaimInv'
      BY <2>1, SMTT(30), ZenonT(60)
    <3>5. ArchiveInv'
      BY <2>1, SMTT(30), ZenonT(60)
    <3>6. ExternalInv'
      BY <2>1, SMTT(30), ZenonT(60)
    <3> QED  BY <3>1, <3>2, <3>3, <3>4, <3>5, <3>6
  <2>2. CASE ~(archive[k] = "printing" /\ phase[k] = "prepared" /\ archBoot[k] = boot)
    BY <2>2, SMTT(30)
  <2> QED  BY <2>1, <2>2
<1>24. ASSUME NEW k \in Claims, Publish(k) PROVE Inv'
  BY <1>0, <1>24 DEF Publish, MoveTo, RunnerEnds
<1>25. ASSUME NEW k \in Claims, RecordSent(k) PROVE Inv'
  BY <1>0, <1>25 DEF RecordSent, MoveTo
<1>26. ASSUME NEW k \in Claims, Answer(k) PROVE Inv'
  BY <1>0, <1>26 DEF Answer, RunnerEnds, CloseArchive
<1>27. ASSUME NEW k \in Claims, SettleDeferred(k) PROVE Inv'
  <2>1. RefusalEffect(k)
    BY <1>27, SettleDeferredEffect
  <2> USE <1>0, <2>1 DEF RefusalEffect, OwnsClaim
  <2>2. OneClaimPerLane'
    OBVIOUS
  <2>3. BindingIsOwned'
    OBVIOUS
  <2>4. SentInv'
    <3> HIDE DEF OneClaimPerLane, BindingIsOwned, ArchiveInv, ExternalInv, LaneOK, ServerOK
    <3>1. CASE token[k] # 0 /\ OwnsClaim(k)
      BY <3>1, SMTT(30)
    <3>2. CASE ~(token[k] # 0 /\ OwnsClaim(k))
      BY <3>2, SMTT(30)
    <3> QED  BY <3>1, <3>2
  <2>5. ClaimInv'
    <3> HIDE DEF OneClaimPerLane, BindingIsOwned, SentInv, ArchiveInv, ExternalInv, LaneOK, ServerOK,
             DeviceOK
    <3>1. CASE token[k] # 0 /\ OwnsClaim(k)
      BY <3>1, SMTT(30)
    <3>2. CASE ~(token[k] # 0 /\ OwnsClaim(k))
      BY <3>2, SMTT(30)
    <3> QED  BY <3>1, <3>2
  <2>6. ArchiveInv'
    <3> HIDE DEF BindingIsOwned, SentInv, ExternalInv, LaneOK, ServerOK, DeviceOK, HistoryOK
    <3>1. \A c \in Claims : archive'[c] = "none" <=> archive[c] = "none"
      OBVIOUS
    <3>2. \A i \in Items : link'[i] = link[i] \/ link'[i] = orig[k]
      OBVIOUS
    <3>3. \A i \in Items : status'[i] = "printing" =>
              status[i] = "printing" /\ startedAt'[i] = startedAt[i] /\ link'[i] = link[i]
      OBVIOUS
    <3>4. \A c \in Claims : orig'[c] = orig[c] \/ orig'[c] = NoLink
      OBVIOUS
    <3>5. \A c \in Claims : pc'[c] = pc[c] \/ pc'[c] = "done"
      OBVIOUS
    <3>6. swapRan' = swapRan
      OBVIOUS
    <3> HIDE DEF RefusalEffect
    <3>7. \A c \in Claims : pc'[c] \in {"none", "queued", "spawned", "admitted", "prepared"}
                             => archive'[c] = "none"
      BY <3>1, <3>5
    <3>8. \A c \in Claims : pc'[c] \in {"archived"} \cup InTry \cup AfterSend => archive'[c] # "none"
      BY <3>1, <3>5
    <3>9. \A c \in Claims : swapRan'[c] => archive'[c] # "none"
      BY <3>1, <3>6
    <3>10. \A i \in Items : link'[i] \in Claims => archive'[link'[i]] # "none"
      <4> SUFFICES ASSUME NEW i \in Items, link'[i] \in Claims PROVE archive'[link'[i]] # "none"
        OBVIOUS
      <4>1. archive[link'[i]] # "none"
        <5>1. CASE link'[i] = link[i]
          BY <5>1
        <5>2. CASE link'[i] = orig[k]
          BY <5>2
        <5> QED  BY <5>1, <5>2, <3>2
      <4> QED  BY <4>1, <3>1
    <3>11. \A c \in Claims : orig'[c] \in Claims => archive'[orig'[c]] # "none"
      BY <3>1, <3>4
    <3>12. \A i \in Items : status'[i] = "printing" /\ archive'[startedAt'[i]] # "none"
                            => link'[i] \in Claims
      <4> SUFFICES ASSUME NEW i \in Items, status'[i] = "printing", archive'[startedAt'[i]] # "none"
                   PROVE  link'[i] \in Claims
        OBVIOUS
      <4>1. status[i] = "printing" /\ startedAt'[i] = startedAt[i] /\ link'[i] = link[i]
        BY <3>3
      <4>2. startedAt[i] \in Claims
        BY <4>1
      <4> QED  BY <4>1, <4>2, <3>1
    <3> QED  BY <3>7, <3>8, <3>9, <3>10, <3>11, <3>12
  <2>7. ExternalInv'
    <3> HIDE DEF BindingIsOwned, SentInv, ArchiveInv, ClaimInv, ServerOK
    <3>1. CASE token[k] # 0 /\ OwnsClaim(k)
      BY <3>1, SMTT(30)
    <3>2. CASE ~(token[k] # 0 /\ OwnsClaim(k))
      BY <3>2, SMTT(30)
    <3> QED  BY <3>1, <3>2
  <2> QED  BY <2>2, <2>3, <2>4, <2>5, <2>6, <2>7
<1>28. ASSUME NEW k \in Claims, SettleFailed(k) PROVE Inv'
  BY <1>0, <1>28, SMTT(30), ZenonT(60) DEF SettleFailed, ReleaseDirectClaim, FailAttempt,
     Finished, SetQueueError, SetQueueIdle, OwnsClaim
<1>29. ASSUME NEW k \in Claims, SettleCancelled(k) PROVE Inv'
  BY <1>0, <1>29 DEF SettleCancelled, ReleaseDirectClaim, CancelItem, Finished, SetQueueError,
     SetQueueIdle, SetQueuePaused, OwnsClaim
<1>30. ASSUME NEW k \in Claims, SettleSent(k) PROVE Inv'
  BY <1>0, <1>30 DEF SettleSent, Finished
<1>31. ASSUME NEW k \in Claims, WatchdogFails(k) PROVE Inv'
  <2> USE <1>0, <1>31 DEF WatchdogFails, FailAttempt, CloseArchive, SetQueueError
  <2>1. \A c \in Claims : archive'[c] = archive[c] \/ (archive[c] # "none" /\ archive'[c] # "none")
    OBVIOUS
  <2>2. \A i \in Items : status'[i] = "printing" => status[i] = "printing"
    OBVIOUS
  <2>3. UNCHANGED <<item, pc, link, orig, startedAt, swapRan>>
    OBVIOUS
  <2>4. ArchiveInv'
    <3> HIDE DEF WatchdogFails
    <3> QED  BY <2>1, <2>2, <2>3
  <2>5. OneClaimPerLane' /\ BindingIsOwned'
    OBVIOUS
  <2>6. SentInv'
    BY <2>1
  <2>7. ClaimInv'
    OBVIOUS
  <2>8. ExternalInv'
    OBVIOUS
  <2> QED  BY <2>4, <2>5, <2>6, <2>7, <2>8
<1>32. ASSUME NEW k \in Claims, PrinterStarts(k) PROVE Inv'
  <2> USE <1>0, <1>32 DEF PrinterStarts, CloseStaleRuns, MarkQueuePrinting
  <2>1. k \in published /\ k \in Claims
    OBVIOUS
  <2>2. archive[k] # "none"
    BY <2>1
  <2>3. \A c \in Claims : archive'[c] = "none" <=> archive[c] = "none"
    <3> HIDE DEF OneClaimPerLane, BindingIsOwned, SentInv, ClaimInv, ArchiveInv, ExternalInv, MarkQueuePrinting
    <3>1. \A c \in Claims : archive'[c] = archive[c] \/ (archive[c] # "none" /\ archive'[c] # "none")
      BY <2>1, <2>2
    <3> QED  BY <3>1
  <2> HIDE DEF CloseStaleRuns
  <2>4. OneClaimPerLane' /\ BindingIsOwned'
    BY <2>1, <2>2
  <2>5. SentInv'
    BY <2>1, <2>3
  <2>6. ClaimInv'
    BY <2>1, <2>3
  <2>7. ArchiveInv'
    <3> HIDE DEF BindingIsOwned, SentInv, ExternalInv
    <3>1. UNCHANGED <<pc, orig, swapRan, status, startedAt>>
      OBVIOUS
    <3>2. \A i \in Items : link'[i] = link[i] \/ link'[i] = k
      OBVIOUS
    <3> HIDE DEF PrinterStarts, MarkQueuePrinting
    <3>3. \A i \in Items : link'[i] \in Claims => archive'[link'[i]] # "none"
      <4> SUFFICES ASSUME NEW i \in Items, link'[i] \in Claims PROVE archive'[link'[i]] # "none"
        OBVIOUS
      <4>1. archive[link'[i]] # "none"
        <5>1. CASE link'[i] = link[i]
          BY <5>1
        <5>2. CASE link'[i] = k
          BY <2>2, <5>2
        <5> QED  BY <5>1, <5>2, <3>2
      <4> QED  BY <4>1, <2>3
    <3>4. \A i \in Items : status[i] = "printing" /\ archive[startedAt[i]] # "none"
                            => link'[i] \in Claims
      <4> SUFFICES ASSUME NEW i \in Items, status[i] = "printing", archive[startedAt[i]] # "none"
                   PROVE  link'[i] \in Claims
        OBVIOUS
      <4>1. link[i] \in Claims
        OBVIOUS
      <4>2. CASE link'[i] = link[i]
        BY <4>1, <4>2
      <4>3. CASE link'[i] = k
        <5>1. k \in Claims
          BY <2>1
        <5> HIDE DEF TypeOK, Inv, ArchiveInv, ClaimInv, SentInv, OneClaimPerLane, BindingIsOwned, ExternalInv
        <5> QED  BY <4>3, <5>1
      <4> QED  BY <4>2, <4>3, <3>2
    <3>5. \A i \in Items : status[i] = "printing" => startedAt[i] \in Claims
      OBVIOUS
    <3>6. \A i \in Items : status'[i] = "printing" /\ archive'[startedAt'[i]] # "none"
                            => link'[i] \in Claims
      BY <2>3, <3>1, <3>4, <3>5
    <3>7. \A c \in Claims : swapRan'[c] => archive'[c] # "none"
      BY <2>3, <3>1
    <3>8. \A c \in Claims : orig'[c] \in Claims => archive'[orig'[c]] # "none"
      BY <2>3, <3>1
    <3>9. \A c \in Claims : pc'[c] \in {"none", "queued", "spawned", "admitted", "prepared"}
                             => archive'[c] = "none"
      BY <2>3, <3>1
    <3>10. \A c \in Claims : pc'[c] \in {"archived"} \cup InTry \cup AfterSend => archive'[c] # "none"
      BY <2>3, <3>1
    <3> QED  BY <3>3, <3>6, <3>7, <3>8, <3>9, <3>10
  <2>8. ExternalInv'
    BY <2>1
  <2> QED  BY <2>4, <2>5, <2>6, <2>7, <2>8
<1>33. ASSUME NEW k \in Claims, PrinterDrops(k) PROVE Inv'
  BY <1>0, <1>33 DEF PrinterDrops
<1>34. ASSUME NEW r \in {"completed", "failed", "aborted"}, PrinterEnds(r) PROVE Inv'
  BY <1>0, <1>34 DEF PrinterEnds, Normalised, SetQueueError, SetQueueIdle, SetQueuePaused
<1>35. ASSUME Restart PROVE Inv'
  BY <1>0, <1>35, SMTT(30), ZenonT(60) DEF Restart
<1>36. ASSUME Adopt PROVE Inv'
  <2> USE <1>0, <1>36 DEF Adopt, CloseStaleRuns, MarkQueuePrinting
  <2>1. onPrinter \in published /\ onPrinter \in Claims
    OBVIOUS
  <2>2. archive[onPrinter] # "none"
    BY <2>1
  <2>3. \A c \in Claims : archive'[c] = "none" <=> archive[c] = "none"
    <3> HIDE DEF OneClaimPerLane, BindingIsOwned, SentInv, ClaimInv, ArchiveInv, ExternalInv, MarkQueuePrinting
    <3>1. \A c \in Claims : archive'[c] = archive[c] \/ (archive[c] # "none" /\ archive'[c] # "none")
      BY <2>1, <2>2
    <3> QED  BY <3>1
  <2> HIDE DEF CloseStaleRuns
  <2>4. OneClaimPerLane' /\ BindingIsOwned'
    BY <2>1, <2>2
  <2>5. SentInv'
    BY <2>1, <2>3
  <2>6. ClaimInv'
    BY <2>1, <2>3
  <2>7. ArchiveInv'
    <3> HIDE DEF BindingIsOwned, SentInv, ExternalInv
    <3>1. UNCHANGED <<pc, orig, swapRan, status, startedAt>>
      OBVIOUS
    <3>2. \A i \in Items : link'[i] = link[i] \/ link'[i] = onPrinter
      OBVIOUS
    <3> HIDE DEF Adopt, MarkQueuePrinting
    <3>3. \A i \in Items : link'[i] \in Claims => archive'[link'[i]] # "none"
      <4> SUFFICES ASSUME NEW i \in Items, link'[i] \in Claims PROVE archive'[link'[i]] # "none"
        OBVIOUS
      <4>1. archive[link'[i]] # "none"
        <5>1. CASE link'[i] = link[i]
          BY <5>1
        <5>2. CASE link'[i] = onPrinter
          BY <2>2, <5>2
        <5> QED  BY <5>1, <5>2, <3>2
      <4> QED  BY <4>1, <2>3
    <3>4. \A i \in Items : status[i] = "printing" /\ archive[startedAt[i]] # "none"
                            => link'[i] \in Claims
      <4> SUFFICES ASSUME NEW i \in Items, status[i] = "printing", archive[startedAt[i]] # "none"
                   PROVE  link'[i] \in Claims
        OBVIOUS
      <4>1. link[i] \in Claims
        OBVIOUS
      <4>2. CASE link'[i] = link[i]
        BY <4>1, <4>2
      <4>3. CASE link'[i] = onPrinter
        <5>1. onPrinter \in Claims
          BY <2>1
        <5> HIDE DEF TypeOK, Inv, ArchiveInv, ClaimInv, SentInv, OneClaimPerLane, BindingIsOwned, ExternalInv
        <5> QED  BY <4>3, <5>1
      <4> QED  BY <4>2, <4>3, <3>2
    <3>5. \A i \in Items : status[i] = "printing" => startedAt[i] \in Claims
      OBVIOUS
    <3>6. \A i \in Items : status'[i] = "printing" /\ archive'[startedAt'[i]] # "none"
                            => link'[i] \in Claims
      BY <2>3, <3>1, <3>4, <3>5
    <3>7. \A c \in Claims : swapRan'[c] => archive'[c] # "none"
      BY <2>3, <3>1
    <3>8. \A c \in Claims : orig'[c] \in Claims => archive'[orig'[c]] # "none"
      BY <2>3, <3>1
    <3>9. \A c \in Claims : pc'[c] \in {"none", "queued", "spawned", "admitted", "prepared"}
                             => archive'[c] = "none"
      BY <2>3, <3>1
    <3>10. \A c \in Claims : pc'[c] \in {"archived"} \cup InTry \cup AfterSend => archive'[c] # "none"
      BY <2>3, <3>1
    <3> QED  BY <3>3, <3>6, <3>7, <3>8, <3>9, <3>10
  <2>8. ExternalInv'
    BY <2>1
  <2> QED  BY <2>4, <2>5, <2>6, <2>7, <2>8
<1>37. ASSUME RepairRows PROVE Inv'
  BY <1>0, <1>37, SMTT(30), ZenonT(60) DEF RepairRows, NoPrintingArchive
<1>38. ASSUME ClearContext PROVE Inv'
  BY <1>0, <1>38 DEF ClearContext
<1>39. ASSUME CloseFarm PROVE Inv'
  BY <1>0, <1>39 DEF CloseFarm
<1>40. ASSUME OpenFarm PROVE Inv'
  BY <1>0, <1>40 DEF OpenFarm
<1>41. ASSUME ResumeLane PROVE Inv'
  BY <1>0, <1>41 DEF ResumeLane
<1>42. ASSUME FinishStop PROVE Inv'
  BY <1>0, <1>42 DEF FinishStop, StopRow, CloseArchive, SetQueuePaused
<1>43. ASSUME HoldExpires PROVE Inv'
  BY <1>0, <1>43 DEF HoldExpires
<1> HIDE DEF TypeOK, Inv
<1> QED
  BY <1>1, <1>2, <1>3, <1>4, <1>5, <1>6, <1>7, <1>8, <1>9, <1>10, <1>11, <1>12, <1>13,
     <1>14, <1>15, <1>16, <1>17, <1>18, <1>19, <1>20, <1>21, <1>22, <1>23, <1>24, <1>25, <1>26,
     <1>27, <1>28, <1>29, <1>30, <1>31, <1>32, <1>33, <1>34, <1>35, <1>36, <1>37, <1>38, <1>39,
     <1>40, <1>41, <1>42, <1>43
     DEF Next, JobStep, RowStep

(* Every action keeps what an attempt owns, if no Retry overtakes one. *)
LEMMA OwnStep ==
    ASSUME RetryOvertakes = {}, TypeOK, TypeOK', Inv, Own, Next
    PROVE  Own'
<1> USE ConstantsAssumption DEF Own, GateInv, TokenInv, QueuedClaimWasSent, ClaimWithoutJob,
        Inv, OneClaimPerLane, BindingIsOwned, SentInv, ClaimInv, ArchiveInv, ExternalInv,
        Published, SourceLink, TypeOK, RowsOK, LaneOK, JobsOK, ArchivesOK, ServerOK, DeviceOK,
        HistoryOK, Terminal, BeforeTry, InTry, AfterSend, Active, Unfinished, rows, lane, jobs,
        jobData, archs, server, device, history
<1>0. NoLink \notin Claims /\ Source \notin Claims /\ 0 \notin Claims
  BY DEF NoLink, Source, Claims
<1>1. ASSUME NEW i \in Items, Claim(i) PROVE Own'
  <2> USE <1>0, <1>1 DEF Claim, LaneFree, NewJob
  <2>1. GateInv'
    OBVIOUS
  <2>2. TokenInv'
    OBVIOUS
  <2>3. QueuedClaimWasSent'
    OBVIOUS
  <2> QED  BY <2>1, <2>2, <2>3
<1>2. ASSUME NEW i \in Items, ClaimSpent(i) PROVE Own'
  BY <1>0, <1>2 DEF ClaimSpent
<1>3. ASSUME NEW i \in Items, ClaimDirect(i) PROVE Own'
  <2> USE <1>0, <1>3 DEF ClaimDirect, LaneFree, NewJob
  <2>1. GateInv'
    OBVIOUS
  <2>2. TokenInv'
    OBVIOUS
  <2>3. QueuedClaimWasSent'
    OBVIOUS
  <2> QED  BY <2>1, <2>2, <2>3
<1>4. ASSUME NEW i \in Items, SettleInterrupted(i) PROVE Own'
  BY <1>0, <1>4 DEF SettleInterrupted, Interrupted, SetQueueError, SetQueueIdle
<1>5. ASSUME NEW i \in Items, Stop(i) PROVE Own'
  BY <1>0, <1>5 DEF Stop, StopRow, CloseArchive, SetQueuePaused
<1>6. ASSUME NEW i \in Items, BeginStop(i) PROVE Own'
  BY <1>0, <1>6 DEF BeginStop
<1>7. ASSUME NEW i \in Items, CancelPending(i) PROVE Own'
  BY <1>0, <1>7 DEF CancelPending
<1>8. ASSUME NEW i \in Items, Retry(i) PROVE Own'
  BY <1>0, <1>8 DEF Retry
<1>9. ASSUME NEW k \in Claims, TakeJob(k) PROVE Own'
  BY <1>0, <1>9 DEF TakeJob, MoveTo
<1>10. ASSUME NEW k \in Claims, CancelQueued(k) PROVE Own'
  BY <1>0, <1>10 DEF CancelQueued, MoveTo
<1>11. ASSUME NEW k \in Claims, CancelJob(k) PROVE Own'
  BY <1>0, <1>11 DEF CancelJob
<1>12. ASSUME NEW k \in Claims, Admit(k) PROVE Own'
  BY <1>0, <1>12 DEF Admit, MoveTo, RunnerEnds
<1>13. ASSUME NEW k \in Claims, Prepare(k) PROVE Own'
  <2> USE <1>0, <1>13 DEF Prepare, MoveTo, RunnerEnds
  <2>1. GateInv'
    OBVIOUS
  <2>2. TokenInv'
    OBVIOUS
  <2>3. QueuedClaimWasSent'
    OBVIOUS
  <2> QED  BY <2>1, <2>2, <2>3
<1>14. ASSUME NEW k \in Claims, CreateArchive(k) PROVE Own'
  BY <1>0, <1>14 DEF CreateArchive, MoveTo
<1>15. ASSUME NEW k \in Claims, CancelBeforeTry(k) PROVE Own'
  BY <1>0, <1>15 DEF CancelBeforeTry, RunnerEnds
<1>16. ASSUME NEW k \in Claims, Upload(k) PROVE Own'
  BY <1>0, <1>16 DEF Upload, MoveTo
<1>17. ASSUME NEW k \in Claims, CancelInTry(k) PROVE Own'
  BY <1>0, <1>17 DEF CancelInTry, RunnerEnds, CloseArchive
<1>18. ASSUME NEW k \in Claims, Bind(k) PROVE Own'
  BY <1>0, <1>18 DEF Bind, MoveTo, RunnerEnds
<1>19. ASSUME NEW k \in Claims, RunSwapMacro(k) PROVE Own'
  BY <1>0, <1>19 DEF RunSwapMacro, MoveTo, RunnerEnds
<1>20. ASSUME NEW k \in Claims, Verify(k) PROVE Own'
  BY <1>0, <1>20 DEF Verify, MoveTo, RunnerEnds
<1>21. ASSUME NEW k \in Claims, Deferred(k) PROVE Own'
  BY <1>0, <1>21 DEF Deferred, RunnerEnds
<1>22. ASSUME NEW k \in Claims, RunnerFails(k) PROVE Own'
  BY <1>0, <1>22 DEF RunnerFails, RunnerEnds, CloseArchive
<1>23. ASSUME NEW k \in Claims, CommitSending(k) PROVE Own'
  BY <1>0, <1>23 DEF CommitSending, MoveTo, RunnerEnds, CloseArchive
<1>24. ASSUME NEW k \in Claims, Publish(k) PROVE Own'
  BY <1>0, <1>24 DEF Publish, MoveTo, RunnerEnds
<1>25. ASSUME NEW k \in Claims, RecordSent(k) PROVE Own'
  BY <1>0, <1>25 DEF RecordSent, MoveTo
<1>26. ASSUME NEW k \in Claims, Answer(k) PROVE Own'
  BY <1>0, <1>26 DEF Answer, RunnerEnds, CloseArchive
<1>27. ASSUME NEW k \in Claims, SettleDeferred(k) PROVE Own'
  <2>1. RefusalEffect(k)
    BY <1>27, SettleDeferredEffect
  <2> USE <1>0, <2>1 DEF RefusalEffect, OwnsClaim, DeferTerminal
  <2>2. GateInv'
    <3> HIDE DEF OneClaimPerLane, BindingIsOwned, SentInv, ArchiveInv, ExternalInv, QueuedClaimWasSent,
             LaneOK, ServerOK, DeviceOK
    <3>1. CASE token[k] # 0 /\ OwnsClaim(k)
      BY <3>1, SMTT(30)
    <3>2. CASE ~(token[k] # 0 /\ OwnsClaim(k))
      BY <3>2, SMTT(30)
    <3> QED  BY <3>1, <3>2
  <2>3. TokenInv'
    <3> HIDE DEF OneClaimPerLane, BindingIsOwned, ArchiveInv, ExternalInv, QueuedClaimWasSent, LaneOK,
             ServerOK, DeviceOK
    <3>1. CASE token[k] # 0 /\ OwnsClaim(k)
      BY <3>1, SMTT(30)
    <3>2. CASE ~(token[k] # 0 /\ OwnsClaim(k))
      BY <3>2, SMTT(30)
    <3> QED  BY <3>1, <3>2
  <2>4. QueuedClaimWasSent'
    <3> HIDE DEF OneClaimPerLane, BindingIsOwned, ArchiveInv, ExternalInv, GateInv, LaneOK, ServerOK,
             DeviceOK
    <3>1. CASE token[k] # 0 /\ OwnsClaim(k)
      BY <3>1, SMTT(30)
    <3>2. CASE ~(token[k] # 0 /\ OwnsClaim(k))
      BY <3>2, SMTT(30)
    <3> QED  BY <3>1, <3>2
  <2> QED  BY <2>2, <2>3, <2>4
<1>28. ASSUME NEW k \in Claims, SettleFailed(k) PROVE Own'
  BY <1>0, <1>28 DEF SettleFailed, ReleaseDirectClaim, FailAttempt, Finished, SetQueueError,
     SetQueueIdle, OwnsClaim
<1>29. ASSUME NEW k \in Claims, SettleCancelled(k) PROVE Own'
  BY <1>0, <1>29 DEF SettleCancelled, ReleaseDirectClaim, CancelItem, Finished, SetQueueError,
     SetQueueIdle, SetQueuePaused, OwnsClaim
<1>30. ASSUME NEW k \in Claims, SettleSent(k) PROVE Own'
  BY <1>0, <1>30 DEF SettleSent, Finished
<1>31. ASSUME NEW k \in Claims, WatchdogFails(k) PROVE Own'
  BY <1>0, <1>31 DEF WatchdogFails, FailAttempt, CloseArchive, SetQueueError
<1>32. ASSUME NEW k \in Claims, PrinterStarts(k) PROVE Own'
  BY <1>0, <1>32 DEF PrinterStarts, CloseStaleRuns, MarkQueuePrinting
<1>33. ASSUME NEW k \in Claims, PrinterDrops(k) PROVE Own'
  BY <1>0, <1>33 DEF PrinterDrops
<1>34. ASSUME NEW r \in {"completed", "failed", "aborted"}, PrinterEnds(r) PROVE Own'
  BY <1>0, <1>34 DEF PrinterEnds, Normalised, SetQueueError, SetQueueIdle, SetQueuePaused
<1>35. ASSUME Restart PROVE Own'
  BY <1>0, <1>35, SMTT(30), ZenonT(60) DEF Restart
<1>36. ASSUME Adopt PROVE Own'
  BY <1>0, <1>36 DEF Adopt, CloseStaleRuns, MarkQueuePrinting
<1>37. ASSUME RepairRows PROVE Own'
  <2> USE <1>0, <1>37 DEF RepairRows, NoPrintingArchive
  <2>1. \A i \in Items : status[i] = "printing" => status'[i] \in Terminal
    <3> SUFFICES ASSUME NEW i \in Items, status[i] = "printing" PROVE status'[i] \in Terminal
      OBVIOUS
    <3>1. link[i] \in Claims /\ status'[i] = archive[link[i]] /\ archive[link[i]] # "none"
      OBVIOUS
    <3>2. archive[link[i]] # "printing"
      BY <3>1
    <3> QED  BY <3>1, <3>2
  <2>2. \A i \in Items : status[i] # "printing" => status'[i] = status[i]
    OBVIOUS
  <2>3. GateInv'
    BY <2>1, <2>2
  <2>4. TokenInv'
    BY <2>1, <2>2
  <2>5. QueuedClaimWasSent'
    BY <2>1, <2>2
  <2> QED  BY <2>3, <2>4, <2>5
<1>38. ASSUME ClearContext PROVE Own'
  BY <1>0, <1>38 DEF ClearContext
<1>39. ASSUME CloseFarm PROVE Own'
  BY <1>0, <1>39 DEF CloseFarm
<1>40. ASSUME OpenFarm PROVE Own'
  BY <1>0, <1>40 DEF OpenFarm
<1>41. ASSUME ResumeLane PROVE Own'
  BY <1>0, <1>41 DEF ResumeLane
<1>42. ASSUME FinishStop PROVE Own'
  BY <1>0, <1>42 DEF FinishStop, StopRow, CloseArchive, SetQueuePaused
<1>43. ASSUME HoldExpires PROVE Own'
  BY <1>0, <1>43 DEF HoldExpires
<1> HIDE DEF TypeOK, Inv, Own
<1> QED
  BY <1>1, <1>2, <1>3, <1>4, <1>5, <1>6, <1>7, <1>8, <1>9, <1>10, <1>11, <1>12, <1>13,
     <1>14, <1>15, <1>16, <1>17, <1>18, <1>19, <1>20, <1>21, <1>22, <1>23, <1>24, <1>25, <1>26,
     <1>27, <1>28, <1>29, <1>30, <1>31, <1>32, <1>33, <1>34, <1>35, <1>36, <1>37, <1>38, <1>39,
     <1>40, <1>41, <1>42, <1>43
     DEF Next, JobStep, RowStep

(* Every requeue by itself is of an attempt that was not sent. *)
LEMMA RequeueStep ==
    ASSUME RetryOvertakes = {}, TypeOK, Inv, Own, Next
    PROVE  RequeueStepOK
<1> USE ConstantsAssumption DEF RequeueStepOK, Own, GateInv, TokenInv, Inv, OneClaimPerLane,
        BindingIsOwned, SentInv, ClaimInv, ArchiveInv, ExternalInv, Published, SourceLink,
        TypeOK, RowsOK, LaneOK, JobsOK, ArchivesOK, ServerOK, DeviceOK, HistoryOK, Terminal,
        BeforeTry, InTry, AfterSend, Active, Unfinished, rows, lane, jobs, jobData, archs,
        server, device, history
<1>0. NoLink \notin Claims /\ Source \notin Claims /\ 0 \notin Claims
  BY DEF NoLink, Source, Claims
<1>1. ASSUME NEW i \in Items, Claim(i) PROVE RequeueStepOK
  BY <1>0, <1>1 DEF Claim, LaneFree, NewJob
<1>2. ASSUME NEW i \in Items, ClaimSpent(i) PROVE RequeueStepOK
  BY <1>0, <1>2 DEF ClaimSpent
<1>3. ASSUME NEW i \in Items, ClaimDirect(i) PROVE RequeueStepOK
  BY <1>0, <1>3 DEF ClaimDirect, LaneFree, NewJob
<1>4. ASSUME NEW i \in Items, SettleInterrupted(i) PROVE RequeueStepOK
  <2> USE <1>0, <1>4 DEF SettleInterrupted, Interrupted, SetQueueError, SetQueueIdle
  <2> SUFFICES ASSUME status[i] = "printing", status'[i] = "pending"
               PROVE  startedAt[i] \notin published /\ ~swapRan[startedAt[i]]
    BY SMTT(30)
  <2>1. i \notin Directs /\ link[i] \in Claims /\ phase[link[i]] = "prepared" /\ ~swapRan[link[i]]
    BY SMTT(30)
  <2>2. link[i] = startedAt[i]
    BY <2>1
  <2> QED  BY <2>1, <2>2
<1>5. ASSUME NEW i \in Items, Stop(i) PROVE RequeueStepOK
  BY <1>0, <1>5 DEF Stop, StopRow, CloseArchive, SetQueuePaused
<1>6. ASSUME NEW i \in Items, BeginStop(i) PROVE RequeueStepOK
  BY <1>0, <1>6 DEF BeginStop
<1>7. ASSUME NEW i \in Items, CancelPending(i) PROVE RequeueStepOK
  BY <1>0, <1>7 DEF CancelPending
<1>8. ASSUME NEW i \in Items, Retry(i) PROVE RequeueStepOK
  BY <1>0, <1>8 DEF Retry
<1>9. ASSUME NEW k \in Claims, TakeJob(k) PROVE RequeueStepOK
  BY <1>0, <1>9 DEF TakeJob, MoveTo
<1>10. ASSUME NEW k \in Claims, CancelQueued(k) PROVE RequeueStepOK
  BY <1>0, <1>10 DEF CancelQueued, MoveTo
<1>11. ASSUME NEW k \in Claims, CancelJob(k) PROVE RequeueStepOK
  BY <1>0, <1>11 DEF CancelJob
<1>12. ASSUME NEW k \in Claims, Admit(k) PROVE RequeueStepOK
  BY <1>0, <1>12 DEF Admit, MoveTo, RunnerEnds
<1>13. ASSUME NEW k \in Claims, Prepare(k) PROVE RequeueStepOK
  BY <1>0, <1>13 DEF Prepare, MoveTo, RunnerEnds
<1>14. ASSUME NEW k \in Claims, CreateArchive(k) PROVE RequeueStepOK
  BY <1>0, <1>14 DEF CreateArchive, MoveTo
<1>15. ASSUME NEW k \in Claims, CancelBeforeTry(k) PROVE RequeueStepOK
  BY <1>0, <1>15 DEF CancelBeforeTry, RunnerEnds
<1>16. ASSUME NEW k \in Claims, Upload(k) PROVE RequeueStepOK
  BY <1>0, <1>16 DEF Upload, MoveTo
<1>17. ASSUME NEW k \in Claims, CancelInTry(k) PROVE RequeueStepOK
  BY <1>0, <1>17 DEF CancelInTry, RunnerEnds, CloseArchive
<1>18. ASSUME NEW k \in Claims, Bind(k) PROVE RequeueStepOK
  BY <1>0, <1>18 DEF Bind, MoveTo, RunnerEnds
<1>19. ASSUME NEW k \in Claims, RunSwapMacro(k) PROVE RequeueStepOK
  BY <1>0, <1>19 DEF RunSwapMacro, MoveTo, RunnerEnds
<1>20. ASSUME NEW k \in Claims, Verify(k) PROVE RequeueStepOK
  BY <1>0, <1>20 DEF Verify, MoveTo, RunnerEnds
<1>21. ASSUME NEW k \in Claims, Deferred(k) PROVE RequeueStepOK
  BY <1>0, <1>21 DEF Deferred, RunnerEnds
<1>22. ASSUME NEW k \in Claims, RunnerFails(k) PROVE RequeueStepOK
  BY <1>0, <1>22 DEF RunnerFails, RunnerEnds, CloseArchive
<1>23. ASSUME NEW k \in Claims, CommitSending(k) PROVE RequeueStepOK
  BY <1>0, <1>23 DEF CommitSending, MoveTo, RunnerEnds, CloseArchive
<1>24. ASSUME NEW k \in Claims, Publish(k) PROVE RequeueStepOK
  BY <1>0, <1>24 DEF Publish, MoveTo, RunnerEnds
<1>25. ASSUME NEW k \in Claims, RecordSent(k) PROVE RequeueStepOK
  BY <1>0, <1>25 DEF RecordSent, MoveTo
<1>26. ASSUME NEW k \in Claims, Answer(k) PROVE RequeueStepOK
  BY <1>0, <1>26 DEF Answer, RunnerEnds, CloseArchive
<1>27. ASSUME NEW k \in Claims, SettleDeferred(k) PROVE RequeueStepOK
  <2> USE <1>0, <1>27 DEF SettleDeferred, DeferClaim, CloseArchive, Finished, SetQueueError,
          SetQueueIdle, OwnsClaim
  <2> SUFFICES ASSUME NEW i \in Items, status[i] = "printing", status'[i] = "pending"
               PROVE  startedAt[i] \notin published /\ ~swapRan[startedAt[i]]
    BY SMTT(30)
  <2>1. i = item[k] /\ token[k] # 0 /\ OwnsClaim(k) /\ ~DeferTerminal(k)
    BY SMTT(30)
  <2>2. ~direct[k] /\ ~swapRan[k] /\ ~Published(k)
    BY <2>1 DEF DeferTerminal
  <2>3. startedAt[i] = k
    BY <2>1, <2>2
  <2>4. k \notin published
    BY <2>2
  <2> QED  BY <2>2, <2>3, <2>4
<1>28. ASSUME NEW k \in Claims, SettleFailed(k) PROVE RequeueStepOK
  BY <1>0, <1>28 DEF SettleFailed, ReleaseDirectClaim, FailAttempt, Finished, SetQueueError,
     SetQueueIdle, OwnsClaim
<1>29. ASSUME NEW k \in Claims, SettleCancelled(k) PROVE RequeueStepOK
  BY <1>0, <1>29 DEF SettleCancelled, ReleaseDirectClaim, CancelItem, Finished, SetQueueError,
     SetQueueIdle, SetQueuePaused, OwnsClaim
<1>30. ASSUME NEW k \in Claims, SettleSent(k) PROVE RequeueStepOK
  BY <1>0, <1>30 DEF SettleSent, Finished
<1>31. ASSUME NEW k \in Claims, WatchdogFails(k) PROVE RequeueStepOK
  BY <1>0, <1>31 DEF WatchdogFails, FailAttempt, CloseArchive, SetQueueError
<1>32. ASSUME NEW k \in Claims, PrinterStarts(k) PROVE RequeueStepOK
  BY <1>0, <1>32 DEF PrinterStarts, CloseStaleRuns, MarkQueuePrinting
<1>33. ASSUME NEW k \in Claims, PrinterDrops(k) PROVE RequeueStepOK
  BY <1>0, <1>33 DEF PrinterDrops
<1>34. ASSUME NEW r \in {"completed", "failed", "aborted"}, PrinterEnds(r) PROVE RequeueStepOK
  BY <1>0, <1>34 DEF PrinterEnds, Normalised, SetQueueError, SetQueueIdle, SetQueuePaused
<1>35. ASSUME Restart PROVE RequeueStepOK
  BY <1>0, <1>35 DEF Restart
<1>36. ASSUME Adopt PROVE RequeueStepOK
  BY <1>0, <1>36 DEF Adopt, CloseStaleRuns, MarkQueuePrinting
<1>37. ASSUME RepairRows PROVE RequeueStepOK
  BY <1>0, <1>37 DEF RepairRows, NoPrintingArchive
<1>38. ASSUME ClearContext PROVE RequeueStepOK
  BY <1>0, <1>38 DEF ClearContext
<1>39. ASSUME CloseFarm PROVE RequeueStepOK
  BY <1>0, <1>39 DEF CloseFarm
<1>40. ASSUME OpenFarm PROVE RequeueStepOK
  BY <1>0, <1>40 DEF OpenFarm
<1>41. ASSUME ResumeLane PROVE RequeueStepOK
  BY <1>0, <1>41 DEF ResumeLane
<1>42. ASSUME FinishStop PROVE RequeueStepOK
  BY <1>0, <1>42 DEF FinishStop, StopRow, CloseArchive, SetQueuePaused
<1>43. ASSUME HoldExpires PROVE RequeueStepOK
  BY <1>0, <1>43 DEF HoldExpires
<1> HIDE DEF TypeOK, Inv, Own, RequeueStepOK
<1> QED
  BY <1>1, <1>2, <1>3, <1>4, <1>5, <1>6, <1>7, <1>8, <1>9, <1>10, <1>11, <1>12, <1>13,
     <1>14, <1>15, <1>16, <1>17, <1>18, <1>19, <1>20, <1>21, <1>22, <1>23, <1>24, <1>25, <1>26,
     <1>27, <1>28, <1>29, <1>30, <1>31, <1>32, <1>33, <1>34, <1>35, <1>36, <1>37, <1>38, <1>39,
     <1>40, <1>41, <1>42, <1>43
     DEF Next, JobStep, RowStep

(* Every failure of a queued row that owns the lane halts it. *)
LEMMA FailureStep ==
    ASSUME TypeOK, Inv, Next
    PROVE  FailureStepOK
<1> USE ConstantsAssumption DEF FailureStepOK, Inv, OneClaimPerLane, BindingIsOwned, SentInv,
        ClaimInv, ArchiveInv, ExternalInv, Published, Halted, TypeOK, RowsOK, LaneOK, JobsOK,
        ArchivesOK, ServerOK, DeviceOK, HistoryOK, Terminal, BeforeTry, InTry, AfterSend,
        Active, Unfinished, rows, lane, jobs, jobData, archs, server, device, history
<1>0. NoLink \notin Claims /\ Source \notin Claims /\ 0 \notin Claims
  BY DEF NoLink, Source, Claims
<1>1. ASSUME NEW i \in Items, Claim(i) PROVE FailureStepOK
  BY <1>0, <1>1 DEF Claim, LaneFree, NewJob
<1>2. ASSUME NEW i \in Items, ClaimSpent(i) PROVE FailureStepOK
  BY <1>0, <1>2 DEF ClaimSpent
<1>3. ASSUME NEW i \in Items, ClaimDirect(i) PROVE FailureStepOK
  BY <1>0, <1>3 DEF ClaimDirect, LaneFree, NewJob
<1>4. ASSUME NEW i \in Items, SettleInterrupted(i) PROVE FailureStepOK
  BY <1>0, <1>4 DEF SettleInterrupted, Interrupted, SourceLink, SetQueueError, SetQueueIdle
<1>5. ASSUME NEW i \in Items, Stop(i) PROVE FailureStepOK
  BY <1>0, <1>5 DEF Stop, StopRow, CloseArchive, SetQueuePaused
<1>6. ASSUME NEW i \in Items, BeginStop(i) PROVE FailureStepOK
  BY <1>0, <1>6 DEF BeginStop
<1>7. ASSUME NEW i \in Items, CancelPending(i) PROVE FailureStepOK
  BY <1>0, <1>7 DEF CancelPending
<1>8. ASSUME NEW i \in Items, Retry(i) PROVE FailureStepOK
  BY <1>0, <1>8 DEF Retry, SourceLink
<1>9. ASSUME NEW k \in Claims, TakeJob(k) PROVE FailureStepOK
  BY <1>0, <1>9 DEF TakeJob, MoveTo
<1>10. ASSUME NEW k \in Claims, CancelQueued(k) PROVE FailureStepOK
  BY <1>0, <1>10 DEF CancelQueued, MoveTo
<1>11. ASSUME NEW k \in Claims, CancelJob(k) PROVE FailureStepOK
  BY <1>0, <1>11 DEF CancelJob
<1>12. ASSUME NEW k \in Claims, Admit(k) PROVE FailureStepOK
  BY <1>0, <1>12 DEF Admit, MoveTo, RunnerEnds
<1>13. ASSUME NEW k \in Claims, Prepare(k) PROVE FailureStepOK
  BY <1>0, <1>13 DEF Prepare, MoveTo, RunnerEnds
<1>14. ASSUME NEW k \in Claims, CreateArchive(k) PROVE FailureStepOK
  BY <1>0, <1>14 DEF CreateArchive, MoveTo
<1>15. ASSUME NEW k \in Claims, CancelBeforeTry(k) PROVE FailureStepOK
  BY <1>0, <1>15 DEF CancelBeforeTry, RunnerEnds
<1>16. ASSUME NEW k \in Claims, Upload(k) PROVE FailureStepOK
  BY <1>0, <1>16 DEF Upload, MoveTo
<1>17. ASSUME NEW k \in Claims, CancelInTry(k) PROVE FailureStepOK
  BY <1>0, <1>17 DEF CancelInTry, RunnerEnds, CloseArchive
<1>18. ASSUME NEW k \in Claims, Bind(k) PROVE FailureStepOK
  BY <1>0, <1>18 DEF Bind, MoveTo, RunnerEnds
<1>19. ASSUME NEW k \in Claims, RunSwapMacro(k) PROVE FailureStepOK
  BY <1>0, <1>19 DEF RunSwapMacro, MoveTo, RunnerEnds
<1>20. ASSUME NEW k \in Claims, Verify(k) PROVE FailureStepOK
  BY <1>0, <1>20 DEF Verify, MoveTo, RunnerEnds
<1>21. ASSUME NEW k \in Claims, Deferred(k) PROVE FailureStepOK
  BY <1>0, <1>21 DEF Deferred, RunnerEnds
<1>22. ASSUME NEW k \in Claims, RunnerFails(k) PROVE FailureStepOK
  BY <1>0, <1>22 DEF RunnerFails, RunnerEnds, CloseArchive
<1>23. ASSUME NEW k \in Claims, CommitSending(k) PROVE FailureStepOK
  BY <1>0, <1>23 DEF CommitSending, MoveTo, RunnerEnds, CloseArchive
<1>24. ASSUME NEW k \in Claims, Publish(k) PROVE FailureStepOK
  BY <1>0, <1>24 DEF Publish, MoveTo, RunnerEnds
<1>25. ASSUME NEW k \in Claims, RecordSent(k) PROVE FailureStepOK
  BY <1>0, <1>25 DEF RecordSent, MoveTo
<1>26. ASSUME NEW k \in Claims, Answer(k) PROVE FailureStepOK
  BY <1>0, <1>26 DEF Answer, RunnerEnds, CloseArchive
<1>27. ASSUME NEW k \in Claims, SettleDeferred(k) PROVE FailureStepOK
  BY <1>0, <1>27 DEF SettleDeferred, DeferClaim, CloseArchive, Finished, SetQueueError,
     SetQueueIdle, OwnsClaim
<1>28. ASSUME NEW k \in Claims, SettleFailed(k) PROVE FailureStepOK
  BY <1>0, <1>28 DEF SettleFailed, ReleaseDirectClaim, FailAttempt, Finished, SetQueueError,
     SetQueueIdle, OwnsClaim
<1>29. ASSUME NEW k \in Claims, SettleCancelled(k) PROVE FailureStepOK
  BY <1>0, <1>29 DEF SettleCancelled, ReleaseDirectClaim, CancelItem, Finished, SetQueueError,
     SetQueueIdle, SetQueuePaused, OwnsClaim
<1>30. ASSUME NEW k \in Claims, SettleSent(k) PROVE FailureStepOK
  BY <1>0, <1>30 DEF SettleSent, Finished
<1>31. ASSUME NEW k \in Claims, WatchdogFails(k) PROVE FailureStepOK
  BY <1>0, <1>31 DEF WatchdogFails, FailAttempt, CloseArchive, SetQueueError
<1>32. ASSUME NEW k \in Claims, PrinterStarts(k) PROVE FailureStepOK
  BY <1>0, <1>32 DEF PrinterStarts, CloseStaleRuns, MarkQueuePrinting
<1>33. ASSUME NEW k \in Claims, PrinterDrops(k) PROVE FailureStepOK
  BY <1>0, <1>33 DEF PrinterDrops
<1>34. ASSUME NEW r \in {"completed", "failed", "aborted"}, PrinterEnds(r) PROVE FailureStepOK
  BY <1>0, <1>34 DEF PrinterEnds, Normalised, SetQueueError, SetQueueIdle, SetQueuePaused
<1>35. ASSUME Restart PROVE FailureStepOK
  BY <1>0, <1>35 DEF Restart
<1>36. ASSUME Adopt PROVE FailureStepOK
  BY <1>0, <1>36 DEF Adopt, CloseStaleRuns, MarkQueuePrinting
<1>37. ASSUME RepairRows PROVE FailureStepOK
  BY <1>0, <1>37 DEF RepairRows, NoPrintingArchive
<1>38. ASSUME ClearContext PROVE FailureStepOK
  BY <1>0, <1>38 DEF ClearContext
<1>39. ASSUME CloseFarm PROVE FailureStepOK
  BY <1>0, <1>39 DEF CloseFarm
<1>40. ASSUME OpenFarm PROVE FailureStepOK
  BY <1>0, <1>40 DEF OpenFarm
<1>41. ASSUME ResumeLane PROVE FailureStepOK
  BY <1>0, <1>41 DEF ResumeLane
<1>42. ASSUME FinishStop PROVE FailureStepOK
  BY <1>0, <1>42 DEF FinishStop, StopRow, CloseArchive, SetQueuePaused
<1>43. ASSUME HoldExpires PROVE FailureStepOK
  BY <1>0, <1>43 DEF HoldExpires
<1> HIDE DEF TypeOK, Inv, FailureStepOK
<1> QED
  BY <1>1, <1>2, <1>3, <1>4, <1>5, <1>6, <1>7, <1>8, <1>9, <1>10, <1>11, <1>12, <1>13,
     <1>14, <1>15, <1>16, <1>17, <1>18, <1>19, <1>20, <1>21, <1>22, <1>23, <1>24, <1>25, <1>26,
     <1>27, <1>28, <1>29, <1>30, <1>31, <1>32, <1>33, <1>34, <1>35, <1>36, <1>37, <1>38, <1>39,
     <1>40, <1>41, <1>42, <1>43
     DEF Next, JobStep, RowStep

(* Every step that ends a halt is a Resume or a print the printer runs. *)
LEMMA HaltStep ==
    ASSUME TypeOK, Inv, Next
    PROVE  HaltStepOK
<1> USE ConstantsAssumption DEF HaltStepOK, Inv, OneClaimPerLane, BindingIsOwned, SentInv,
        ClaimInv, ArchiveInv, ExternalInv, Halted, TypeOK, RowsOK, LaneOK, JobsOK, ArchivesOK,
        ServerOK, DeviceOK, HistoryOK, Terminal, BeforeTry, InTry, AfterSend, Active,
        Unfinished, rows, lane, jobs, jobData, archs, server, device, history
<1>0. NoLink \notin Claims /\ Source \notin Claims /\ 0 \notin Claims
  BY DEF NoLink, Source, Claims
<1>1. ASSUME NEW i \in Items, Claim(i) PROVE HaltStepOK
  BY <1>0, <1>1 DEF Claim, LaneFree, NewJob
<1>2. ASSUME NEW i \in Items, ClaimSpent(i) PROVE HaltStepOK
  BY <1>0, <1>2 DEF ClaimSpent
<1>3. ASSUME NEW i \in Items, ClaimDirect(i) PROVE HaltStepOK
  BY <1>0, <1>3 DEF ClaimDirect, LaneFree, NewJob
<1>4. ASSUME NEW i \in Items, SettleInterrupted(i) PROVE HaltStepOK
  BY <1>0, <1>4 DEF SettleInterrupted, Interrupted, SourceLink, SetQueueError, SetQueueIdle
<1>5. ASSUME NEW i \in Items, Stop(i) PROVE HaltStepOK
  BY <1>0, <1>5 DEF Stop, StopRow, CloseArchive, SetQueuePaused
<1>6. ASSUME NEW i \in Items, BeginStop(i) PROVE HaltStepOK
  BY <1>0, <1>6 DEF BeginStop
<1>7. ASSUME NEW i \in Items, CancelPending(i) PROVE HaltStepOK
  BY <1>0, <1>7 DEF CancelPending
<1>8. ASSUME NEW i \in Items, Retry(i) PROVE HaltStepOK
  BY <1>0, <1>8 DEF Retry, SourceLink
<1>9. ASSUME NEW k \in Claims, TakeJob(k) PROVE HaltStepOK
  BY <1>0, <1>9 DEF TakeJob, MoveTo
<1>10. ASSUME NEW k \in Claims, CancelQueued(k) PROVE HaltStepOK
  BY <1>0, <1>10 DEF CancelQueued, MoveTo
<1>11. ASSUME NEW k \in Claims, CancelJob(k) PROVE HaltStepOK
  BY <1>0, <1>11 DEF CancelJob
<1>12. ASSUME NEW k \in Claims, Admit(k) PROVE HaltStepOK
  BY <1>0, <1>12 DEF Admit, MoveTo, RunnerEnds
<1>13. ASSUME NEW k \in Claims, Prepare(k) PROVE HaltStepOK
  BY <1>0, <1>13 DEF Prepare, MoveTo, RunnerEnds
<1>14. ASSUME NEW k \in Claims, CreateArchive(k) PROVE HaltStepOK
  BY <1>0, <1>14 DEF CreateArchive, MoveTo
<1>15. ASSUME NEW k \in Claims, CancelBeforeTry(k) PROVE HaltStepOK
  BY <1>0, <1>15 DEF CancelBeforeTry, RunnerEnds
<1>16. ASSUME NEW k \in Claims, Upload(k) PROVE HaltStepOK
  BY <1>0, <1>16 DEF Upload, MoveTo
<1>17. ASSUME NEW k \in Claims, CancelInTry(k) PROVE HaltStepOK
  BY <1>0, <1>17 DEF CancelInTry, RunnerEnds, CloseArchive
<1>18. ASSUME NEW k \in Claims, Bind(k) PROVE HaltStepOK
  BY <1>0, <1>18 DEF Bind, MoveTo, RunnerEnds
<1>19. ASSUME NEW k \in Claims, RunSwapMacro(k) PROVE HaltStepOK
  BY <1>0, <1>19 DEF RunSwapMacro, MoveTo, RunnerEnds
<1>20. ASSUME NEW k \in Claims, Verify(k) PROVE HaltStepOK
  BY <1>0, <1>20 DEF Verify, MoveTo, RunnerEnds
<1>21. ASSUME NEW k \in Claims, Deferred(k) PROVE HaltStepOK
  BY <1>0, <1>21 DEF Deferred, RunnerEnds
<1>22. ASSUME NEW k \in Claims, RunnerFails(k) PROVE HaltStepOK
  BY <1>0, <1>22 DEF RunnerFails, RunnerEnds, CloseArchive
<1>23. ASSUME NEW k \in Claims, CommitSending(k) PROVE HaltStepOK
  BY <1>0, <1>23 DEF CommitSending, MoveTo, RunnerEnds, CloseArchive
<1>24. ASSUME NEW k \in Claims, Publish(k) PROVE HaltStepOK
  BY <1>0, <1>24 DEF Publish, MoveTo, RunnerEnds
<1>25. ASSUME NEW k \in Claims, RecordSent(k) PROVE HaltStepOK
  BY <1>0, <1>25 DEF RecordSent, MoveTo
<1>26. ASSUME NEW k \in Claims, Answer(k) PROVE HaltStepOK
  BY <1>0, <1>26 DEF Answer, RunnerEnds, CloseArchive
<1>27. ASSUME NEW k \in Claims, SettleDeferred(k) PROVE HaltStepOK
  BY <1>0, <1>27 DEF SettleDeferred, DeferClaim, CloseArchive, Finished, SetQueueError,
     SetQueueIdle, OwnsClaim
<1>28. ASSUME NEW k \in Claims, SettleFailed(k) PROVE HaltStepOK
  BY <1>0, <1>28 DEF SettleFailed, ReleaseDirectClaim, FailAttempt, Finished, SetQueueError,
     SetQueueIdle, OwnsClaim
<1>29. ASSUME NEW k \in Claims, SettleCancelled(k) PROVE HaltStepOK
  BY <1>0, <1>29 DEF SettleCancelled, ReleaseDirectClaim, CancelItem, Finished, SetQueueError,
     SetQueueIdle, SetQueuePaused, OwnsClaim
<1>30. ASSUME NEW k \in Claims, SettleSent(k) PROVE HaltStepOK
  BY <1>0, <1>30 DEF SettleSent, Finished
<1>31. ASSUME NEW k \in Claims, WatchdogFails(k) PROVE HaltStepOK
  BY <1>0, <1>31 DEF WatchdogFails, FailAttempt, CloseArchive, SetQueueError
<1>32. ASSUME NEW k \in Claims, PrinterStarts(k) PROVE HaltStepOK
  BY <1>0, <1>32 DEF PrinterStarts, CloseStaleRuns, MarkQueuePrinting
<1>33. ASSUME NEW k \in Claims, PrinterDrops(k) PROVE HaltStepOK
  BY <1>0, <1>33 DEF PrinterDrops
<1>34. ASSUME NEW r \in {"completed", "failed", "aborted"}, PrinterEnds(r) PROVE HaltStepOK
  BY <1>0, <1>34 DEF PrinterEnds, Normalised, SetQueueError, SetQueueIdle, SetQueuePaused
<1>35. ASSUME Restart PROVE HaltStepOK
  BY <1>0, <1>35 DEF Restart
<1>36. ASSUME Adopt PROVE HaltStepOK
  BY <1>0, <1>36 DEF Adopt, CloseStaleRuns, MarkQueuePrinting
<1>37. ASSUME RepairRows PROVE HaltStepOK
  BY <1>0, <1>37 DEF RepairRows, NoPrintingArchive
<1>38. ASSUME ClearContext PROVE HaltStepOK
  BY <1>0, <1>38 DEF ClearContext
<1>39. ASSUME CloseFarm PROVE HaltStepOK
  BY <1>0, <1>39 DEF CloseFarm
<1>40. ASSUME OpenFarm PROVE HaltStepOK
  BY <1>0, <1>40 DEF OpenFarm
<1>41. ASSUME ResumeLane PROVE HaltStepOK
  BY <1>0, <1>41 DEF ResumeLane
<1>42. ASSUME FinishStop PROVE HaltStepOK
  BY <1>0, <1>42 DEF FinishStop, StopRow, CloseArchive, SetQueuePaused
<1>43. ASSUME HoldExpires PROVE HaltStepOK
  BY <1>0, <1>43 DEF HoldExpires
<1> HIDE DEF TypeOK, Inv, HaltStepOK
<1> QED
  BY <1>1, <1>2, <1>3, <1>4, <1>5, <1>6, <1>7, <1>8, <1>9, <1>10, <1>11, <1>12, <1>13,
     <1>14, <1>15, <1>16, <1>17, <1>18, <1>19, <1>20, <1>21, <1>22, <1>23, <1>24, <1>25, <1>26,
     <1>27, <1>28, <1>29, <1>30, <1>31, <1>32, <1>33, <1>34, <1>35, <1>36, <1>37, <1>38, <1>39,
     <1>40, <1>41, <1>42, <1>43
     DEF Next, JobStep, RowStep

-----------------------------------------------------------------------------
(* The initial states satisfy everything. *)
LEMMA InitOK == Init => TypeOK /\ Inv /\ Own
<1> SUFFICES ASSUME Init PROVE TypeOK /\ Inv /\ Own
  OBVIOUS
<1> USE ConstantsAssumption DEF Init
<1>0. NoLink \notin Claims /\ Source \notin Claims /\ 0 \notin Claims
  BY DEF NoLink, Source, Claims
<1>1. TypeOK
  <2>1. RowsOK
    BY DEF RowsOK, SourceLink, Terminal
  <2>2. DeviceOK /\ HistoryOK
    BY DEF DeviceOK, HistoryOK
  <2>3. JobsOK
    BY DEF JobsOK, Unfinished, Active, BeforeTry, InTry, AfterSend
  <2>4. LaneOK
    BY Zenon DEF LaneOK
  <2>5. archBoot \in [Claims -> Nat] /\ boot \in Nat \ {0}
    OBVIOUS
  <2>6. ArchivesOK
    BY <2>5 DEF ArchivesOK
  <2>7. ServerOK
    BY <2>5, Zenon DEF ServerOK
  <2> QED  BY <2>1, <2>2, <2>3, <2>4, <2>6, <2>7 DEF TypeOK
<1>2. OneClaimPerLane /\ BindingIsOwned /\ ExternalInv
  BY DEF OneClaimPerLane, BindingIsOwned, ExternalInv
<1>3. SentInv
  BY DEF SentInv, Published, AfterSend, Unfinished, Active, BeforeTry, InTry
<1>4. ClaimInv
  BY DEF ClaimInv
<1>5. ArchiveInv
  BY <1>0 DEF ArchiveInv, SourceLink, AfterSend, InTry
<1>6. Own
  BY <1>0 DEF Own, GateInv, TokenInv, QueuedClaimWasSent, ClaimWithoutJob, SourceLink, Unfinished,
       Active, BeforeTry, InTry, AfterSend
<1> QED  BY <1>1, <1>2, <1>3, <1>4, <1>5, <1>6 DEF Inv

(* So does a step that changes nothing. *)
LEMMA Stutter == UNCHANGED vars => /\ TypeOK => TypeOK'
                                   /\ Inv => Inv'
                                   /\ Own => Own'
<1> SUFFICES ASSUME UNCHANGED vars
             PROVE  (TypeOK => TypeOK') /\ (Inv => Inv') /\ (Own => Own')
  OBVIOUS
<1> USE DEF vars, rows, lane, jobs, archs, server, device, history
<1>1. TypeOK => TypeOK'
  BY DEF TypeOK, RowsOK, LaneOK, JobsOK, ArchivesOK, ServerOK, DeviceOK, HistoryOK
<1>2. Inv => Inv'
  BY DEF Inv, OneClaimPerLane, BindingIsOwned, SentInv, ClaimInv, ArchiveInv, ExternalInv, Published
<1>3. Own => Own'
  BY DEF Own, GateInv, TokenInv, QueuedClaimWasSent, ClaimWithoutJob
<1> QED  BY <1>1, <1>2, <1>3

-----------------------------------------------------------------------------
(* Every variable keeps its type: what the rows, the lane, the jobs, the    *)
(* archives and the server's memory hold stays a state the code knows.     *)
THEOREM TypeCorrect == Spec => []TypeOK
<1>1. Init => TypeOK
  BY InitOK
<1>2. TypeOK /\ [Next]_vars => TypeOK'
  BY TypeStep, Stutter
<1> QED  BY <1>1, <1>2, PTL DEF Spec

(* The invariant behind the safety theorems. *)
THEOREM Invariant == Spec => []Inv
<1>1. Init => Inv
  BY InitOK
<1>2. TypeOK /\ TypeOK' /\ Inv /\ [Next]_vars => Inv'
  BY InvStep, Stutter
<1> QED  BY <1>1, <1>2, TypeCorrect, PTL DEF Spec

(* At most one row of a printer's queue claims the printer, however the     *)
(* requests, the jobs and the callbacks interleave.                        *)
THEOREM OneClaim == Spec => []OneClaimPerLane
<1>1. Inv => OneClaimPerLane
  BY DEF Inv
<1> QED  BY <1>1, Invariant, PTL

(* A run binding, which vetoes every later dispatch on the printer, belongs *)
(* to a start that was published or to a job still on its way there.       *)
THEOREM BindingOwned == Spec => []BindingIsOwned
<1>1. Inv => BindingIsOwned
  BY DEF Inv
<1> QED  BY <1>1, Invariant, PTL

(* A halted lane is set going again only by the operator's Resume or by a   *)
(* print the printer really runs.                                          *)
THEOREM HaltsSurvive == Spec => HaltSurvives
<1>1. TypeOK /\ Inv /\ [Next]_vars => [HaltStepOK]_vars
  BY HaltStep
<1> QED  BY <1>1, TypeCorrect, Invariant, PTL DEF Spec, HaltSurvives, HaltStepOK

(* An attempt of a queued row that fails while its row owns the lane halts  *)
(* the lane.                                                               *)
THEOREM FailuresHalt == Spec => FailureHaltsLane
<1>1. TypeOK /\ Inv /\ [Next]_vars => [FailureStepOK]_vars
  BY FailureStep
<1> QED  BY <1>1, TypeCorrect, Invariant, PTL DEF Spec, FailureHaltsLane, FailureStepOK

(* What an attempt owns, when no Retry overtakes one. *)
THEOREM Ownership == ASSUME RetryOvertakes = {} PROVE Spec => []Own
<1>1. Init => Own
  BY InitOK
<1>2. TypeOK /\ TypeOK' /\ Inv /\ Own /\ [Next]_vars => Own'
  BY OwnStep, Stutter
<1> QED  BY <1>1, <1>2, TypeCorrect, Invariant, PTL DEF Spec

(* A queued row that still claims the printer after its attempt has ended   *)
(* was sent: every other end gives the printer back.                       *)
THEOREM QueuedClaims == ASSUME RetryOvertakes = {} PROVE Spec => []QueuedClaimWasSent
<1>1. Own => QueuedClaimWasSent
  BY DEF Own
<1> QED  BY <1>1, Ownership, PTL

(* A claimed row goes back to pending by itself only when its attempt       *)
(* published no start and ran no swap macro.                               *)
THEOREM RequeuesAreUnpublished == ASSUME RetryOvertakes = {} PROVE Spec => RequeueOnlyUnpublished
<1>1. TypeOK /\ Inv /\ Own /\ [Next]_vars => [RequeueStepOK]_vars
  BY RequeueStep
<1> QED  BY <1>1, TypeCorrect, Invariant, Ownership, PTL DEF Spec, RequeueOnlyUnpublished, RequeueStepOK


-----------------------------------------------------------------------------
(***************************************************************************)
(* The proof that the farm starts a file at most once per request, for      *)
(* every set of queued rows and every bound, when no Retry overtakes an     *)
(* attempt.                                                                 *)
(*                                                                         *)
(* A request to print a row is spent like a ticket.  The row has it while   *)
(* it waits and while the attempt it names may not publish yet; the attempt *)
(* has it from its last look at the row (Verify), and keeps it once it has  *)
(* published.  Whatever the row goes through in between, nobody prints a    *)
(* second ticket but the person who asks again.                            *)
(*                                                                         *)
(* The second part proves that a row which takes the server down with it is *)
(* not tried for ever, whatever Retry overtakes (ChargesArePaid).           *)
(***************************************************************************)

Tickets(i) == {k \in Claims : item[k] = i /\ Ticket(k)}

(* The row itself still has the request. *)
RowTicket(i) == status[i] = "pending" \/ (status[i] = "printing" /\ ~Ticket(startedAt[i]))

TicketsPaid(i) == Cardinality(Tickets(i)) + (IF RowTicket(i) THEN 1 ELSE 0) <= intents[i]

TicketInv == \A i \in Items \ Directs : TicketsPaid(i)

(* An attempt on its way was made by the server that runs. *)
BootInv == \A k \in Claims : pc[k] \in {"archived"} \cup InTry => archBoot[k] = boot

StartInv == TicketInv /\ BootInv

(* A step that prints no ticket for row i: the attempts get none, and the   *)
(* row takes one back only from the attempt it names.                      *)
KeepsTickets(i) ==
    /\ intents'[i] = intents[i]
    /\ \A k \in Claims : item'[k] = i /\ Ticket(k)' => item[k] = i /\ Ticket(k)
    /\ status'[i] = "printing" =>
          status[i] = "pending" \/ (status[i] = "printing" /\ startedAt'[i] = startedAt[i])
    /\ status'[i] = "pending" =>
          \/ status[i] = "pending"
          \/ status[i] = "printing" /\ \A k \in Claims : k = startedAt[i] => ~Ticket(k)'

KeepsAll == \A i \in Items \ Directs : KeepsTickets(i)

-----------------------------------------------------------------------------
LEMMA TicketsFinite ==
    ASSUME NEW i \in Items
    PROVE  IsFiniteSet(Tickets(i)) /\ Cardinality(Tickets(i)) \in Nat
<1>1. IsFiniteSet(Claims)
  BY ConstantsAssumption, FS_Interval DEF Claims
<1>2. Tickets(i) \subseteq Claims
  BY DEF Tickets
<1> QED  BY <1>1, <1>2, FS_Subset, FS_CardinalityType

(* Such a step leaves every ticket paid for. *)
LEMMA KeptIsPaid ==
    ASSUME TypeOK, TypeOK', Inv, NEW i \in Items, TicketsPaid(i), KeepsTickets(i)
    PROVE  TicketsPaid(i)'
<1> USE DEF TicketsPaid
<1>1. /\ IsFiniteSet(Tickets(i)) /\ Cardinality(Tickets(i)) \in Nat
      /\ intents[i] \in Nat
  BY TicketsFinite DEF TypeOK, HistoryOK
<1>2. Tickets(i)' \subseteq Tickets(i)
  BY DEF Tickets, KeepsTickets
<1>3. Cardinality(Tickets(i)') <= Cardinality(Tickets(i)) /\ Cardinality(Tickets(i)') \in Nat
  BY <1>1, <1>2, FS_Subset, FS_CardinalityType
<1>4. intents'[i] = intents[i]
  BY DEF KeepsTickets
<1>5. CASE RowTicket(i) \/ ~RowTicket(i)'
  BY <1>1, <1>3, <1>4, <1>5
<1>6. CASE ~RowTicket(i) /\ RowTicket(i)'
  <2>0. status[i] = "printing" /\ startedAt[i] \in Claims
    <3>1. status[i] = "printing"
      BY <1>6 DEF RowTicket, KeepsTickets
    <3> QED  BY <1>6, <3>1 DEF TypeOK, RowsOK, Inv, ClaimInv
  <2> PICK k \in Claims : k = startedAt[i]
    BY <2>0
  <2>1. status[i] = "printing" /\ item[k] = i /\ Ticket(k)
    BY <1>6, <2>0 DEF RowTicket, TypeOK, RowsOK, Inv, ClaimInv
  <2>2. ~Ticket(k)'
    <3>1. CASE status'[i] = "pending"
      BY <2>1, <3>1 DEF KeepsTickets
    <3>2. CASE status'[i] = "printing"
      <4>1. startedAt'[i] = k
        BY <2>1, <3>2 DEF KeepsTickets
      <4> QED  BY <1>6, <3>2, <4>1 DEF RowTicket, Ticket
    <3> QED  BY <1>6, <3>1, <3>2 DEF RowTicket
  <2>3. k \in Tickets(i) /\ k \notin Tickets(i)'
    BY <2>1, <2>2 DEF Tickets, Ticket
  <2>4. Tickets(i)' \subseteq Tickets(i) \ {k}
    BY <1>2, <2>3
  <2>5. IsFiniteSet(Tickets(i) \ {k}) /\ Cardinality(Tickets(i) \ {k}) = Cardinality(Tickets(i)) - 1
    BY <1>1, <2>3, FS_RemoveElement
  <2>6. Cardinality(Tickets(i)') <= Cardinality(Tickets(i)) - 1
    BY <2>4, <2>5, FS_Subset
  <2> QED  BY <1>1, <1>3, <1>4, <1>6, <2>6
<1> QED  BY <1>5, <1>6

(* The last look at the row hands its ticket to the attempt. *)
LEMMA VerifyIsPaid ==
    ASSUME TypeOK, TypeOK', Inv, Own, TicketInv, NEW k \in Claims, Verify(k)
    PROVE  TicketInv'
<1> SUFFICES ASSUME NEW i \in Items \ Directs PROVE TicketsPaid(i)'
  BY DEF TicketInv
<1> USE DEF Verify, MoveTo, RunnerEnds, TypeOK, RowsOK, JobsOK, HistoryOK, rows, jobData, history
<1>1. TicketsPaid(i)
  BY DEF TicketInv
<1>2. CASE item[k] # i \/ ~OwnsClaim(k)
  <2>1. KeepsTickets(i)
    BY <1>2, SMTT(30) DEF KeepsTickets, Ticket
  <2> QED  BY <1>1, <2>1, KeptIsPaid
<1>3. CASE item[k] = i /\ OwnsClaim(k)
  <2>1. status[i] = "printing" /\ startedAt[i] = k
    <3>1. ~direct[k] /\ token[k] \in {0, k}
      BY <1>3 DEF Inv, ClaimInv, Own, TokenInv, Unfinished, Active, InTry
    <3>2. status[i] = "printing" /\ startedAt[i] = token[k] /\ startedAt[i] # 0
      BY <1>3 DEF OwnsClaim, Inv, ClaimInv
    <3> QED  BY <3>1, <3>2
  <2>2. ~Ticket(k)
    <3>1. k \notin published
      BY DEF Inv, SentInv, Unfinished, Active, InTry, AfterSend
    <3> QED  BY <3>1 DEF Ticket
  <2>3. RowTicket(i) /\ ~RowTicket(i)'
    <3>1. status' = status /\ startedAt' = startedAt /\ pc'[k] = "verified"
      BY <1>3
    <3> QED  BY <2>1, <2>2, <3>1 DEF RowTicket, Ticket
  <2>4. Tickets(i)' = Tickets(i) \cup {k} /\ k \notin Tickets(i)
    <3>1. item' = item /\ published' = published /\ pc' = [pc EXCEPT ![k] = "verified"]
      BY <1>3
    <3> QED  BY <1>3, <2>2, <3>1 DEF Tickets, Ticket
  <2>5. Cardinality(Tickets(i)') = Cardinality(Tickets(i)) + 1 /\ Cardinality(Tickets(i)) \in Nat
    <3>1. IsFiniteSet(Tickets(i)) /\ Cardinality(Tickets(i)) \in Nat
      BY TicketsFinite
    <3>2. Cardinality(Tickets(i) \cup {k}) = Cardinality(Tickets(i)) + 1
      BY <2>4, <3>1, FS_AddElement
    <3> QED  BY <2>4, <3>1, <3>2
  <2>6. intents' = intents /\ intents[i] \in Nat
    OBVIOUS
  <2> QED  BY <1>1, <2>3, <2>5, <2>6 DEF TicketsPaid
<1> QED  BY <1>2, <1>3

(* A person who asks again pays for the row's ticket. *)
LEMMA RetryIsPaid ==
    ASSUME TypeOK, TypeOK', Inv, TicketInv, NEW j \in Items, Retry(j)
    PROVE  TicketInv'
<1> SUFFICES ASSUME NEW i \in Items \ Directs PROVE TicketsPaid(i)'
  BY DEF TicketInv
<1> USE DEF Retry, TypeOK, RowsOK, HistoryOK, jobs, history
<1>1. TicketsPaid(i)
  BY DEF TicketInv
<1>2. CASE i # j
  <2>1. KeepsTickets(i)
    BY <1>2 DEF KeepsTickets, Ticket
  <2> QED  BY <1>1, <2>1, KeptIsPaid
<1>3. CASE i = j
  <2>1. Tickets(i)' = Tickets(i) /\ Cardinality(Tickets(i)) \in Nat
    BY TicketsFinite DEF Tickets, Ticket
  <2>2. ~RowTicket(i) /\ intents'[i] = intents[i] + 1 /\ intents[i] \in Nat
    BY <1>3 DEF RowTicket
  <2> QED  BY <1>1, <2>1, <2>2 DEF TicketsPaid
<1> QED  BY <1>2, <1>3

-----------------------------------------------------------------------------
(* The recovery of an interrupted attempt takes a ticket back only from an  *)
(* attempt of an ended server.                                             *)
LEMMA InterruptedKeeps ==
    ASSUME RetryOvertakes = {}, TypeOK, TypeOK', Inv, Own, StartInv,
           NEW i \in Items, SettleInterrupted(i)
    PROVE  KeepsAll
<1> USE ConstantsAssumption DEF StartInv, Inv, SentInv, ClaimInv, TypeOK, RowsOK, LaneOK, JobsOK,
        ArchivesOK, ServerOK, DeviceOK, HistoryOK, Terminal, BeforeTry, InTry, AfterSend, Active,
        Unfinished, rows, lane, jobs, jobData, archs, server, device, history
<1>0. NoLink \notin Claims /\ Source \notin Claims /\ 0 \notin Claims
  BY DEF NoLink, Source, Claims
<1> USE <1>0 DEF SettleInterrupted, Interrupted, SourceLink, SetQueueError, SetQueueIdle
<1> SUFFICES ASSUME NEW j \in Items \ Directs PROVE KeepsTickets(j)
  BY DEF KeepsAll
<1>1. /\ intents' = intents /\ item' = item /\ pc' = pc /\ published' = published
      /\ status'[j] = "printing" => status[j] = "printing" /\ startedAt'[j] = startedAt[j]
      /\ status'[j] = "pending" => status[j] = "pending" \/ (status[j] = "printing" /\ j = i)
  BY SMTT(30)
<1>2. ASSUME status[j] = "printing", status'[j] = "pending"
      PROVE  \A k \in Claims : k = startedAt[j] => ~Ticket(k)'
  <2>1. link[j] = startedAt[j] /\ link[j] \in Claims /\ archBoot[link[j]] # boot
    BY <1>1, <1>2 DEF Own, TokenInv
  <2>2. pc[startedAt[j]] \notin {"verified", "sending"}
    <3>1. BootInv
      OBVIOUS
    <3> QED  BY ONLY <2>1, <3>1 DEF BootInv, InTry
  <2>3. startedAt[j] \notin published
    BY <1>2, RequeueStep DEF RequeueStepOK, Next, RowStep
  <2> QED  BY <1>1, <2>2, <2>3 DEF Ticket
<1> QED  BY <1>1, <1>2 DEF KeepsTickets, Ticket

(* The end of a refused attempt takes back its own ticket only. *)
LEMMA DeferredKeeps ==
    ASSUME RetryOvertakes = {}, TypeOK, TypeOK', Inv, Own, StartInv,
           NEW k \in Claims, SettleDeferred(k)
    PROVE  KeepsAll
<1> USE ConstantsAssumption DEF StartInv, Inv, SentInv, ClaimInv, TypeOK, RowsOK, LaneOK, JobsOK,
        ArchivesOK, ServerOK, DeviceOK, HistoryOK, Terminal, BeforeTry, InTry, AfterSend, Active,
        Unfinished, rows, lane, jobs, jobData, archs, server, device, history
<1> SUFFICES ASSUME NEW j \in Items \ Directs PROVE KeepsTickets(j)
  BY DEF KeepsAll
<1>1. RefusalEffect(k)
  BY SettleDeferredEffect
<1> USE <1>1 DEF RefusalEffect
<1>2. /\ intents' = intents /\ item' = item /\ published' = published
      /\ pc' = [pc EXCEPT ![k] = "done"]
      /\ status'[j] = "printing" => status[j] = "printing" /\ startedAt'[j] = startedAt[j]
      /\ status'[j] = "pending" => status[j] = "pending" \/
                                     (status[j] = "printing" /\ j = item[k] /\ OwnsClaim(k))
  BY SMTT(30) DEF OwnsClaim
<1>3. ASSUME status[j] = "printing", status'[j] = "pending"
      PROVE  \A c \in Claims : c = startedAt[j] => ~Ticket(c)'
  <2>1. startedAt[j] = k
    <3>1. ~direct[k] /\ token[k] \in {0, k}
      BY <1>2, <1>3 DEF Own, TokenInv
    <3>2. startedAt[j] = token[k] /\ startedAt[j] # 0
      BY <1>2, <1>3 DEF OwnsClaim
    <3> QED  BY <3>1, <3>2
  <2>2. startedAt[j] \notin published
    BY <1>3, RequeueStep DEF RequeueStepOK, Next, JobStep
  <2> QED  BY <1>2, <2>1, <2>2 DEF Ticket
<1> QED  BY <1>2, <1>3 DEF KeepsTickets, Ticket

(* Every other step prints no ticket at all. *)
LEMMA TicketStep ==
    ASSUME RetryOvertakes = {}, TypeOK, TypeOK', Inv, Own, StartInv, Next
    PROVE  TicketInv'
<1> USE ConstantsAssumption DEF StartInv, Inv, SentInv, ClaimInv, TypeOK, RowsOK, LaneOK, JobsOK,
        ArchivesOK, ServerOK, DeviceOK, HistoryOK, Terminal, BeforeTry, InTry, AfterSend, Active,
        Unfinished, rows, lane, jobs, jobData, archs, server, device, history
<1>0. NoLink \notin Claims /\ Source \notin Claims /\ 0 \notin Claims
  BY DEF NoLink, Source, Claims
<1>1. ASSUME NEW i \in Items, Claim(i) PROVE KeepsAll
  BY <1>0, <1>1, SMTT(30) DEF KeepsAll, KeepsTickets, Ticket, Claims, Claim, LaneFree, NewJob
<1>2. ASSUME NEW i \in Items, ClaimSpent(i) PROVE KeepsAll
  BY <1>0, <1>2, SMTT(30) DEF KeepsAll, KeepsTickets, Ticket, ClaimSpent
<1>3. ASSUME NEW i \in Items, ClaimDirect(i) PROVE KeepsAll
  BY <1>0, <1>3, SMTT(30) DEF KeepsAll, KeepsTickets, Ticket, Claims, ClaimDirect, LaneFree,
     NewJob
<1>4. ASSUME NEW i \in Items, SettleInterrupted(i) PROVE KeepsAll
  BY <1>4, InterruptedKeeps
<1>5. ASSUME NEW i \in Items, Stop(i) PROVE KeepsAll
  BY <1>0, <1>5, SMTT(30) DEF KeepsAll, KeepsTickets, Ticket, Stop, StopRow, CloseArchive,
     SetQueuePaused
<1>6. ASSUME NEW i \in Items, BeginStop(i) PROVE KeepsAll
  BY <1>0, <1>6, SMTT(30) DEF KeepsAll, KeepsTickets, Ticket, BeginStop
<1>7. ASSUME NEW i \in Items, CancelPending(i) PROVE KeepsAll
  BY <1>0, <1>7, SMTT(30) DEF KeepsAll, KeepsTickets, Ticket, CancelPending
<1>8. ASSUME NEW i \in Items, Retry(i) PROVE TicketInv'
  BY <1>8, RetryIsPaid
<1>9. ASSUME NEW k \in Claims, TakeJob(k) PROVE KeepsAll
  BY <1>0, <1>9, SMTT(30) DEF KeepsAll, KeepsTickets, Ticket, TakeJob, MoveTo
<1>10. ASSUME NEW k \in Claims, CancelQueued(k) PROVE KeepsAll
  BY <1>0, <1>10, SMTT(30) DEF KeepsAll, KeepsTickets, Ticket, CancelQueued, MoveTo
<1>11. ASSUME NEW k \in Claims, CancelJob(k) PROVE KeepsAll
  BY <1>0, <1>11, SMTT(30) DEF KeepsAll, KeepsTickets, Ticket, CancelJob
<1>12. ASSUME NEW k \in Claims, Admit(k) PROVE KeepsAll
  BY <1>0, <1>12, SMTT(30) DEF KeepsAll, KeepsTickets, Ticket, Admit, MoveTo, RunnerEnds
<1>13. ASSUME NEW k \in Claims, Prepare(k) PROVE KeepsAll
  BY <1>0, <1>13, SMTT(30) DEF KeepsAll, KeepsTickets, Ticket, Prepare, MoveTo, RunnerEnds
<1>14. ASSUME NEW k \in Claims, CreateArchive(k) PROVE KeepsAll
  BY <1>0, <1>14, SMTT(30) DEF KeepsAll, KeepsTickets, Ticket, CreateArchive, MoveTo
<1>15. ASSUME NEW k \in Claims, CancelBeforeTry(k) PROVE KeepsAll
  BY <1>0, <1>15, SMTT(30) DEF KeepsAll, KeepsTickets, Ticket, CancelBeforeTry, RunnerEnds
<1>16. ASSUME NEW k \in Claims, Upload(k) PROVE KeepsAll
  BY <1>0, <1>16, SMTT(30) DEF KeepsAll, KeepsTickets, Ticket, Upload, MoveTo
<1>17. ASSUME NEW k \in Claims, CancelInTry(k) PROVE KeepsAll
  BY <1>0, <1>17, SMTT(30) DEF KeepsAll, KeepsTickets, Ticket, CancelInTry, RunnerEnds,
     CloseArchive
<1>18. ASSUME NEW k \in Claims, Bind(k) PROVE KeepsAll
  BY <1>0, <1>18, SMTT(30) DEF KeepsAll, KeepsTickets, Ticket, Bind, MoveTo, RunnerEnds
<1>19. ASSUME NEW k \in Claims, RunSwapMacro(k) PROVE KeepsAll
  BY <1>0, <1>19, SMTT(30) DEF KeepsAll, KeepsTickets, Ticket, RunSwapMacro, MoveTo, RunnerEnds
<1>20. ASSUME NEW k \in Claims, Verify(k) PROVE TicketInv'
  BY <1>20, VerifyIsPaid
<1>21. ASSUME NEW k \in Claims, Deferred(k) PROVE KeepsAll
  BY <1>0, <1>21, SMTT(30) DEF KeepsAll, KeepsTickets, Ticket, Deferred, RunnerEnds
<1>22. ASSUME NEW k \in Claims, RunnerFails(k) PROVE KeepsAll
  BY <1>0, <1>22, SMTT(30) DEF KeepsAll, KeepsTickets, Ticket, RunnerFails, RunnerEnds,
     CloseArchive
<1>23. ASSUME NEW k \in Claims, CommitSending(k) PROVE KeepsAll
  BY <1>0, <1>23, SMTT(30) DEF KeepsAll, KeepsTickets, Ticket, CommitSending, MoveTo,
     RunnerEnds, CloseArchive
<1>24. ASSUME NEW k \in Claims, Publish(k) PROVE KeepsAll
  BY <1>0, <1>24, SMTT(30) DEF KeepsAll, KeepsTickets, Ticket, Publish, MoveTo, RunnerEnds
<1>25. ASSUME NEW k \in Claims, RecordSent(k) PROVE KeepsAll
  BY <1>0, <1>25, SMTT(30) DEF KeepsAll, KeepsTickets, Ticket, RecordSent, MoveTo
<1>26. ASSUME NEW k \in Claims, Answer(k) PROVE KeepsAll
  BY <1>0, <1>26, SMTT(30) DEF KeepsAll, KeepsTickets, Ticket, Answer, RunnerEnds, CloseArchive
<1>27. ASSUME NEW k \in Claims, SettleDeferred(k) PROVE KeepsAll
  BY <1>27, DeferredKeeps
<1>28. ASSUME NEW k \in Claims, SettleFailed(k) PROVE KeepsAll
  BY <1>0, <1>28, SMTT(30) DEF KeepsAll, KeepsTickets, Ticket, SettleFailed, ReleaseDirectClaim,
     FailAttempt, Finished, SetQueueError, SetQueueIdle, OwnsClaim
<1>29. ASSUME NEW k \in Claims, SettleCancelled(k) PROVE KeepsAll
  BY <1>0, <1>29, SMTT(30) DEF KeepsAll, KeepsTickets, Ticket, SettleCancelled,
     ReleaseDirectClaim, CancelItem, Finished, SetQueueError, SetQueueIdle, SetQueuePaused,
     OwnsClaim
<1>30. ASSUME NEW k \in Claims, SettleSent(k) PROVE KeepsAll
  BY <1>0, <1>30, SMTT(30) DEF KeepsAll, KeepsTickets, Ticket, SettleSent, Finished
<1>31. ASSUME NEW k \in Claims, WatchdogFails(k) PROVE KeepsAll
  BY <1>0, <1>31, SMTT(30) DEF KeepsAll, KeepsTickets, Ticket, WatchdogFails, FailAttempt,
     CloseArchive, SetQueueError
<1>32. ASSUME NEW k \in Claims, PrinterStarts(k) PROVE KeepsAll
  BY <1>0, <1>32, SMTT(30) DEF KeepsAll, KeepsTickets, Ticket, PrinterStarts, CloseStaleRuns,
     MarkQueuePrinting
<1>33. ASSUME NEW k \in Claims, PrinterDrops(k) PROVE KeepsAll
  BY <1>0, <1>33, SMTT(30) DEF KeepsAll, KeepsTickets, Ticket, PrinterDrops
<1>34. ASSUME NEW r \in {"completed", "failed", "aborted"}, PrinterEnds(r) PROVE KeepsAll
  BY <1>0, <1>34, SMTT(30) DEF KeepsAll, KeepsTickets, Ticket, PrinterEnds, Normalised,
     SetQueueError, SetQueueIdle, SetQueuePaused
<1>35. ASSUME Restart PROVE KeepsAll
  <2> SUFFICES ASSUME NEW j \in Items \ Directs PROVE KeepsTickets(j)
    BY DEF KeepsAll
  <2> USE <1>0, <1>35 DEF Restart
  <2>1. /\ intents' = intents /\ item' = item /\ published' = published
        /\ \A c \in Claims : pc'[c] \notin {"verified", "sending"}
        /\ status'[j] = "printing" => status[j] = "printing" /\ startedAt'[j] = startedAt[j]
        /\ status'[j] = "pending" => status[j] \in {"pending", "printing"}
    BY SMTT(30)
  <2>2. ASSUME status[j] = "printing", status'[j] = "pending"
        PROVE  \A c \in Claims : c = startedAt[j] => ~Ticket(c)'
    <3>1. startedAt[j] \notin published
      BY <2>2, RequeueStep DEF RequeueStepOK, Next
    <3> QED  BY <2>1, <3>1 DEF Ticket
  <2> QED  BY <2>1, <2>2 DEF KeepsTickets, Ticket
<1>36. ASSUME Adopt PROVE KeepsAll
  BY <1>0, <1>36, SMTT(30) DEF KeepsAll, KeepsTickets, Ticket, Adopt, CloseStaleRuns,
     MarkQueuePrinting
<1>37. ASSUME RepairRows PROVE KeepsAll
  <2> USE <1>0, <1>37 DEF RepairRows, NoPrintingArchive
  <2>1. /\ intents' = intents /\ item' = item /\ pc' = pc /\ published' = published
    OBVIOUS
  <2>2. ASSUME NEW j \in Items, status[j] = "printing" PROVE status'[j] \in Terminal
    <3>1. link[j] \in Claims /\ archive[link[j]] # "none" /\ archive[link[j]] # "printing"
      BY <2>2
    <3>2. archive[link[j]] \in Terminal
      BY <3>1
    <3> QED  BY <2>2, <3>2
  <2>3. ASSUME NEW j \in Items, status[j] # "printing" PROVE status'[j] = status[j]
    BY <2>3
  <2> QED  BY <2>1, <2>2, <2>3 DEF KeepsAll, KeepsTickets, Ticket
<1>38. ASSUME ClearContext PROVE KeepsAll
  BY <1>0, <1>38, SMTT(30) DEF KeepsAll, KeepsTickets, Ticket, ClearContext
<1>39. ASSUME CloseFarm PROVE KeepsAll
  BY <1>0, <1>39, SMTT(30) DEF KeepsAll, KeepsTickets, Ticket, CloseFarm
<1>40. ASSUME OpenFarm PROVE KeepsAll
  BY <1>0, <1>40, SMTT(30) DEF KeepsAll, KeepsTickets, Ticket, OpenFarm
<1>41. ASSUME ResumeLane PROVE KeepsAll
  BY <1>0, <1>41, SMTT(30) DEF KeepsAll, KeepsTickets, Ticket, ResumeLane
<1>42. ASSUME FinishStop PROVE KeepsAll
  BY <1>0, <1>42, SMTT(30) DEF KeepsAll, KeepsTickets, Ticket, FinishStop, StopRow,
     CloseArchive, SetQueuePaused
<1>43. ASSUME HoldExpires PROVE KeepsAll
  BY <1>0, <1>43, SMTT(30) DEF KeepsAll, KeepsTickets, Ticket, HoldExpires
<1> HIDE DEF TypeOK, Inv, SentInv, ClaimInv, KeepsAll, StartInv
<1>90. KeepsAll => TicketInv'
  BY KeptIsPaid DEF KeepsAll, TicketInv, StartInv
<1> QED
  BY <1>1, <1>2, <1>3, <1>4, <1>5, <1>6, <1>7, <1>8, <1>9, <1>10, <1>11, <1>12, <1>13, <1>14,
     <1>15, <1>16, <1>17, <1>18, <1>19, <1>20, <1>21, <1>22, <1>23, <1>24, <1>25, <1>26,
     <1>27, <1>28, <1>29, <1>30, <1>31, <1>32, <1>33, <1>34, <1>35, <1>36, <1>37, <1>38,
     <1>39, <1>40, <1>41, <1>42, <1>43, <1>90 DEF Next, JobStep, RowStep

(* An attempt's archive is made in the process that runs the attempt. *)
LEMMA BootStep ==
    ASSUME TypeOK, TypeOK', Inv, BootInv, Next
    PROVE  BootInv'
<1> USE ConstantsAssumption DEF BootInv, TypeOK, JobsOK, ArchivesOK, ServerOK, DeviceOK,
        BeforeTry, InTry, AfterSend, Active, Unfinished, rows, lane, jobs, jobData, archs, server,
        device, history
<1>1. ASSUME NEW i \in Items, Claim(i) PROVE BootInv'
  BY <1>1, SMTT(30) DEF Claim, NewJob
<1>2. ASSUME NEW i \in Items, ClaimSpent(i) PROVE BootInv'
  BY <1>2, SMTT(30) DEF ClaimSpent
<1>3. ASSUME NEW i \in Items, ClaimDirect(i) PROVE BootInv'
  BY <1>3, SMTT(30) DEF ClaimDirect, NewJob
<1>4. ASSUME NEW i \in Items, SettleInterrupted(i) PROVE BootInv'
  BY <1>4, SMTT(30) DEF SettleInterrupted, Interrupted
<1>5. ASSUME NEW i \in Items, Stop(i) PROVE BootInv'
  BY <1>5, SMTT(30) DEF Stop, StopRow, CloseArchive
<1>6. ASSUME NEW i \in Items, BeginStop(i) PROVE BootInv'
  BY <1>6, SMTT(30) DEF BeginStop
<1>7. ASSUME NEW i \in Items, CancelPending(i) PROVE BootInv'
  BY <1>7, SMTT(30) DEF CancelPending
<1>8. ASSUME NEW i \in Items, Retry(i) PROVE BootInv'
  BY <1>8, SMTT(30) DEF Retry
<1>9. ASSUME NEW k \in Claims, TakeJob(k) PROVE BootInv'
  BY <1>9, SMTT(30) DEF TakeJob, MoveTo
<1>10. ASSUME NEW k \in Claims, CancelQueued(k) PROVE BootInv'
  BY <1>10, SMTT(30) DEF CancelQueued, MoveTo
<1>11. ASSUME NEW k \in Claims, CancelJob(k) PROVE BootInv'
  BY <1>11, SMTT(30) DEF CancelJob
<1>12. ASSUME NEW k \in Claims, Admit(k) PROVE BootInv'
  BY <1>12, SMTT(30) DEF Admit, MoveTo, RunnerEnds
<1>13. ASSUME NEW k \in Claims, Prepare(k) PROVE BootInv'
  BY <1>13, SMTT(30) DEF Prepare, MoveTo, RunnerEnds
<1>14. ASSUME NEW k \in Claims, CreateArchive(k) PROVE BootInv'
  BY <1>14, SMTT(30) DEF CreateArchive, MoveTo
<1>15. ASSUME NEW k \in Claims, CancelBeforeTry(k) PROVE BootInv'
  BY <1>15, SMTT(30) DEF CancelBeforeTry, RunnerEnds
<1>16. ASSUME NEW k \in Claims, Upload(k) PROVE BootInv'
  BY <1>16, SMTT(30) DEF Upload, MoveTo
<1>17. ASSUME NEW k \in Claims, CancelInTry(k) PROVE BootInv'
  BY <1>17, SMTT(30) DEF CancelInTry, RunnerEnds, CloseArchive
<1>18. ASSUME NEW k \in Claims, Bind(k) PROVE BootInv'
  BY <1>18, SMTT(30) DEF Bind, MoveTo, RunnerEnds
<1>19. ASSUME NEW k \in Claims, RunSwapMacro(k) PROVE BootInv'
  BY <1>19, SMTT(30) DEF RunSwapMacro, MoveTo, RunnerEnds
<1>20. ASSUME NEW k \in Claims, Verify(k) PROVE BootInv'
  BY <1>20, SMTT(30) DEF Verify, MoveTo, RunnerEnds
<1>21. ASSUME NEW k \in Claims, Deferred(k) PROVE BootInv'
  BY <1>21, SMTT(30) DEF Deferred, RunnerEnds
<1>22. ASSUME NEW k \in Claims, RunnerFails(k) PROVE BootInv'
  BY <1>22, SMTT(30) DEF RunnerFails, RunnerEnds, CloseArchive
<1>23. ASSUME NEW k \in Claims, CommitSending(k) PROVE BootInv'
  BY <1>23, SMTT(30) DEF CommitSending, MoveTo, RunnerEnds, CloseArchive
<1>24. ASSUME NEW k \in Claims, Publish(k) PROVE BootInv'
  BY <1>24, SMTT(30) DEF Publish, MoveTo, RunnerEnds
<1>25. ASSUME NEW k \in Claims, RecordSent(k) PROVE BootInv'
  BY <1>25, SMTT(30) DEF RecordSent, MoveTo
<1>26. ASSUME NEW k \in Claims, Answer(k) PROVE BootInv'
  BY <1>26, SMTT(30) DEF Answer, RunnerEnds, CloseArchive
<1>27. ASSUME NEW k \in Claims, SettleDeferred(k) PROVE BootInv'
  BY <1>27, SMTT(30) DEF SettleDeferred, DeferClaim, CloseArchive, Finished, OwnsClaim
<1>28. ASSUME NEW k \in Claims, SettleFailed(k) PROVE BootInv'
  BY <1>28, SMTT(30) DEF SettleFailed, ReleaseDirectClaim, FailAttempt, Finished, OwnsClaim
<1>29. ASSUME NEW k \in Claims, SettleCancelled(k) PROVE BootInv'
  BY <1>29, SMTT(30) DEF SettleCancelled, ReleaseDirectClaim, CancelItem, Finished, OwnsClaim
<1>30. ASSUME NEW k \in Claims, SettleSent(k) PROVE BootInv'
  BY <1>30, SMTT(30) DEF SettleSent, Finished
<1>31. ASSUME NEW k \in Claims, WatchdogFails(k) PROVE BootInv'
  BY <1>31, SMTT(30) DEF WatchdogFails, FailAttempt, CloseArchive
<1>32. ASSUME NEW k \in Claims, PrinterStarts(k) PROVE BootInv'
  BY <1>32, SMTT(30) DEF PrinterStarts, CloseStaleRuns
<1>33. ASSUME NEW k \in Claims, PrinterDrops(k) PROVE BootInv'
  BY <1>33, SMTT(30) DEF PrinterDrops
<1>34. ASSUME NEW r \in {"completed", "failed", "aborted"}, PrinterEnds(r) PROVE BootInv'
  BY <1>34, SMTT(30) DEF PrinterEnds
<1>35. ASSUME Restart PROVE BootInv'
  BY <1>35, SMTT(30) DEF Restart
<1>36. ASSUME Adopt PROVE BootInv'
  BY <1>36, SMTT(30) DEF Adopt, CloseStaleRuns
<1>37. ASSUME RepairRows PROVE BootInv'
  BY <1>37, SMTT(30) DEF RepairRows
<1>38. ASSUME ClearContext PROVE BootInv'
  BY <1>38, SMTT(30) DEF ClearContext
<1>39. ASSUME CloseFarm PROVE BootInv'
  BY <1>39, SMTT(30) DEF CloseFarm
<1>40. ASSUME OpenFarm PROVE BootInv'
  BY <1>40, SMTT(30) DEF OpenFarm
<1>41. ASSUME ResumeLane PROVE BootInv'
  BY <1>41, SMTT(30) DEF ResumeLane
<1>42. ASSUME FinishStop PROVE BootInv'
  BY <1>42, SMTT(30) DEF FinishStop, StopRow, CloseArchive
<1>43. ASSUME HoldExpires PROVE BootInv'
  BY <1>43, SMTT(30) DEF HoldExpires
<1> HIDE DEF TypeOK, BootInv
<1> QED
  BY <1>1, <1>2, <1>3, <1>4, <1>5, <1>6, <1>7, <1>8, <1>9, <1>10, <1>11, <1>12, <1>13, <1>14,
     <1>15, <1>16, <1>17, <1>18, <1>19, <1>20, <1>21, <1>22, <1>23, <1>24, <1>25, <1>26,
     <1>27, <1>28, <1>29, <1>30, <1>31, <1>32, <1>33, <1>34, <1>35, <1>36, <1>37, <1>38,
     <1>39, <1>40, <1>41, <1>42, <1>43 DEF Next, JobStep, RowStep

-----------------------------------------------------------------------------
LEMMA StartInit == Init => StartInv
<1> SUFFICES ASSUME Init PROVE StartInv
  OBVIOUS
<1>1. BootInv
  BY DEF BootInv, Init, InTry
<1>2. ASSUME NEW i \in Items \ Directs PROVE TicketsPaid(i)
  <2>1. Tickets(i) = {}
    BY DEF Tickets, Ticket, Init
  <2>2. Cardinality(Tickets(i)) = 0 /\ intents[i] = 1
    BY <2>1, FS_EmptySet DEF Init
  <2> QED  BY <2>2 DEF TicketsPaid
<1> QED  BY <1>1, <1>2 DEF StartInv, TicketInv

LEMMA StartStutter == StartInv /\ UNCHANGED vars => StartInv'
BY DEF StartInv, TicketInv, TicketsPaid, Tickets, RowTicket, Ticket, BootInv, vars, rows, jobs,
       archs, server, history

(* The invariant behind the theorem: every ticket is paid for. *)
THEOREM TicketsArePaid == ASSUME RetryOvertakes = {} PROVE Spec => []StartInv
<1>1. Init => StartInv
  BY StartInit
<1>2. TypeOK /\ TypeOK' /\ Inv /\ Own /\ StartInv /\ [Next]_vars => StartInv'
  BY TicketStep, BootStep, StartStutter DEF StartInv
<1> QED  BY <1>1, <1>2, TypeCorrect, Invariant, Ownership, PTL DEF Spec

(* A queued row is started on the printer at most as many times as a person *)
(* asked for it, whatever is stopped, refused, retried, lost or interrupted *)
(* on the way.  The lane here has queued rows only: a direct print may be    *)
(* stopped and retried while its first attempt still waits at its gate.     *)
THEOREM OneStartPerIntent ==
    ASSUME RetryOvertakes = {}, Directs = {}
    PROVE  Spec => []AtMostOneStartPerIntent
<1>1. TypeOK /\ StartInv => AtMostOneStartPerIntent
  <2> SUFFICES ASSUME TypeOK, StartInv, NEW i \in Items
               PROVE  Cardinality({k \in published : item[k] = i}) <= intents[i]
    BY DEF AtMostOneStartPerIntent
  <2>1. TicketsPaid(i) /\ intents[i] \in Nat
    BY DEF StartInv, TicketInv, TypeOK, HistoryOK
  <2>2. {k \in published : item[k] = i} \subseteq Tickets(i)
    BY DEF Tickets, Ticket, TypeOK, HistoryOK
  <2>3. /\ Cardinality({k \in published : item[k] = i}) <= Cardinality(Tickets(i))
        /\ Cardinality({k \in published : item[k] = i}) \in Nat
        /\ Cardinality(Tickets(i)) \in Nat
    BY <2>2, TicketsFinite, FS_Subset, FS_CardinalityType
  <2> QED  BY <2>1, <2>3 DEF TicketsPaid
<1> QED  BY <1>1, TypeCorrect, TicketsArePaid, PTL

-----------------------------------------------------------------------------
(***************************************************************************)
(* A row that takes the server down with it.  What a crash has cut off, and *)
(* what a crash may still cut off, is charged to the row: its requests but  *)
(* the last have paid for a whole budget each, and the last one for what    *)
(* dispatch_attempts says is spent of it.                                  *)
(***************************************************************************)

Charged(i) == {k \in Claims : item[k] = i /\ ~direct[k] /\ pc[k] \in Unfinished \cup {"lost"}}

(* The attempts of row i that a crash has cut off. *)
CutOff(i) == {k \in Claims : item[k] = i /\ ~direct[k] /\ pc[k] = "lost"}

(* The budgets the requests before the last one have paid for. *)
PaidFor(i) == DispatchMaxAttempts * (intents[i] - 1)

BudgetKept(i) ==
    /\ attempts[i] <= DispatchMaxAttempts
    /\ intents[i] = 0 => status[i] = "absent"
    /\ intents[i] # 0 =>
          Cardinality(Charged(i)) <= PaidFor(i) + attempts[i]

(* A Stop under way has read a row that exists. *)
StopInv == stopping # NoItem => status[stopping] # "absent"

LoopInv == StopInv /\ \A i \in Items : BudgetKept(i)

(* A step that charges nothing to row i and gives nothing back. *)
KeepsBudget(i) ==
    /\ attempts'[i] = attempts[i] /\ intents'[i] = intents[i]
    /\ status[i] = "absent" => status'[i] = "absent"
    /\ \A k \in Claims :
          item'[k] = i /\ ~direct'[k] /\ pc'[k] \in Unfinished \cup {"lost"} =>
              item[k] = i /\ ~direct[k] /\ pc[k] \in Unfinished \cup {"lost"}

(* No row is unmade, and a Stop begins by reading a claimed one. *)
RowsStay ==
    /\ \A i \in Items : status'[i] = "absent" => status[i] = "absent"
    /\ stopping' \in {stopping, NoItem} \/ status[stopping'] = "printing"

KeepsBudgets == RowsStay /\ \A i \in Items : KeepsBudget(i)

LEMMA Budgets == \A d, n \in Nat : d * (n + 1) = d * n + d /\ d * n \in Nat
OBVIOUS

LEMMA ChargedFinite ==
    ASSUME NEW i \in Items
    PROVE  IsFiniteSet(Charged(i)) /\ Cardinality(Charged(i)) \in Nat
<1>1. IsFiniteSet(Claims)
  BY ConstantsAssumption, FS_Interval DEF Claims
<1>2. Charged(i) \subseteq Claims
  BY DEF Charged
<1> QED  BY <1>1, <1>2, FS_Subset, FS_CardinalityType

LEMMA BudgetStays ==
    ASSUME TypeOK, NEW i \in Items, BudgetKept(i), KeepsBudget(i)
    PROVE  BudgetKept(i)'
<1>1. Charged(i)' \subseteq Charged(i)
  BY DEF Charged, KeepsBudget
<1>2. /\ Cardinality(Charged(i)') <= Cardinality(Charged(i))
      /\ Cardinality(Charged(i)') \in Nat /\ Cardinality(Charged(i)) \in Nat
  BY <1>1, ChargedFinite, FS_Subset, FS_CardinalityType
<1>3. PaidFor(i) \in Int /\ attempts[i] \in Nat
  BY ConstantsAssumption DEF PaidFor, TypeOK, RowsOK, HistoryOK
<1>4. attempts'[i] = attempts[i] /\ intents'[i] = intents[i]
      /\ (status[i] = "absent" => status'[i] = "absent")
  BY DEF KeepsBudget
<1>5. PaidFor(i)' = PaidFor(i)
  BY <1>4 DEF PaidFor
<1> QED  BY <1>2, <1>3, <1>4, <1>5 DEF BudgetKept

LEMMA StopStays == ASSUME TypeOK, StopInv, RowsStay, stopping' \in Items \cup {NoItem} PROVE StopInv'
<1> SUFFICES ASSUME stopping' # NoItem PROVE status'[stopping'] # "absent"
  BY DEF StopInv
<1>1. status[stopping'] # "absent"
  BY DEF RowsStay, StopInv
<1> QED  BY <1>1 DEF RowsStay

(* A claim charges one attempt and counts it. *)
LEMMA ClaimCounts ==
    ASSUME TypeOK, TypeOK', Inv, LoopInv, NEW j \in Items, Claim(j)
    PROVE  LoopInv'
<1> USE DEF Claim, NewJob, TypeOK, RowsOK, JobsOK, HistoryOK, DeviceOK
<1> DEFINE n == claims + 1
<1>0. n \in Claims /\ pc[n] = "none"
  BY ConstantsAssumption DEF Claims, Inv, ClaimInv
<1>1. StopInv'
  <2>1. RowsStay
    BY DEF RowsStay
  <2> QED  BY <2>1, StopStays DEF LoopInv
<1>2. ASSUME NEW i \in Items, i # j PROVE BudgetKept(i)'
  <2>1. KeepsBudget(i)
    <3>1. attempts'[i] = attempts[i] /\ intents' = intents /\ status'[i] = status[i]
      BY <1>2
    <3>2. item' = [item EXCEPT ![n] = j] /\ direct' = [direct EXCEPT ![n] = FALSE]
          /\ pc' = [pc EXCEPT ![n] = "spawned"]
      OBVIOUS
    <3> QED  BY ONLY <1>0, <1>2, <3>1, <3>2, item \in [Claims -> Items \cup {NoItem}],
                direct \in [Claims -> BOOLEAN], pc \in [Claims -> Unfinished \cup {"none", "done", "withdrawn", "lost"}]
                DEF KeepsBudget
  <2> QED  BY <2>1, BudgetStays DEF LoopInv
<1>3. BudgetKept(j)'
  <2>1. Charged(j)' \subseteq Charged(j) \cup {n}
    BY DEF Charged
  <2>2. /\ Cardinality(Charged(j)') <= Cardinality(Charged(j)) + 1
        /\ Cardinality(Charged(j)) \in Nat /\ Cardinality(Charged(j)') \in Nat
    <3>1. IsFiniteSet(Charged(j)) /\ Cardinality(Charged(j)) \in Nat
      BY ChargedFinite
    <3>2. /\ IsFiniteSet(Charged(j) \cup {n})
          /\ Cardinality(Charged(j) \cup {n}) =
                IF n \in Charged(j) THEN Cardinality(Charged(j)) ELSE Cardinality(Charged(j)) + 1
      BY ONLY <3>1, FS_AddElement
    <3>3. Cardinality(Charged(j) \cup {n}) <= Cardinality(Charged(j)) + 1
      BY ONLY <3>1, <3>2
    <3>4. /\ Cardinality(Charged(j)') <= Cardinality(Charged(j) \cup {n})
          /\ Cardinality(Charged(j)') \in Nat /\ Cardinality(Charged(j) \cup {n}) \in Nat
      BY ONLY <2>1, <3>2, FS_Subset, FS_CardinalityType
    <3> QED  BY ONLY <3>1, <3>3, <3>4
  <2>3. BudgetKept(j) /\ status[j] = "pending" /\ attempts[j] < DispatchMaxAttempts
    BY DEF LoopInv
  <2>4. attempts'[j] = attempts[j] + 1 /\ intents' = intents /\ attempts[j] \in Nat
        /\ intents[j] # 0 /\ PaidFor(j)' = PaidFor(j) /\ PaidFor(j) \in Int
        /\ DispatchMaxAttempts \in Nat
    BY <2>3, ConstantsAssumption DEF BudgetKept, PaidFor
  <2> QED  BY ONLY <2>2, <2>3, <2>4 DEF BudgetKept
<1> QED  BY <1>1, <1>2, <1>3 DEF LoopInv

(* A direct print is not charged: nothing claims it again by itself. *)
LEMMA DirectCounts ==
    ASSUME TypeOK, TypeOK', Inv, LoopInv, NEW j \in Items, ClaimDirect(j)
    PROVE  LoopInv'
<1> USE DEF ClaimDirect, NewJob, TypeOK, RowsOK, JobsOK, HistoryOK, DeviceOK
<1> DEFINE n == claims + 1
<1>0. n \in Claims /\ pc[n] = "none"
  BY ConstantsAssumption DEF Claims, Inv, ClaimInv
<1>1. StopInv'
  <2>1. RowsStay
    BY DEF RowsStay
  <2> QED  BY <2>1, StopStays DEF LoopInv
<1>2. ASSUME NEW i \in Items PROVE Charged(i)' \subseteq Charged(i)
  BY <1>2 DEF Charged
<1>3. ASSUME NEW i \in Items, i # j PROVE BudgetKept(i)'
  <2>1. KeepsBudget(i)
    <3>1. attempts' = attempts /\ intents'[i] = intents[i] /\ status'[i] = status[i]
      BY <1>3
    <3>2. item' = [item EXCEPT ![n] = j] /\ direct' = [direct EXCEPT ![n] = TRUE]
          /\ pc' = [pc EXCEPT ![n] = "queued"]
      OBVIOUS
    <3> QED  BY ONLY <1>0, <1>3, <3>1, <3>2, item \in [Claims -> Items \cup {NoItem}],
                direct \in [Claims -> BOOLEAN], pc \in [Claims -> Unfinished \cup {"none", "done", "withdrawn", "lost"}]
                DEF KeepsBudget
  <2> QED  BY <2>1, BudgetStays DEF LoopInv
<1>4. BudgetKept(j)'
  <2>1. Charged(j) = {}
    <3>1. /\ j \in Items /\ status[j] = "absent"
          /\ \A k \in Claims : item[k] \in Items => status[item[k]] # "absent"
      BY DEF Inv, ClaimInv
    <3> QED  BY ONLY <3>1 DEF Charged
  <2>2. Charged(j)' = {}
    BY <1>2, <2>1
  <2>3. Cardinality(Charged(j)') = 0
    BY <2>2, FS_EmptySet
  <2>4. attempts'[j] = attempts[j] /\ intents'[j] = 1 /\ attempts[j] \in Nat
        /\ attempts[j] <= DispatchMaxAttempts /\ DispatchMaxAttempts \in Nat
    BY ConstantsAssumption DEF LoopInv, BudgetKept
  <2>5. PaidFor(j)' = 0
    BY ONLY <2>4 DEF PaidFor
  <2> QED  BY ONLY <2>3, <2>4, <2>5 DEF BudgetKept
<1> QED  BY <1>1, <1>3, <1>4 DEF LoopInv

(* A deferral gives one attempt back, and its own attempt is over. *)
LEMMA DeferCounts ==
    ASSUME TypeOK, TypeOK', Inv, LoopInv, NEW k \in Claims, SettleDeferred(k)
    PROVE  LoopInv'
<1>0. PICK j \in Items : j = item[k] /\ pc[k] = "settle" /\ RefusalEffect(k)
  BY SettleDeferredEffect DEF RefusalEffect
<1>1. /\ item' = item /\ direct' = direct /\ intents' = intents /\ stopping' = stopping
      /\ pc' = [pc EXCEPT ![k] = "done"]
      /\ \A i \in Items : i # j => attempts'[i] = attempts[i]
      /\ attempts'[j] = attempts[j] \/ (attempts'[j] = attempts[j] - 1 /\ ~direct[k])
      /\ \A i \in Items : status'[i] = status[i] \/ (status[i] = "printing" /\ status'[i] # "absent")
  BY <1>0, SMTT(30) DEF SettleDeferred, DeferClaim, Finished, DeferTerminal, TypeOK, RowsOK, JobsOK, history,
     rows, OwnsClaim
<1>2. StopInv'
  <2>1. RowsStay
    BY <1>1 DEF RowsStay
  <2> QED  BY <2>1, <1>1, StopStays DEF LoopInv, TypeOK, DeviceOK
<1>3. ASSUME NEW i \in Items, i # j \/ direct[k] PROVE BudgetKept(i)'
  <2>1. KeepsBudget(i)
    BY <1>1, <1>3 DEF KeepsBudget, TypeOK, JobsOK, Unfinished, Active, BeforeTry, InTry, AfterSend
  <2> QED  BY <2>1, BudgetStays DEF LoopInv
<1>4. ASSUME ~direct[k] PROVE BudgetKept(j)'
  <2>1. k \in Charged(j) /\ Charged(j)' \subseteq Charged(j) \ {k}
    BY <1>0, <1>1, <1>4 DEF Charged, TypeOK, JobsOK, Unfinished, Active, BeforeTry, InTry, AfterSend
  <2>2. /\ Cardinality(Charged(j)') <= Cardinality(Charged(j)) - 1
        /\ Cardinality(Charged(j)) \in Nat /\ Cardinality(Charged(j)') \in Nat
    <3>1. IsFiniteSet(Charged(j)) /\ Cardinality(Charged(j)) \in Nat
      BY <1>0, ChargedFinite
    <3>2. /\ IsFiniteSet(Charged(j) \ {k})
          /\ Cardinality(Charged(j) \ {k}) = Cardinality(Charged(j)) - 1
      BY <2>1, <3>1, FS_RemoveElement
    <3> QED  BY <2>1, <3>1, <3>2, FS_Subset, FS_CardinalityType
  <2>3. BudgetKept(j)
    BY <1>0 DEF LoopInv
  <2>4. attempts'[j] \in {attempts[j], attempts[j] - 1} /\ intents' = intents /\ attempts[j] \in Nat
        /\ DispatchMaxAttempts \in Nat
        /\ (status[j] = "absent" => status'[j] = "absent")
    BY <1>0, <1>1, ConstantsAssumption DEF TypeOK, RowsOK, HistoryOK
  <2>5. PaidFor(j)' = PaidFor(j) /\ PaidFor(j) \in Int
    BY <1>0, <1>1, ConstantsAssumption DEF PaidFor, TypeOK, HistoryOK
  <2> QED  BY ONLY <2>2, <2>3, <2>4, <2>5 DEF BudgetKept
<1>5. ASSUME NEW i \in Items PROVE BudgetKept(i)'
  <2>1. CASE i # j \/ direct[k]
    BY <2>1, <1>3
  <2>2. CASE i = j /\ ~direct[k]
    BY <2>2, <1>4
  <2> QED  BY <2>1, <2>2
<1> QED  BY <1>2, <1>5 DEF LoopInv

(* A Retry forgets what is spent, for the price of another budget. *)
LEMMA RetryCounts ==
    ASSUME TypeOK, TypeOK', Inv, LoopInv, NEW j \in Items, Retry(j)
    PROVE  LoopInv'
<1> USE DEF Retry, TypeOK, RowsOK, JobsOK, HistoryOK, DeviceOK, jobs
<1>1. StopInv'
  <2>1. RowsStay
    BY DEF RowsStay
  <2> QED  BY <2>1, StopStays DEF LoopInv
<1>2. ASSUME NEW i \in Items, i # j PROVE BudgetKept(i)'
  <2>1. KeepsBudget(i)
    BY <1>2 DEF KeepsBudget
  <2> QED  BY <2>1, BudgetStays DEF LoopInv
<1>3. BudgetKept(j)'
  <2>1. Charged(j)' = Charged(j) /\ Cardinality(Charged(j)) \in Nat
    BY ChargedFinite DEF Charged
  <2>2. BudgetKept(j) /\ status[j] # "absent"
    BY DEF LoopInv
  <2>3. attempts'[j] = 0 /\ intents'[j] = intents[j] + 1 /\ intents[j] \in Nat \ {0}
        /\ attempts[j] \in Nat /\ DispatchMaxAttempts \in Nat
    BY <2>2, ConstantsAssumption DEF BudgetKept
  <2>4. PaidFor(j)' = PaidFor(j) + DispatchMaxAttempts /\ PaidFor(j) \in Nat
    BY ONLY <2>3, Budgets DEF PaidFor
  <2> QED  BY ONLY <2>1, <2>2, <2>3, <2>4 DEF BudgetKept
<1> QED  BY <1>1, <1>2, <1>3 DEF LoopInv

(* Every other step leaves the account as it is. *)
LEMMA LoopStep ==
    ASSUME TypeOK, TypeOK', Inv, LoopInv, Next
    PROVE  LoopInv'
<1> USE ConstantsAssumption DEF KeepsBudgets, RowsStay, KeepsBudget, Inv, ClaimInv, TypeOK, RowsOK, LaneOK,
        JobsOK, ArchivesOK, ServerOK, DeviceOK, HistoryOK, Terminal, BeforeTry, InTry, AfterSend, Active,
        Unfinished, rows, lane, jobs, jobData, archs, server, device, history
<1>0. NoLink \notin Claims /\ Source \notin Claims /\ 0 \notin Claims
  BY DEF NoLink, Source, Claims
<1>1. ASSUME NEW i \in Items, Claim(i) PROVE LoopInv'
  BY <1>1, ClaimCounts
<1>2. ASSUME NEW i \in Items, ClaimSpent(i) PROVE KeepsBudgets
  BY <1>0, <1>2, SMTT(30) DEF ClaimSpent
<1>3. ASSUME NEW i \in Items, ClaimDirect(i) PROVE LoopInv'
  BY <1>3, DirectCounts
<1>4. ASSUME NEW i \in Items, SettleInterrupted(i) PROVE KeepsBudgets
  BY <1>0, <1>4, SMTT(30) DEF SettleInterrupted, Interrupted
<1>5. ASSUME NEW i \in Items, Stop(i) PROVE KeepsBudgets
  BY <1>0, <1>5, SMTT(30) DEF Stop, StopRow, CloseArchive
<1>6. ASSUME NEW i \in Items, BeginStop(i) PROVE KeepsBudgets
  BY <1>0, <1>6, SMTT(30) DEF BeginStop
<1>7. ASSUME NEW i \in Items, CancelPending(i) PROVE KeepsBudgets
  BY <1>0, <1>7, SMTT(30) DEF CancelPending
<1>8. ASSUME NEW i \in Items, Retry(i) PROVE LoopInv'
  BY <1>8, RetryCounts
<1>9. ASSUME NEW k \in Claims, TakeJob(k) PROVE KeepsBudgets
  BY <1>0, <1>9, SMTT(30) DEF TakeJob, MoveTo
<1>10. ASSUME NEW k \in Claims, CancelQueued(k) PROVE KeepsBudgets
  BY <1>0, <1>10, SMTT(30) DEF CancelQueued, MoveTo
<1>11. ASSUME NEW k \in Claims, CancelJob(k) PROVE KeepsBudgets
  BY <1>0, <1>11, SMTT(30) DEF CancelJob
<1>12. ASSUME NEW k \in Claims, Admit(k) PROVE KeepsBudgets
  BY <1>0, <1>12, SMTT(30) DEF Admit, MoveTo, RunnerEnds
<1>13. ASSUME NEW k \in Claims, Prepare(k) PROVE KeepsBudgets
  BY <1>0, <1>13, SMTT(30) DEF Prepare, MoveTo, RunnerEnds
<1>14. ASSUME NEW k \in Claims, CreateArchive(k) PROVE KeepsBudgets
  BY <1>0, <1>14, SMTT(30) DEF CreateArchive, MoveTo
<1>15. ASSUME NEW k \in Claims, CancelBeforeTry(k) PROVE KeepsBudgets
  BY <1>0, <1>15, SMTT(30) DEF CancelBeforeTry, RunnerEnds
<1>16. ASSUME NEW k \in Claims, Upload(k) PROVE KeepsBudgets
  BY <1>0, <1>16, SMTT(30) DEF Upload, MoveTo
<1>17. ASSUME NEW k \in Claims, CancelInTry(k) PROVE KeepsBudgets
  BY <1>0, <1>17, SMTT(30) DEF CancelInTry, RunnerEnds, CloseArchive
<1>18. ASSUME NEW k \in Claims, Bind(k) PROVE KeepsBudgets
  BY <1>0, <1>18, SMTT(30) DEF Bind, MoveTo, RunnerEnds
<1>19. ASSUME NEW k \in Claims, RunSwapMacro(k) PROVE KeepsBudgets
  BY <1>0, <1>19, SMTT(30) DEF RunSwapMacro, MoveTo, RunnerEnds
<1>20. ASSUME NEW k \in Claims, Verify(k) PROVE KeepsBudgets
  BY <1>0, <1>20, SMTT(30) DEF Verify, MoveTo, RunnerEnds
<1>21. ASSUME NEW k \in Claims, Deferred(k) PROVE KeepsBudgets
  BY <1>0, <1>21, SMTT(30) DEF Deferred, RunnerEnds
<1>22. ASSUME NEW k \in Claims, RunnerFails(k) PROVE KeepsBudgets
  BY <1>0, <1>22, SMTT(30) DEF RunnerFails, RunnerEnds, CloseArchive
<1>23. ASSUME NEW k \in Claims, CommitSending(k) PROVE KeepsBudgets
  BY <1>0, <1>23, SMTT(30) DEF CommitSending, MoveTo, RunnerEnds, CloseArchive
<1>24. ASSUME NEW k \in Claims, Publish(k) PROVE KeepsBudgets
  BY <1>0, <1>24, SMTT(30) DEF Publish, MoveTo, RunnerEnds
<1>25. ASSUME NEW k \in Claims, RecordSent(k) PROVE KeepsBudgets
  BY <1>0, <1>25, SMTT(30) DEF RecordSent, MoveTo
<1>26. ASSUME NEW k \in Claims, Answer(k) PROVE KeepsBudgets
  BY <1>0, <1>26, SMTT(30) DEF Answer, RunnerEnds, CloseArchive
<1>27. ASSUME NEW k \in Claims, SettleDeferred(k) PROVE LoopInv'
  BY <1>27, DeferCounts
<1>28. ASSUME NEW k \in Claims, SettleFailed(k) PROVE KeepsBudgets
  BY <1>0, <1>28, SMTT(30) DEF SettleFailed, ReleaseDirectClaim, FailAttempt, Finished,
     OwnsClaim
<1>29. ASSUME NEW k \in Claims, SettleCancelled(k) PROVE KeepsBudgets
  BY <1>0, <1>29, SMTT(30) DEF SettleCancelled, ReleaseDirectClaim, CancelItem, Finished,
     OwnsClaim
<1>30. ASSUME NEW k \in Claims, SettleSent(k) PROVE KeepsBudgets
  BY <1>0, <1>30, SMTT(30) DEF SettleSent, Finished
<1>31. ASSUME NEW k \in Claims, WatchdogFails(k) PROVE KeepsBudgets
  BY <1>0, <1>31, SMTT(30) DEF WatchdogFails, FailAttempt, CloseArchive
<1>32. ASSUME NEW k \in Claims, PrinterStarts(k) PROVE KeepsBudgets
  BY <1>0, <1>32, SMTT(30) DEF PrinterStarts, CloseStaleRuns, MarkQueuePrinting
<1>33. ASSUME NEW k \in Claims, PrinterDrops(k) PROVE KeepsBudgets
  BY <1>0, <1>33, SMTT(30) DEF PrinterDrops
<1>34. ASSUME NEW r \in {"completed", "failed", "aborted"}, PrinterEnds(r) PROVE KeepsBudgets
  BY <1>0, <1>34, SMTT(30) DEF PrinterEnds, Normalised
<1>35. ASSUME Restart PROVE KeepsBudgets
  BY <1>0, <1>35, SMTT(30) DEF Restart
<1>36. ASSUME Adopt PROVE KeepsBudgets
  BY <1>0, <1>36, SMTT(30) DEF Adopt, CloseStaleRuns, MarkQueuePrinting
<1>37. ASSUME RepairRows PROVE KeepsBudgets
  <2>1. \A i \in Items : status'[i] = status[i] \/ (status[i] = "printing" /\ status'[i] # "absent")
    <3>1. \A i \in Items : status[i] = "printing" =>
             link[i] \in Claims /\ status'[i] = archive[link[i]] /\ archive[link[i]] # "absent"
      BY <1>37 DEF RepairRows
    <3>2. \A i \in Items : status[i] # "printing" => status'[i] = status[i]
      BY <1>37 DEF RepairRows
    <3> QED  BY <3>1, <3>2
  <2>2. UNCHANGED <<attempts, intents, item, direct, pc, stopping>>
    BY <1>37 DEF RepairRows
  <2> QED  BY ONLY <2>1, <2>2 DEF KeepsBudgets, RowsStay, KeepsBudget
<1>38. ASSUME ClearContext PROVE KeepsBudgets
  BY <1>0, <1>38, SMTT(30) DEF ClearContext
<1>39. ASSUME CloseFarm PROVE KeepsBudgets
  BY <1>0, <1>39, SMTT(30) DEF CloseFarm
<1>40. ASSUME OpenFarm PROVE KeepsBudgets
  BY <1>0, <1>40, SMTT(30) DEF OpenFarm
<1>41. ASSUME ResumeLane PROVE KeepsBudgets
  BY <1>0, <1>41, SMTT(30) DEF ResumeLane
<1>42. ASSUME FinishStop PROVE KeepsBudgets
  BY <1>0, <1>42, SMTT(30) DEF FinishStop, StopRow, CloseArchive, LoopInv, StopInv
<1>43. ASSUME HoldExpires PROVE KeepsBudgets
  BY <1>0, <1>43, SMTT(30) DEF HoldExpires
<1> HIDE DEF TypeOK, Inv, ClaimInv, KeepsBudgets, RowsStay, KeepsBudget
<1>90. KeepsBudgets => LoopInv'
  <2>1. stopping' \in Items \cup {NoItem}
    BY DEF TypeOK
  <2> QED  BY <2>1, BudgetStays, StopStays DEF KeepsBudgets, LoopInv
<1> QED
  BY <1>1, <1>2, <1>3, <1>4, <1>5, <1>6, <1>7, <1>8, <1>9, <1>10, <1>11, <1>12, <1>13, <1>14,
     <1>15, <1>16, <1>17, <1>18, <1>19, <1>20, <1>21, <1>22, <1>23, <1>24, <1>25, <1>26,
     <1>27, <1>28, <1>29, <1>30, <1>31, <1>32, <1>33, <1>34, <1>35, <1>36, <1>37, <1>38,
     <1>39, <1>40, <1>41, <1>42, <1>43, <1>90 DEF Next, JobStep, RowStep

LEMMA LoopInit == Init => LoopInv
<1> SUFFICES ASSUME Init PROVE LoopInv
  OBVIOUS
<1>1. StopInv
  BY DEF StopInv, Init
<1>2. ASSUME NEW i \in Items PROVE BudgetKept(i)
  <2>1. Charged(i) = {}
    BY DEF Charged, Init, Unfinished, Active, BeforeTry, InTry, AfterSend
  <2>2. Cardinality(Charged(i)) = 0 /\ attempts[i] = 0 /\ intents[i] \in {0, 1}
        /\ (intents[i] = 0 => status[i] = "absent")
    BY <2>1, FS_EmptySet DEF Init
  <2>3. DispatchMaxAttempts \in Nat
    BY ConstantsAssumption
  <2>4. intents[i] = 1 => PaidFor(i) = 0
    BY ONLY <2>3 DEF PaidFor
  <2> QED  BY ONLY <2>2, <2>3, <2>4 DEF BudgetKept
<1> QED  BY <1>1, <1>2 DEF LoopInv

LEMMA LoopStutter == LoopInv /\ UNCHANGED vars => LoopInv'
BY DEF LoopInv, StopInv, BudgetKept, PaidFor, Charged, vars, rows, jobs, history

(* The invariant behind the bound: every attempt a crash has cut off or may *)
(* cut off is paid for by a request.                                       *)
THEOREM ChargesArePaid == Spec => []LoopInv
<1>1. Init => LoopInv
  BY LoopInit
<1>2. TypeOK /\ TypeOK' /\ Inv /\ LoopInv /\ [Next]_vars => LoopInv'
  BY LoopStep, LoopStutter
<1> QED  BY <1>1, <1>2, TypeCorrect, Invariant, PTL DEF Spec

(* A row that takes the server down with it is not tried for ever: a crash  *)
(* has cut off at most one budget of its attempts per request.             *)
THEOREM CrashLoopEnds == Spec => []CrashLoopIsBounded
<1>1. TypeOK /\ Inv /\ LoopInv => CrashLoopIsBounded
  <2> SUFFICES ASSUME TypeOK, Inv, LoopInv, NEW i \in Items
               PROVE  Cardinality(CutOff(i)) <= DispatchMaxAttempts * intents[i]
    BY DEF CrashLoopIsBounded, CutOff
  <2>1. CutOff(i) \subseteq Charged(i)
    BY DEF Charged, CutOff
  <2>2. /\ Cardinality(CutOff(i)) <= Cardinality(Charged(i))
        /\ Cardinality(CutOff(i)) \in Nat /\ Cardinality(Charged(i)) \in Nat
    BY <2>1, ChargedFinite, FS_Subset, FS_CardinalityType
  <2>3. BudgetKept(i) /\ intents[i] \in Nat /\ attempts[i] \in Nat /\ DispatchMaxAttempts \in Nat
    BY ConstantsAssumption DEF LoopInv, TypeOK, RowsOK, HistoryOK
  <2>4. CASE intents[i] = 0
    <3>1. status[i] = "absent" /\ \A k \in Claims : item[k] \in Items => status[item[k]] # "absent"
      BY <2>3, <2>4 DEF BudgetKept, Inv, ClaimInv
    <3>2. CutOff(i) = {}
      BY <3>1 DEF CutOff
    <3>3. Cardinality(CutOff(i)) = 0
      BY <3>2, FS_EmptySet
    <3>4. DispatchMaxAttempts * intents[i] \in Nat
      BY ONLY <2>3
    <3> QED  BY ONLY <3>3, <3>4
  <2>5. CASE intents[i] # 0
    <3>1. DispatchMaxAttempts * intents[i] = PaidFor(i) + DispatchMaxAttempts /\ PaidFor(i) \in Nat
      <4>1. intents[i] - 1 \in Nat /\ intents[i] = (intents[i] - 1) + 1
        BY ONLY <2>3, <2>5
      <4> QED  BY ONLY <4>1, <2>3, Budgets DEF PaidFor
    <3>2. DispatchMaxAttempts * intents[i] \in Nat
      BY ONLY <2>3
    <3> QED  BY ONLY <2>2, <2>3, <2>5, <3>1, <3>2 DEF BudgetKept
  <2> QED  BY <2>4, <2>5
<1> QED  BY <1>1, TypeCorrect, Invariant, ChargesArePaid, PTL
-----------------------------------------------------------------------------
(***************************************************************************)
(* The proof that the dispatch implements PrintRequest.  What a step does   *)
(* to the requests is one of a few effects (Effect), stated about the rows, *)
(* the attempts that may still send and the published ones; each effect is  *)
(* one step of PrintRequest (EffectMaps), and every action has one of them  *)
(* (EffectStep).                                                           *)
(***************************************************************************)

MayFire(k) == pc[k] \in {"verified", "sending"}

(* No attempt may send that could not before, none has stopped or sent.     *)
SameTickets ==
    /\ published' = published
    /\ \A k \in Claims : MayFire(k)' <=> MayFire(k)
    /\ \A k \in Claims : Ticket(k) => item'[k] = item[k]

SameRow(i) == status'[i] = status[i] /\ (status[i] = "printing" => startedAt'[i] = startedAt[i])

SameAsked(i) == i \in Queued => intents'[i] = intents[i]

(* At most row i moves. *)
RowMoves(i) == SameTickets /\ \A j \in Items \ {i} : SameRow(j) /\ SameAsked(j)

Quiet == SameTickets /\ \A i \in Items : SameRow(i) /\ SameAsked(i)

Takes(i) ==
    /\ RowMoves(i) /\ SameAsked(i)
    /\ status[i] = "pending" \/ (status[i] = "absent" /\ i \in Directs)
    /\ status'[i] = "printing"
    /\ \A j \in Items : status[j] # "printing"
    /\ \E k \in Claims : startedAt'[i] = k /\ ~Ticket(k)

Closes(i) == RowMoves(i) /\ SameAsked(i) /\ status'[i] \in Terminal

GivesBack(i) ==
    /\ RowMoves(i) /\ SameAsked(i)
    /\ status[i] = "printing" /\ status'[i] = "pending"
    /\ i \in Queued => ~Ticket(startedAt[i])

Asks(i) ==
    /\ RowMoves(i)
    /\ status[i] \in Terminal /\ status'[i] = "pending"
    /\ intents'[i] = intents[i] + 1

(* At most what attempt k may do changes. *)
TicketMoves(k) ==
    /\ UNCHANGED <<status, startedAt, item, intents>>
    /\ \A c \in Claims \ {k} : MayFire(c)' <=> MayFire(c)

Looks(k) ==
    /\ TicketMoves(k) /\ published' = published
    /\ ~Ticket(k) /\ MayFire(k)'
    /\ item[k] \in Queued => status[item[k]] = "printing" /\ startedAt[item[k]] = k

Sends(k) ==
    /\ TicketMoves(k) /\ published' = published \cup {k}
    /\ MayFire(k) /\ ~MayFire(k)'

Ends(k) ==
    /\ TicketMoves(k) /\ published' = published
    /\ MayFire(k) /\ ~MayFire(k)'

Dies ==
    /\ UNCHANGED <<item, intents, published>>
    /\ \A k \in Claims : ~MayFire(k)'
    /\ \A i \in Items :
          \/ SameRow(i)
          \/ status[i] = "printing" /\ status'[i] = "pending" /\ (i \in Queued => startedAt[i] \notin published)

Effect ==
    \/ Quiet \/ Dies
    \/ \E i \in Items : Takes(i) \/ Closes(i) \/ GivesBack(i) \/ Asks(i)
    \/ \E k \in Claims : Looks(k) \/ Sends(k) \/ Ends(k)

-----------------------------------------------------------------------------
(* What has been sent may not be sent again, and a row that prints names    *)
(* an attempt of its own.                                                  *)
RequestFacts ==
    /\ published \subseteq Claims
    /\ 0 \notin Claims
    /\ \A k \in Claims : MayFire(k) => k \notin published /\ item[k] \in Items
    /\ \A i \in Items : status[i] = "printing" => startedAt[i] \in Claims /\ item[startedAt[i]] = i

LEMMA FactsHold == ASSUME TypeOK, Inv PROVE RequestFacts
<1> USE DEF TypeOK, RowsOK, JobsOK, HistoryOK, Inv, SentInv, ClaimInv
<1>1. published \subseteq Claims /\ 0 \notin Claims
  BY DEF Claims
<1>2. \A k \in Claims : MayFire(k) => k \notin published /\ item[k] \in Items
  BY DEF MayFire, Unfinished, Active, InTry, AfterSend
<1>3. \A i \in Items : status[i] = "printing" => startedAt[i] \in Claims /\ item[startedAt[i]] = i
  OBVIOUS
<1> QED  BY <1>1, <1>2, <1>3 DEF RequestFacts

(* A row that stays as it was, while the attempts do, looks the same. *)
LEMMA TicketsLook ==
    ASSUME RequestFacts, RequestFacts', SameTickets
    PROVE  /\ LoadedOf' = LoadedOf /\ SentOf' = SentOf
           /\ \A k \in Claims : Ticket(k)' <=> Ticket(k)
<1> USE DEF SameTickets, Ticket, MayFire, RequestFacts
<1>1. \A k \in Claims : Ticket(k)' <=> Ticket(k)
  OBVIOUS
<1>2. ASSUME NEW i \in Queued PROVE Loaded(i)' = Loaded(i) /\ SentFor(i)' = SentFor(i)
  <2>1. \A k \in Claims : (item'[k] = i /\ MayFire(k)') <=> (item[k] = i /\ MayFire(k))
    BY <1>1
  <2>2. \A k \in published : item'[k] = item[k]
    OBVIOUS
  <2> QED  BY <2>1, <2>2 DEF Loaded, SentFor
<1> QED  BY <1>1, <1>2 DEF LoadedOf, SentOf

LEMMA RowLooks ==
    ASSUME RequestFacts, RequestFacts', NEW i \in Items, SameRow(i),
           \A k \in Claims : Ticket(k)' <=> Ticket(k)
    PROVE  RowState(i)' = RowState(i) /\ GivenTo(i)' = GivenTo(i)
<1>1. RowState(i)' = RowState(i)
  BY DEF SameRow, RowState
<1>2. CASE status[i] = "printing"
  <2>1. startedAt'[i] = startedAt[i] /\ startedAt[i] \in Claims /\ status'[i] = "printing"
    BY <1>2 DEF SameRow, RequestFacts
  <2>2. Ticket(startedAt[i])' <=> Ticket(startedAt[i])
    BY <2>1 DEF Ticket
  <2> QED  BY <1>1, <1>2, <2>1, <2>2 DEF GivenTo, Ticket
<1>3. CASE status[i] # "printing"
  BY <1>1, <1>3 DEF GivenTo, SameRow
<1> QED  BY <1>2, <1>3

(* The row's own request, when nothing but the row moves. *)
LEMMA RowIsAlone ==
    ASSUME RequestFacts, RequestFacts', NEW i \in Items, RowMoves(i)
    PROVE  /\ LoadedOf' = LoadedOf /\ SentOf' = SentOf
           /\ \A k \in Claims : Ticket(k)' <=> Ticket(k)
           /\ \A j \in Items \ {i} : RowState(j)' = RowState(j) /\ GivenTo(j)' = GivenTo(j)
           /\ \A j \in Queued \ {i} : intents'[j] = intents[j]
           /\ \A j \in Directs \ {i} : status'[j] = status[j]
<1> USE ConstantsAssumption DEF RowMoves
<1>1. LoadedOf' = LoadedOf /\ SentOf' = SentOf /\ \A k \in Claims : Ticket(k)' <=> Ticket(k)
  BY TicketsLook
<1>2. ASSUME NEW j \in Items \ {i} PROVE RowState(j)' = RowState(j) /\ GivenTo(j)' = GivenTo(j)
  BY <1>1, RowLooks
<1>3. \A j \in Queued \ {i} : intents'[j] = intents[j]
  BY DEF SameAsked, Queued
<1>4. \A j \in Directs \ {i} : status'[j] = status[j]
  BY DEF SameRow
<1> QED  BY <1>1, <1>2, <1>3, <1>4

(* The views of the rows, from the one that moved. *)
LEMMA ViewsMove ==
    ASSUME NEW i \in Queued, NEW s, NEW g, NEW n,
           \A j \in Queued \ {i} : /\ RowState(j)' = RowState(j) /\ GivenTo(j)' = GivenTo(j)
                                   /\ intents'[j] = intents[j],
           RowState(i)' = s, GivenTo(i)' = g, intents'[i] = n
    PROVE  /\ RowStates' = [RowStates EXCEPT ![i] = s]
           /\ GivenTos' = [GivenTos EXCEPT ![i] = g]
           /\ AskedFor' = [AskedFor EXCEPT ![i] = n]
BY DEF RowStates, GivenTos, AskedFor

LEMMA ViewsStay ==
    ASSUME \A j \in Queued : /\ RowState(j)' = RowState(j) /\ GivenTo(j)' = GivenTo(j)
                             /\ intents'[j] = intents[j]
    PROVE  RowStates' = RowStates /\ GivenTos' = GivenTos /\ AskedFor' = AskedFor
BY DEF RowStates, GivenTos, AskedFor

(* A row of the views that is put back as it was. *)
LEMMA ViewsSame ==
    ASSUME NEW i \in Queued
    PROVE  /\ [RowStates EXCEPT ![i] = RowState(i)] = RowStates
           /\ [GivenTos EXCEPT ![i] = GivenTo(i)] = GivenTos
           /\ [AskedFor EXCEPT ![i] = intents[i]] = AskedFor
           /\ RowStates[i] = RowState(i) /\ GivenTos[i] = GivenTo(i) /\ AskedFor[i] = intents[i]
           /\ LoadedOf[i] = Loaded(i) /\ SentOf[i] = SentFor(i)
BY DEF RowStates, GivenTos, AskedFor, LoadedOf, SentOf

LEMMA QuietMaps ==
    ASSUME RequestFacts, RequestFacts', Quiet
    PROVE  UNCHANGED Request!requestVars
<1> USE ConstantsAssumption DEF Quiet
<1>1. LoadedOf' = LoadedOf /\ SentOf' = SentOf /\ \A k \in Claims : Ticket(k)' <=> Ticket(k)
  BY TicketsLook
<1>2. \A j \in Items : RowState(j)' = RowState(j) /\ GivenTo(j)' = GivenTo(j)
  BY <1>1, RowLooks
<1>3. RowStates' = RowStates /\ GivenTos' = GivenTos /\ AskedFor' = AskedFor
  BY <1>2, ViewsStay DEF SameAsked, Queued
<1>4. DirectHeld' = DirectHeld
  <2>1. \A j \in Directs : status'[j] = status[j]
    BY DEF SameRow
  <2> QED  BY <2>1 DEF DirectHeld
<1> QED  BY <1>1, <1>3, <1>4 DEF Request!requestVars

(* A row is claimed on a free printer only. *)
LEMMA TakesMaps ==
    ASSUME RequestFacts, RequestFacts', NEW i \in Items, Takes(i)
    PROVE  [Request!RequestNext]_(Request!requestVars)
<1> USE ConstantsAssumption DEF Takes
<1>1. /\ LoadedOf' = LoadedOf /\ SentOf' = SentOf
      /\ \A k \in Claims : Ticket(k)' <=> Ticket(k)
      /\ \A j \in Items \ {i} : RowState(j)' = RowState(j) /\ GivenTo(j)' = GivenTo(j)
      /\ \A j \in Queued \ {i} : intents'[j] = intents[j]
      /\ \A j \in Directs \ {i} : status'[j] = status[j]
  BY RowIsAlone
<1>2. Request!PrinterIsFree
  <2>1. ~DirectHeld
    BY DEF DirectHeld
  <2>2. \A j \in Queued : RowStates[j] # "held"
    BY DEF RowStates, RowState, Queued
  <2> QED  BY <2>1, <2>2 DEF Request!PrinterIsFree
<1>3. CASE i \in Queued
  <2>1. RowState(i) = "waiting" /\ GivenTo(i) = 0
    BY <1>3 DEF RowState, GivenTo, Queued
  <2>2. RowState(i)' = "held" /\ GivenTo(i)' = 0 /\ intents'[i] = intents[i]
    <3>1. PICK k \in Claims : startedAt'[i] = k /\ ~Ticket(k)
      OBVIOUS
    <3>2. ~Ticket(k)'
      BY <1>1, <3>1
    <3> QED  BY <1>3, <3>1, <3>2 DEF RowState, GivenTo, Queued, SameAsked, Ticket
  <2>3. /\ RowStates' = [RowStates EXCEPT ![i] = "held"]
        /\ GivenTos' = GivenTos /\ AskedFor' = AskedFor
    BY <1>1, <1>3, <2>1, <2>2, ViewsMove, ViewsSame DEF Queued
  <2>4. DirectHeld' = DirectHeld
    BY <1>1, <1>3 DEF DirectHeld, Queued
  <2>5. Request!Take(i)
    BY <1>1, <1>2, <1>3, <2>1, <2>3, <2>4, ViewsSame DEF Request!Take
  <2> QED  BY <1>3, <2>5 DEF Request!RequestNext
<1>4. CASE i \in Directs
  <2>1. RowStates' = RowStates /\ GivenTos' = GivenTos /\ AskedFor' = AskedFor
    BY <1>1, <1>4, ViewsStay DEF Queued
  <2>2. DirectHeld' = TRUE
    BY <1>4 DEF DirectHeld
  <2>3. Request!Lend
    BY <1>1, <1>2, <2>1, <2>2 DEF Request!Lend
  <2> QED  BY <2>3 DEF Request!RequestNext
<1> QED  BY <1>3, <1>4 DEF Queued

(* The end of a claim, or of a row that waits. *)
LEMMA ClosesMaps ==
    ASSUME RequestFacts, RequestFacts', NEW i \in Items, Closes(i)
    PROVE  [Request!RequestNext]_(Request!requestVars)
<1> USE ConstantsAssumption DEF Closes, Terminal
<1>1. /\ LoadedOf' = LoadedOf /\ SentOf' = SentOf
      /\ \A j \in Items \ {i} : RowState(j)' = RowState(j) /\ GivenTo(j)' = GivenTo(j)
      /\ \A j \in Queued \ {i} : intents'[j] = intents[j]
      /\ \A j \in Directs \ {i} : status'[j] = status[j]
  BY RowIsAlone
<1>2. CASE i \in Queued
  <2>1. RowState(i)' = "closed" /\ GivenTo(i)' = 0 /\ intents'[i] = intents[i]
    BY <1>2 DEF RowState, GivenTo, Queued, SameAsked
  <2>2. /\ RowStates' = [RowStates EXCEPT ![i] = "closed"]
        /\ GivenTos' = [GivenTos EXCEPT ![i] = 0]
        /\ AskedFor' = AskedFor
    BY <1>1, <1>2, <2>1, ViewsMove, ViewsSame DEF Queued
  <2>3. DirectHeld' = DirectHeld
    BY <1>1, <1>2 DEF DirectHeld, Queued
  <2>4. CASE RowState(i) = "closed"
    <3>1. GivenTo(i) = 0
      BY <2>4 DEF RowState, GivenTo
    <3>2. RowStates' = RowStates /\ GivenTos' = GivenTos
      BY <1>2, <2>2, <2>4, <3>1, ViewsSame
    <3> QED  BY <1>1, <2>2, <2>3, <3>2 DEF Request!requestVars
  <2>5. CASE RowState(i) # "closed"
    <3>1. Request!Close(i)
      BY <1>1, <1>2, <2>2, <2>3, <2>5, ViewsSame DEF Request!Close
    <3> QED  BY <1>2, <3>1 DEF Request!RequestNext
  <2> QED  BY <2>4, <2>5
<1>3. CASE i \in Directs
  <2>1. RowStates' = RowStates /\ GivenTos' = GivenTos /\ AskedFor' = AskedFor
    BY <1>1, <1>3, ViewsStay DEF Queued
  <2>2. CASE DirectHeld' = DirectHeld
    BY <1>1, <2>1, <2>2 DEF Request!requestVars
  <2>3. CASE DirectHeld' # DirectHeld
    <3>1. DirectHeld /\ DirectHeld' = FALSE
      <4>1. DirectHeld' => DirectHeld
        BY <1>1 DEF DirectHeld
      <4> QED  BY <2>3, <4>1 DEF DirectHeld
    <3>2. Request!Return
      BY <1>1, <2>1, <3>1 DEF Request!Return
    <3> QED  BY <3>2 DEF Request!RequestNext
  <2> QED  BY <2>2, <2>3
<1> QED  BY <1>2, <1>3 DEF Queued

(* A claimed row that goes back to the queue has its request. *)
LEMMA GivesBackMaps ==
    ASSUME RequestFacts, RequestFacts', NEW i \in Items, GivesBack(i)
    PROVE  [Request!RequestNext]_(Request!requestVars)
<1> USE ConstantsAssumption DEF GivesBack
<1>1. /\ LoadedOf' = LoadedOf /\ SentOf' = SentOf
      /\ \A j \in Items \ {i} : RowState(j)' = RowState(j) /\ GivenTo(j)' = GivenTo(j)
      /\ \A j \in Queued \ {i} : intents'[j] = intents[j]
      /\ \A j \in Directs \ {i} : status'[j] = status[j]
  BY RowIsAlone
<1>2. CASE i \in Queued
  <2>1. RowState(i) = "held" /\ GivenTo(i) = 0
    BY <1>2 DEF RowState, GivenTo
  <2>2. RowState(i)' = "waiting" /\ GivenTo(i)' = 0 /\ intents'[i] = intents[i]
    BY <1>2 DEF RowState, GivenTo, SameAsked
  <2>3. /\ RowStates' = [RowStates EXCEPT ![i] = "waiting"]
        /\ GivenTos' = GivenTos /\ AskedFor' = AskedFor
    BY <1>1, <1>2, <2>1, <2>2, ViewsMove, ViewsSame DEF Queued
  <2>4. DirectHeld' = DirectHeld
    BY <1>1, <1>2 DEF DirectHeld, Queued
  <2>5. Request!Requeue(i)
    BY <1>1, <1>2, <2>1, <2>3, <2>4, ViewsSame DEF Request!Requeue
  <2> QED  BY <1>2, <2>5 DEF Request!RequestNext
<1>3. CASE i \in Directs
  <2>1. RowStates' = RowStates /\ GivenTos' = GivenTos /\ AskedFor' = AskedFor
    BY <1>1, <1>3, ViewsStay DEF Queued
  <2>2. DirectHeld
    BY <1>3 DEF DirectHeld
  <2>3. CASE DirectHeld' = DirectHeld
    BY <1>1, <2>1, <2>3 DEF Request!requestVars
  <2>4. CASE DirectHeld' # DirectHeld
    <3>1. DirectHeld' = FALSE
      BY <2>2, <2>4 DEF DirectHeld
    <3>2. Request!Return
      BY <1>1, <2>1, <2>2, <3>1 DEF Request!Return
    <3> QED  BY <3>2 DEF Request!RequestNext
  <2> QED  BY <2>3, <2>4
<1> QED  BY <1>2, <1>3 DEF Queued

(* A person asks again. *)
LEMMA AsksMaps ==
    ASSUME RequestFacts, RequestFacts', NEW i \in Items, Asks(i)
    PROVE  [Request!RequestNext]_(Request!requestVars)
<1> USE ConstantsAssumption DEF Asks, Terminal
<1>1. /\ LoadedOf' = LoadedOf /\ SentOf' = SentOf
      /\ \A j \in Items \ {i} : RowState(j)' = RowState(j) /\ GivenTo(j)' = GivenTo(j)
      /\ \A j \in Queued \ {i} : intents'[j] = intents[j]
      /\ \A j \in Directs \ {i} : status'[j] = status[j]
  BY RowIsAlone
<1>2. DirectHeld' = DirectHeld
  BY <1>1 DEF DirectHeld
<1>3. CASE i \in Queued
  <2>1. RowState(i) = "closed" /\ GivenTo(i) = 0
    BY DEF RowState, GivenTo
  <2>2. RowState(i)' = "waiting" /\ GivenTo(i)' = 0 /\ intents'[i] = intents[i] + 1
    BY DEF RowState, GivenTo
  <2>3. /\ RowStates' = [RowStates EXCEPT ![i] = "waiting"]
        /\ GivenTos' = GivenTos
        /\ AskedFor' = [AskedFor EXCEPT ![i] = intents[i] + 1]
    BY <1>1, <1>3, <2>1, <2>2, ViewsMove, ViewsSame DEF Queued
  <2>4. Request!Ask(i)
    BY <1>1, <1>2, <1>3, <2>1, <2>3, ViewsSame DEF Request!Ask
  <2> QED  BY <1>3, <2>4 DEF Request!RequestNext
<1>4. CASE i \in Directs
  <2>1. RowStates' = RowStates /\ GivenTos' = GivenTos /\ AskedFor' = AskedFor
    BY <1>1, <1>4, ViewsStay DEF Queued
  <2> QED  BY <1>1, <1>2, <2>1 DEF Request!requestVars
<1> QED  BY <1>3, <1>4 DEF Queued

(* A step of one attempt leaves every row as it is. *)
LEMMA AttemptIsAlone ==
    ASSUME NEW k \in Claims, TicketMoves(k)
    PROVE  RowStates' = RowStates /\ AskedFor' = AskedFor /\ DirectHeld' = DirectHeld
BY DEF TicketMoves, RowStates, AskedFor, DirectHeld, RowState

(* The attempts that may still send, when only k's turn comes or goes. *)
LEMMA LoadedMoves ==
    ASSUME NEW k \in Claims, TicketMoves(k), NEW S,
           S = IF MayFire(k)' THEN Loaded(item[k]) \cup {k} ELSE Loaded(item[k]) \ {k}
    PROVE  /\ item[k] \in Queued => LoadedOf' = [LoadedOf EXCEPT ![item[k]] = S]
           /\ item[k] \notin Queued => LoadedOf' = LoadedOf
<1> USE DEF TicketMoves, Loaded, MayFire
<1>1. \A j \in Queued : j # item[k] => Loaded(j)' = Loaded(j)
  OBVIOUS
<1>2. item[k] \in Queued => Loaded(item[k])' = S
  OBVIOUS
<1> HIDE DEF Loaded, MayFire
<1>3. CASE item[k] \in Queued
  <2>1. \A j \in Queued : Loaded(j)' = [LoadedOf EXCEPT ![item[k]] = S][j]
    BY <1>1, <1>2, <1>3 DEF LoadedOf
  <2> QED  BY <1>3, <2>1 DEF LoadedOf
<1>4. CASE item[k] \notin Queued
  BY <1>1, <1>4 DEF LoadedOf
<1> QED  BY <1>3, <1>4

(* What a row's request was handed to. *)
LEMMA GivenMoves ==
    ASSUME RequestFacts, RequestFacts', NEW k \in Claims, TicketMoves(k),
           published' \ {k} = published \ {k}
    PROVE  \A j \in Items : j # item[k] => GivenTo(j)' = GivenTo(j)
<1> USE DEF TicketMoves, RequestFacts
<1> SUFFICES ASSUME NEW j \in Items, j # item[k] PROVE GivenTo(j)' = GivenTo(j)
  OBVIOUS
<1>1. CASE status[j] = "printing"
  <2>1. startedAt[j] \in Claims \ {k}
    BY <1>1
  <2>2. Ticket(startedAt[j])' <=> Ticket(startedAt[j])
    BY <2>1 DEF Ticket, MayFire
  <2> QED  BY <1>1, <2>2 DEF GivenTo, Ticket
<1>2. CASE status[j] # "printing"
  BY <1>2 DEF GivenTo
<1> QED  BY <1>1, <1>2

(* The last look hands the request over. *)
LEMMA LooksMaps ==
    ASSUME RequestFacts, RequestFacts', NEW k \in Claims, Looks(k)
    PROVE  [Request!RequestNext]_(Request!requestVars)
<1> USE DEF Looks
<1>1. RowStates' = RowStates /\ AskedFor' = AskedFor /\ DirectHeld' = DirectHeld
  BY AttemptIsAlone
<1>2. SentOf' = SentOf
  BY DEF SentOf, SentFor, TicketMoves
<1>3. \A j \in Items : j # item[k] => GivenTo(j)' = GivenTo(j)
  BY GivenMoves
<1>4. CASE item[k] \in Queued
  <2>1. status[item[k]] = "printing" /\ startedAt[item[k]] = k
    BY <1>4
  <2>2. GivenTo(item[k]) = 0 /\ RowState(item[k]) = "held"
    BY <2>1 DEF GivenTo, RowState
  <2>3. GivenTo(item[k])' = k
    BY <2>1 DEF GivenTo, TicketMoves, Ticket, MayFire
  <2>4. GivenTos' = [GivenTos EXCEPT ![item[k]] = k]
    BY <1>3, <1>4, <2>3 DEF GivenTos, TicketMoves, Queued
  <2>5. LoadedOf' = [LoadedOf EXCEPT ![item[k]] = Loaded(item[k]) \cup {k}]
    BY <1>4, LoadedMoves
  <2>6. \A j \in Queued : k \notin LoadedOf[j] \cup SentOf[j]
    BY DEF LoadedOf, SentOf, Loaded, SentFor, Ticket
  <2>7. Request!HandOver(item[k], k)
    BY <1>1, <1>2, <1>4, <2>2, <2>4, <2>5, <2>6, ViewsSame DEF Request!HandOver
  <2> QED  BY <1>4, <2>7 DEF Request!RequestNext
<1>5. CASE item[k] \notin Queued
  <2>1. LoadedOf' = LoadedOf
    BY <1>5, LoadedMoves
  <2>2. GivenTos' = GivenTos
    BY <1>3, <1>5 DEF GivenTos, Queued
  <2> QED  BY <1>1, <1>2, <2>1, <2>2 DEF Request!requestVars
<1> QED  BY <1>4, <1>5

(* The publish spends it. *)
LEMMA SendsMaps ==
    ASSUME RequestFacts, RequestFacts', NEW k \in Claims, Sends(k)
    PROVE  [Request!RequestNext]_(Request!requestVars)
<1> USE DEF Sends
<1>1. RowStates' = RowStates /\ AskedFor' = AskedFor /\ DirectHeld' = DirectHeld
  BY AttemptIsAlone
<1>2. GivenTos' = GivenTos
  <2>1. \A j \in Items : j # item[k] => GivenTo(j)' = GivenTo(j)
    BY GivenMoves
  <2>2. \A j \in Items : status[j] = "printing" => (Ticket(startedAt[j])' <=> Ticket(startedAt[j]))
    BY DEF Ticket, MayFire, TicketMoves, RequestFacts
  <2>3. \A j \in Items : GivenTo(j)' = GivenTo(j)
    BY <2>2 DEF GivenTo, TicketMoves, Ticket
  <2> QED  BY <2>3 DEF GivenTos, Queued
<1>3. CASE item[k] \in Queued
  <2>1. LoadedOf' = [LoadedOf EXCEPT ![item[k]] = Loaded(item[k]) \ {k}]
    BY <1>3, LoadedMoves
  <2>2. SentOf' = [SentOf EXCEPT ![item[k]] = SentFor(item[k]) \cup {k}]
    <3>1. \A j \in Queued : SentFor(j)' = IF j = item[k] THEN SentFor(j) \cup {k} ELSE SentFor(j)
      BY DEF SentFor, TicketMoves
    <3> QED  BY <1>3, <3>1 DEF SentOf
  <2>3. k \in LoadedOf[item[k]]
    BY <1>3 DEF LoadedOf, Loaded, MayFire
  <2>4. Request!Spend(item[k], k)
    BY <1>1, <1>2, <1>3, <2>1, <2>2, <2>3, ViewsSame DEF Request!Spend
  <2> QED  BY <1>3, <2>4 DEF Request!RequestNext
<1>4. CASE item[k] \notin Queued
  <2>1. LoadedOf' = LoadedOf
    BY <1>4, LoadedMoves
  <2>2. SentOf' = SentOf
    BY <1>4 DEF SentOf, SentFor, TicketMoves
  <2> QED  BY <1>1, <1>2, <2>1, <2>2 DEF Request!requestVars
<1> QED  BY <1>3, <1>4

(* An end before the publish hands it back. *)
LEMMA EndsMaps ==
    ASSUME RequestFacts, RequestFacts', NEW k \in Claims, Ends(k)
    PROVE  [Request!RequestNext]_(Request!requestVars)
<1> USE DEF Ends
<1>1. RowStates' = RowStates /\ AskedFor' = AskedFor /\ DirectHeld' = DirectHeld
  BY AttemptIsAlone
<1>2. SentOf' = SentOf
  BY DEF SentOf, SentFor, TicketMoves
<1>3. \A j \in Items : j # item[k] => GivenTo(j)' = GivenTo(j)
  BY GivenMoves
<1>4. ~Ticket(k)' /\ 0 # k
  BY DEF Ticket, MayFire, RequestFacts
<1>5. CASE item[k] \in Queued
  <2>1. LoadedOf' = [LoadedOf EXCEPT ![item[k]] = Loaded(item[k]) \ {k}]
    BY <1>5, LoadedMoves
  <2>2. k \in LoadedOf[item[k]]
    BY <1>5 DEF LoadedOf, Loaded, MayFire
  <2>3. GivenTo(item[k])' = IF GivenTo(item[k]) = k THEN 0 ELSE GivenTo(item[k])
    <3>1. CASE status[item[k]] = "printing" /\ startedAt[item[k]] = k
      BY <1>4, <3>1 DEF GivenTo, TicketMoves, Ticket
    <3>2. CASE status[item[k]] = "printing" /\ startedAt[item[k]] # k
      <4>1. startedAt[item[k]] \in Claims \ {k}
        BY <1>5, <3>2 DEF RequestFacts, Queued
      <4>2. Ticket(startedAt[item[k]])' <=> Ticket(startedAt[item[k]])
        BY <4>1 DEF Ticket, MayFire, TicketMoves
      <4> QED  BY <3>2, <4>2, <1>4 DEF GivenTo, TicketMoves, Ticket
    <3>3. CASE status[item[k]] # "printing"
      BY <1>4, <3>3 DEF GivenTo, TicketMoves
    <3> QED  BY <3>1, <3>2, <3>3
  <2>4. GivenTos' = [GivenTos EXCEPT ![item[k]] = IF GivenTo(item[k]) = k THEN 0 ELSE GivenTo(item[k])]
    BY <1>3, <1>5, <2>3 DEF GivenTos, TicketMoves, Queued
  <2>5. Request!HandBack(item[k], k)
    BY <1>1, <1>2, <1>5, <2>1, <2>2, <2>4, ViewsSame DEF Request!HandBack
  <2> QED  BY <1>5, <2>5 DEF Request!RequestNext
<1>6. CASE item[k] \notin Queued
  <2>1. LoadedOf' = LoadedOf
    BY <1>6, LoadedMoves
  <2>2. GivenTos' = GivenTos
    BY <1>3, <1>6 DEF GivenTos, Queued
  <2> QED  BY <1>1, <1>2, <2>1, <2>2 DEF Request!requestVars
<1> QED  BY <1>5, <1>6

(* A crash leaves no attempt that may send. *)
LEMMA DiesMaps ==
    ASSUME RequestFacts, RequestFacts', Dies
    PROVE  [Request!RequestNext]_(Request!requestVars)
<1> USE ConstantsAssumption DEF Dies
<1>1. LoadedOf' = [i \in Queued |-> {}]
  BY DEF LoadedOf, Loaded, MayFire
<1>2. SentOf' = SentOf /\ AskedFor' = AskedFor
  BY DEF SentOf, SentFor, AskedFor
<1>3. \A i \in Queued : GivenTo(i)' = IF GivenTo(i) \in SentFor(i) THEN GivenTo(i) ELSE 0
  <2> SUFFICES ASSUME NEW i \in Queued
               PROVE  GivenTo(i)' = IF GivenTo(i) \in SentFor(i) THEN GivenTo(i) ELSE 0
    OBVIOUS
  <2>0. 0 \notin SentFor(i)
    BY DEF SentFor, RequestFacts
  <2>1. CASE status'[i] # "printing"
    <3>1. CASE status[i] # "printing"
      BY <2>0, <2>1, <3>1 DEF GivenTo
    <3>2. CASE status[i] = "printing"
      <4>1. startedAt[i] \notin published
        BY <2>1, <3>2 DEF SameRow, Queued
      <4> QED  BY <2>0, <2>1, <4>1 DEF GivenTo, SentFor
    <3> QED  BY <3>1, <3>2
  <2>2. CASE status'[i] = "printing"
    <3>1. status[i] = "printing" /\ startedAt'[i] = startedAt[i]
      BY <2>2 DEF SameRow, Queued
    <3>2. startedAt[i] \in Claims /\ item[startedAt[i]] = i
      BY <3>1 DEF RequestFacts, Queued
    <3>3. CASE startedAt[i] \in published
      <4>1. GivenTo(i) = startedAt[i] /\ GivenTo(i)' = startedAt[i]
        BY <2>2, <3>1, <3>3 DEF GivenTo, Ticket
      <4> QED  BY <3>2, <3>3, <4>1 DEF SentFor
    <3>4. CASE startedAt[i] \notin published
      <4>1. GivenTo(i)' = 0
        <5>1. PICK k \in Claims : k = startedAt[i]
          BY <3>2
        <5>2. ~Ticket(k)'
          BY <3>4, <5>1 DEF Ticket, MayFire
        <5> QED  BY <2>2, <3>1, <5>1, <5>2 DEF GivenTo, Ticket
      <4>2. GivenTo(i) \notin SentFor(i)
        BY <2>0, <3>4 DEF GivenTo, SentFor
      <4> QED  BY <4>1, <4>2
    <3> QED  BY <3>3, <3>4
  <2> QED  BY <2>1, <2>2
<1>4. GivenTos' = [i \in Queued |-> IF GivenTos[i] \in SentOf[i] THEN GivenTos[i] ELSE 0]
  BY <1>3 DEF GivenTos, SentOf
<1>5. \E back \in SUBSET {i \in Queued : RowStates[i] = "held" /\ GivenTos'[i] = 0} :
         RowStates' = [i \in Queued |-> IF i \in back THEN "waiting" ELSE RowStates[i]]
  <2> DEFINE back == {i \in Queued : status[i] = "printing" /\ status'[i] = "pending"}
  <2>1. \A i \in back : RowStates[i] = "held" /\ GivenTos'[i] = 0
    BY DEF RowStates, RowState, GivenTos, GivenTo
  <2>2. \A i \in Queued : RowState(i)' = IF i \in back THEN "waiting" ELSE RowState(i)
    BY DEF RowState, SameRow, Queued
  <2>3. RowStates' = [i \in Queued |-> IF i \in back THEN "waiting" ELSE RowStates[i]]
    BY <2>2 DEF RowStates
  <2> QED  BY <2>1, <2>3
<1>6. DirectHeld' \in {DirectHeld, FALSE}
  <2>1. DirectHeld' => DirectHeld
    BY DEF DirectHeld, SameRow
  <2> QED  BY <2>1 DEF DirectHeld
<1>7. Request!Crash
  BY <1>1, <1>2, <1>4, <1>5, <1>6 DEF Request!Crash
<1> QED  BY <1>7 DEF Request!RequestNext

(* Every effect is a step of PrintRequest, or none. *)
LEMMA EffectMaps ==
    ASSUME RequestFacts, RequestFacts', Effect
    PROVE  [Request!RequestNext]_(Request!requestVars)
<1>1. CASE Quiet
  BY <1>1, QuietMaps
<1>2. CASE Dies
  BY <1>2, DiesMaps
<1>3. ASSUME NEW i \in Items, Takes(i) \/ Closes(i) \/ GivesBack(i) \/ Asks(i)
      PROVE  [Request!RequestNext]_(Request!requestVars)
  BY <1>3, TakesMaps, ClosesMaps, GivesBackMaps, AsksMaps
<1>4. ASSUME NEW k \in Claims, Looks(k) \/ Sends(k) \/ Ends(k)
      PROVE  [Request!RequestNext]_(Request!requestVars)
  BY <1>4, LooksMaps, SendsMaps, EndsMaps
<1> QED  BY <1>1, <1>2, <1>3, <1>4 DEF Effect

(* A step that ends the row that prints, if one does, or none.              *)
LEMMA OneRowCloses ==
    ASSUME Inv, SameTickets, \A j \in Items : SameAsked(j), startedAt' = startedAt,
           \A j \in Items : status'[j] = status[j] \/ (status[j] = "printing" /\ status'[j] \in Terminal)
    PROVE  Quiet \/ \E i \in Items : Closes(i)
<1>1. CASE \A j \in Items : status'[j] = status[j]
  BY <1>1 DEF Quiet, SameRow
<1>2. ASSUME NEW i \in Items, status'[i] # status[i] PROVE Closes(i)
  <2>1. status[i] = "printing" /\ status'[i] \in Terminal
    BY <1>2
  <2>2. \A j \in Items \ {i} : status'[j] = status[j]
    BY <2>1 DEF Inv, OneClaimPerLane
  <2> QED  BY <2>1, <2>2 DEF Closes, RowMoves, SameRow
<1> QED  BY <1>1, <1>2

(* An attempt that stops before it has sent. *)
LEMMA StopsBefore ==
    ASSUME TypeOK, NEW k \in Claims, NEW where,
           pc' = [pc EXCEPT ![k] = where], where \notin {"verified", "sending"},
           pc[k] \notin {"none"}, UNCHANGED <<status, startedAt, item, intents, published>>
    PROVE  Quiet \/ Ends(k)
<1> USE DEF TypeOK, JobsOK
<1>1. \A c \in Claims \ {k} : MayFire(c)' <=> MayFire(c)
  BY DEF MayFire
<1>2. ~MayFire(k)'
  BY DEF MayFire
<1>3. CASE MayFire(k)
  BY <1>1, <1>2, <1>3 DEF Ends, TicketMoves
<1>4. CASE ~MayFire(k)
  BY <1>1, <1>2, <1>4 DEF Quiet, SameTickets, SameRow, SameAsked
<1> QED  BY <1>3, <1>4

(* Every action has one of the effects. *)
LEMMA EffectStep ==
    ASSUME RetryOvertakes = {}, TypeOK, TypeOK', Inv, Own, StartInv, Next
    PROVE  Effect
<1> USE ConstantsAssumption DEF TypeOK, RowsOK, LaneOK, JobsOK, ArchivesOK, ServerOK, DeviceOK,
        HistoryOK, rows, lane, jobs, jobData, archs, server, device, history
<1>0. 0 \notin Claims /\ NoLink \notin Claims /\ Source \notin Claims
  BY DEF NoLink, Source, Claims
<1>1. ASSUME NEW i \in Items, Claim(i) PROVE Takes(i)
  <2>1. claims + 1 \in Claims /\ ~Ticket(claims + 1)
    BY <1>1, SMTT(30) DEF Claim, NewJob, Claims, Inv, ClaimInv, Ticket
  <2>2. SameTickets
    BY <1>1, <2>1, SMTT(30) DEF SameTickets, Ticket, MayFire, Claim, NewJob
  <2>3. \A j \in Items \ {i} : SameRow(j)
    BY <1>1 DEF SameRow, Claim, NewJob
  <2> QED  BY <1>1, <2>1, <2>2, <2>3 DEF Takes, RowMoves, SameAsked, Claim, NewJob, LaneFree
<1>2. ASSUME NEW i \in Items, ClaimSpent(i) PROVE Closes(i)
  BY <1>0, <1>2, SMTT(30) DEF Closes, RowMoves, SameTickets, SameRow, SameAsked, Ticket, MayFire,
     ClaimSpent, Terminal
<1>3. ASSUME NEW i \in Items, ClaimDirect(i) PROVE Takes(i)
  <2>1. claims + 1 \in Claims /\ ~Ticket(claims + 1)
    BY <1>3, SMTT(30) DEF ClaimDirect, NewJob, Claims, Inv, ClaimInv, Ticket
  <2>2. SameTickets
    BY <1>3, <2>1, SMTT(30) DEF SameTickets, Ticket, MayFire, ClaimDirect, NewJob
  <2>3. \A j \in Items \ {i} : SameRow(j) /\ SameAsked(j)
    BY <1>3 DEF SameRow, SameAsked, ClaimDirect, NewJob
  <2>4. SameAsked(i)
    BY <1>3 DEF SameAsked, Queued, ClaimDirect
  <2> QED  BY <1>3, <2>1, <2>2, <2>3, <2>4 DEF Takes, RowMoves, ClaimDirect, NewJob, LaneFree
<1>4. ASSUME NEW i \in Items, SettleInterrupted(i) PROVE Closes(i) \/ GivesBack(i)
  <2>1. RowMoves(i) /\ SameAsked(i) /\ status[i] = "printing" /\ pc' = pc
    BY <1>4, SMTT(30) DEF RowMoves, SameTickets, SameRow, SameAsked, Ticket, MayFire,
       SettleInterrupted, Interrupted
  <2>2. status'[i] \in {"failed", "pending"}
    BY <1>4, SMTT(30) DEF SettleInterrupted
  <2>3. ASSUME status'[i] = "pending", i \in Queued PROVE ~Ticket(startedAt[i])
    <3>1. KeepsTickets(i) /\ startedAt[i] \in Claims
      BY <1>4, <2>1, <2>3, InterruptedKeeps DEF KeepsAll, Queued, Inv, ClaimInv
    <3>2. \A k \in Claims : k = startedAt[i] => ~Ticket(k)'
      BY <2>1, <2>3, <3>1 DEF KeepsTickets
    <3> QED  BY <2>1, <3>1, <3>2 DEF RowMoves, SameTickets, Ticket
  <2> QED  BY <2>1, <2>2, <2>3 DEF Closes, GivesBack, Terminal
<1>5. ASSUME NEW i \in Items, Stop(i) PROVE Closes(i)
  BY <1>0, <1>5, SMTT(30) DEF Closes, RowMoves, SameTickets, SameRow, SameAsked, Ticket, MayFire,
     Stop, StopRow, SetQueuePaused, Terminal
<1>6. ASSUME NEW i \in Items, BeginStop(i) PROVE Quiet
  BY <1>0, <1>6, SMTT(30) DEF Quiet, SameTickets, SameRow, SameAsked, Ticket, MayFire, BeginStop
<1>7. ASSUME NEW i \in Items, CancelPending(i) PROVE Closes(i)
  BY <1>0, <1>7, SMTT(30) DEF Closes, RowMoves, SameTickets, SameRow, SameAsked, Ticket, MayFire,
     CancelPending, Terminal
<1>8. ASSUME NEW i \in Items, Retry(i) PROVE Asks(i)
  BY <1>0, <1>8, SMTT(30) DEF Asks, RowMoves, SameTickets, SameRow, SameAsked, Ticket, MayFire,
     Retry, Terminal
<1>9. ASSUME NEW k \in Claims, TakeJob(k) PROVE Quiet
  BY <1>0, <1>9, SMTT(30) DEF Quiet, SameTickets, SameRow, SameAsked, Ticket, MayFire, TakeJob, MoveTo
<1>10. ASSUME NEW k \in Claims, CancelQueued(k) PROVE Quiet
  BY <1>0, <1>10, SMTT(30) DEF Quiet, SameTickets, SameRow, SameAsked, Ticket, MayFire, CancelQueued, MoveTo
<1>11. ASSUME NEW k \in Claims, CancelJob(k) PROVE Quiet
  BY <1>0, <1>11, SMTT(30) DEF Quiet, SameTickets, SameRow, SameAsked, Ticket, MayFire, CancelJob
<1>12. ASSUME NEW k \in Claims, Admit(k) PROVE Quiet
  BY <1>0, <1>12, SMTT(30) DEF Quiet, SameTickets, SameRow, SameAsked, Ticket, MayFire, Admit, MoveTo, RunnerEnds
<1>13. ASSUME NEW k \in Claims, Prepare(k) PROVE Quiet
  BY <1>0, <1>13, SMTT(30) DEF Quiet, SameTickets, SameRow, SameAsked, Ticket, MayFire, Prepare, MoveTo, RunnerEnds
<1>14. ASSUME NEW k \in Claims, CreateArchive(k) PROVE Quiet
  BY <1>0, <1>14, SMTT(30) DEF Quiet, SameTickets, SameRow, SameAsked, Ticket, MayFire, CreateArchive, MoveTo
<1>15. ASSUME NEW k \in Claims, CancelBeforeTry(k) PROVE Quiet
  BY <1>0, <1>15, SMTT(30) DEF Quiet, SameTickets, SameRow, SameAsked, Ticket, MayFire, CancelBeforeTry, RunnerEnds
<1>16. ASSUME NEW k \in Claims, Upload(k) PROVE Quiet
  BY <1>0, <1>16, SMTT(30) DEF Quiet, SameTickets, SameRow, SameAsked, Ticket, MayFire, Upload, MoveTo
<1>17. ASSUME NEW k \in Claims, CancelInTry(k) PROVE Quiet
  BY <1>0, <1>17, SMTT(30) DEF Quiet, SameTickets, SameRow, SameAsked, Ticket, MayFire, CancelInTry, RunnerEnds
<1>18. ASSUME NEW k \in Claims, Bind(k) PROVE Quiet
  BY <1>0, <1>18, SMTT(30) DEF Quiet, SameTickets, SameRow, SameAsked, Ticket, MayFire, Bind, MoveTo, RunnerEnds
<1>19. ASSUME NEW k \in Claims, RunSwapMacro(k) PROVE Quiet
  BY <1>0, <1>19, SMTT(30) DEF Quiet, SameTickets, SameRow, SameAsked, Ticket, MayFire, RunSwapMacro, MoveTo, RunnerEnds
<1>20. ASSUME NEW k \in Claims, Verify(k) PROVE Quiet \/ Looks(k)
  <2>1. CASE ~OwnsClaim(k)
    BY <1>20, <2>1, SMTT(30) DEF Quiet, SameTickets, SameRow, SameAsked, Ticket, MayFire, Verify, RunnerEnds
  <2>2. CASE OwnsClaim(k)
    <3>1. ~Ticket(k)
      BY <1>20 DEF Verify, Ticket, Inv, SentInv, Unfinished, Active, InTry, AfterSend
    <3>2. TicketMoves(k) /\ published' = published /\ MayFire(k)'
      BY <1>20, <2>2 DEF TicketMoves, MayFire, Verify, MoveTo
    <3>3. ASSUME item[k] \in Queued PROVE status[item[k]] = "printing" /\ startedAt[item[k]] = k
      <4>1. ~direct[k]
        BY <3>3 DEF Inv, ClaimInv, Queued
      <4>2. token[k] \in {0, k}
        BY <1>20, <4>1 DEF Own, TokenInv, Verify, Unfinished, Active, InTry
      <4>3. status[item[k]] = "printing" /\ startedAt[item[k]] = token[k] /\ startedAt[item[k]] # 0
        BY <2>2, <3>3 DEF OwnsClaim, Inv, ClaimInv, Queued
      <4> QED  BY <4>2, <4>3
    <3> QED  BY <3>1, <3>2, <3>3 DEF Looks
  <2> QED  BY <2>1, <2>2
<1>21. ASSUME NEW k \in Claims, Deferred(k) PROVE Quiet \/ Ends(k)
  <2>1. \/ pc' = [pc EXCEPT ![k] = "settle"] /\ pc[k] # "none"
                 /\ UNCHANGED <<status, startedAt, item, intents, published>>
        \/ Quiet
    BY <1>21, SMTT(30) DEF Quiet, SameTickets, SameRow, SameAsked, Ticket, MayFire, Deferred, RunnerEnds
  <2> QED  BY <2>1, StopsBefore
<1>22. ASSUME NEW k \in Claims, RunnerFails(k) PROVE Quiet \/ Ends(k)
  <2>1. \/ pc' = [pc EXCEPT ![k] = "settle"] /\ pc[k] # "none"
                 /\ UNCHANGED <<status, startedAt, item, intents, published>>
        \/ Quiet
    BY <1>22, SMTT(30) DEF Quiet, SameTickets, SameRow, SameAsked, Ticket, MayFire, RunnerFails, RunnerEnds
  <2> QED  BY <2>1, StopsBefore
<1>23. ASSUME NEW k \in Claims, CommitSending(k) PROVE Quiet \/ Ends(k)
  <2>1. \/ pc' = [pc EXCEPT ![k] = "settle"] /\ pc[k] # "none"
                 /\ UNCHANGED <<status, startedAt, item, intents, published>>
        \/ Quiet
    BY <1>23, SMTT(30) DEF Quiet, SameTickets, SameRow, SameAsked, Ticket, MayFire, CommitSending, MoveTo, RunnerEnds
  <2> QED  BY <2>1, StopsBefore
<1>24. ASSUME NEW k \in Claims, Publish(k) PROVE Quiet \/ Sends(k) \/ Ends(k)
  <2>1. CASE published' = published \cup {k} /\ pc' = [pc EXCEPT ![k] = "published"]
    BY <1>24, <2>1 DEF Sends, TicketMoves, MayFire, Publish
  <2>2. CASE published' = published /\ pc' = [pc EXCEPT ![k] = "settle"]
    <3>1. /\ pc' = [pc EXCEPT ![k] = "settle"] /\ pc[k] # "none"
          /\ UNCHANGED <<status, startedAt, item, intents, published>>
      BY <1>24, <2>2 DEF Publish
    <3>2. "settle" \notin {"verified", "sending"}
      OBVIOUS
    <3>3. Quiet \/ Ends(k)
      BY ONLY TypeOK, k \in Claims, <3>1, <3>2, StopsBefore
    <3> QED  BY <3>3
  <2> QED  BY <1>24, <2>1, <2>2 DEF Publish, MoveTo, RunnerEnds
<1>25. ASSUME NEW k \in Claims, RecordSent(k) PROVE Quiet
  BY <1>0, <1>25, SMTT(30) DEF Quiet, SameTickets, SameRow, SameAsked, Ticket, MayFire, RecordSent, MoveTo
<1>26. ASSUME NEW k \in Claims, Answer(k) PROVE Quiet
  BY <1>0, <1>26, SMTT(30) DEF Quiet, SameTickets, SameRow, SameAsked, Ticket, MayFire, Answer, RunnerEnds
<1>27. ASSUME NEW k \in Claims, SettleDeferred(k) PROVE item[k] \in Items /\ (Quiet \/ Closes(item[k]) \/ GivesBack(item[k]))
  <2>1. RefusalEffect(k)
    BY <1>27, SettleDeferredEffect
  <2> USE <2>1 DEF RefusalEffect
  <2>2. SameTickets /\ \A j \in Items : SameAsked(j)
    BY SMTT(30) DEF SameTickets, SameAsked, Ticket, MayFire
  <2>3. \A j \in Items \ {item[k]} : SameRow(j)
    BY DEF SameRow
  <2>4. CASE ~(token[k] # 0 /\ OwnsClaim(k))
    <3>1. SameRow(item[k])
      BY <2>4 DEF SameRow
    <3> QED  BY <2>2, <2>3, <3>1 DEF Quiet
  <2>5. CASE token[k] # 0 /\ OwnsClaim(k)
    <3>1. status[item[k]] = "printing" /\ status'[item[k]] \in {"failed", "pending"}
      BY <2>5 DEF OwnsClaim
    <3>2. ASSUME status'[item[k]] = "pending", item[k] \in Queued PROVE ~Ticket(startedAt[item[k]])
      <4>1. KeepsTickets(item[k]) /\ startedAt[item[k]] \in Claims
        BY <1>27, <3>1, <3>2, DeferredKeeps DEF KeepsAll, Queued, Inv, ClaimInv
      <4>2. \A c \in Claims : c = startedAt[item[k]] => ~Ticket(c)'
        BY <3>1, <3>2, <4>1 DEF KeepsTickets
      <4> QED  BY <2>2, <4>1, <4>2 DEF SameTickets, Ticket
    <3> QED  BY <2>2, <2>3, <3>1, <3>2 DEF Closes, GivesBack, RowMoves, Terminal
  <2> QED  BY <2>4, <2>5
<1>28. ASSUME NEW k \in Claims, SettleFailed(k) PROVE item[k] \in Items /\ (Quiet \/ Closes(item[k]))
  <2>1. SameTickets /\ \A j \in Items : SameAsked(j)
    BY <1>0, <1>28, SMTT(30) DEF SameTickets, SameAsked, Ticket, MayFire, SettleFailed, Finished
  <2>2. /\ item[k] \in Items /\ startedAt' = startedAt
        /\ status' = status \/ \E s \in Terminal : status' = [status EXCEPT ![item[k]] = s]
    BY <1>28, SMTT(30) DEF Terminal, Unfinished, SettleFailed, ReleaseDirectClaim,
       FailAttempt, Finished
  <2>3. \A j \in Items \ {item[k]} : SameRow(j)
    BY <2>2 DEF SameRow
  <2> QED  BY <2>1, <2>2, <2>3 DEF Quiet, Closes, RowMoves, SameRow
<1>29. ASSUME NEW k \in Claims, SettleCancelled(k) PROVE item[k] \in Items /\ (Quiet \/ Closes(item[k]))
  <2>1. SameTickets /\ \A j \in Items : SameAsked(j)
    BY <1>0, <1>29, SMTT(30) DEF SameTickets, SameAsked, Ticket, MayFire, SettleCancelled, Finished
  <2>2. /\ item[k] \in Items /\ startedAt' = startedAt
        /\ status' = status \/ \E s \in Terminal : status' = [status EXCEPT ![item[k]] = s]
    BY <1>29, SMTT(30) DEF Terminal, Unfinished, SettleCancelled,
       ReleaseDirectClaim, CancelItem, Finished
  <2>3. \A j \in Items \ {item[k]} : SameRow(j)
    BY <2>2 DEF SameRow
  <2> QED  BY <2>1, <2>2, <2>3 DEF Quiet, Closes, RowMoves, SameRow
<1>30. ASSUME NEW k \in Claims, SettleSent(k) PROVE Quiet
  BY <1>0, <1>30, SMTT(30) DEF Quiet, SameTickets, SameRow, SameAsked, Ticket, MayFire, SettleSent, Finished
<1>31. ASSUME NEW k \in Claims, WatchdogFails(k) PROVE item[k] \in Items /\ (Quiet \/ Closes(item[k]))
  <2>1. SameTickets /\ \A j \in Items : SameAsked(j)
    BY <1>0, <1>31, SMTT(30) DEF SameTickets, SameAsked, Ticket, MayFire, WatchdogFails
  <2>2. /\ item[k] \in Items /\ startedAt' = startedAt
        /\ status' = status \/ \E s \in Terminal : status' = [status EXCEPT ![item[k]] = s]
    BY <1>31, SMTT(30) DEF Terminal, WatchdogFails, FailAttempt
  <2>3. \A j \in Items \ {item[k]} : SameRow(j)
    BY <2>2 DEF SameRow
  <2> QED  BY <2>1, <2>2, <2>3 DEF Quiet, Closes, RowMoves, SameRow
<1>32. ASSUME NEW k \in Claims, PrinterStarts(k) PROVE Quiet
  BY <1>0, <1>32, SMTT(30) DEF Quiet, SameTickets, SameRow, SameAsked, Ticket, MayFire, PrinterStarts
<1>33. ASSUME NEW k \in Claims, PrinterDrops(k) PROVE Quiet
  BY <1>0, <1>33, SMTT(30) DEF Quiet, SameTickets, SameRow, SameAsked, Ticket, MayFire, PrinterDrops
<1>34. ASSUME NEW r \in {"completed", "failed", "aborted"}, PrinterEnds(r) PROVE Effect
  <2>1. SameTickets /\ \A j \in Items : SameAsked(j)
    BY <1>0, <1>34, SMTT(30) DEF SameTickets, SameAsked, Ticket, MayFire, PrinterEnds
  <2>2. /\ startedAt' = startedAt
        /\ \A j \in Items : status'[j] = status[j] \/ (status[j] = "printing" /\ status'[j] \in Terminal)
    BY <1>34, SMTT(30) DEF PrinterEnds, Normalised, Terminal
  <2> QED  BY <2>1, <2>2, OneRowCloses DEF Effect
<1>35. ASSUME Restart PROVE Dies
  <2>1. UNCHANGED <<item, intents, published>> /\ \A k \in Claims : ~MayFire(k)'
    BY <1>35, SMTT(30) DEF Restart, MayFire, Unfinished, Active, InTry
  <2>2. \A j \in Items : SameRow(j) \/ (status[j] = "printing" /\ status'[j] = "pending")
    BY <1>35, SMTT(30) DEF Restart, SameRow
  <2>3. RequeueStepOK
    BY <1>35, RequeueStep DEF Next
  <2> QED  BY <2>1, <2>2, <2>3 DEF Dies, RequeueStepOK
<1>36. ASSUME Adopt PROVE Quiet
  BY <1>0, <1>36, SMTT(30) DEF Quiet, SameTickets, SameRow, SameAsked, Ticket, MayFire, Adopt
<1>37. ASSUME RepairRows PROVE Effect
  <2>1. SameTickets /\ \A j \in Items : SameAsked(j)
    BY <1>0, <1>37, SMTT(30) DEF SameTickets, SameAsked, Ticket, MayFire, RepairRows
  <2>2. ASSUME NEW j \in Items, status[j] = "printing" PROVE status'[j] \in Terminal
    <3>1. link[j] \in Claims /\ archive[link[j]] # "none" /\ archive[link[j]] # "printing"
      BY <1>37, <2>2 DEF RepairRows, NoPrintingArchive
    <3>2. status'[j] = archive[link[j]]
      BY <1>37, <2>2 DEF RepairRows
    <3> QED  BY <3>1, <3>2
  <2>3. \A j \in Items : status[j] # "printing" => status'[j] = status[j]
    BY <1>37 DEF RepairRows
  <2>4. startedAt' = startedAt
    BY <1>37 DEF RepairRows
  <2> QED  BY <2>1, <2>2, <2>3, <2>4, OneRowCloses DEF Effect
<1>38. ASSUME ClearContext PROVE Quiet
  BY <1>0, <1>38, SMTT(30) DEF Quiet, SameTickets, SameRow, SameAsked, Ticket, MayFire, ClearContext
<1>39. ASSUME CloseFarm PROVE Quiet
  BY <1>0, <1>39, SMTT(30) DEF Quiet, SameTickets, SameRow, SameAsked, Ticket, MayFire, CloseFarm
<1>40. ASSUME OpenFarm PROVE Quiet
  BY <1>0, <1>40, SMTT(30) DEF Quiet, SameTickets, SameRow, SameAsked, Ticket, MayFire, OpenFarm
<1>41. ASSUME ResumeLane PROVE Quiet
  BY <1>0, <1>41, SMTT(30) DEF Quiet, SameTickets, SameRow, SameAsked, Ticket, MayFire, ResumeLane
<1>42. ASSUME FinishStop PROVE stopping \in Items /\ Closes(stopping)
  BY <1>0, <1>42, SMTT(30) DEF Closes, RowMoves, SameTickets, SameRow, SameAsked, Ticket, MayFire,
     FinishStop, StopRow, SetQueuePaused, Terminal
<1>43. ASSUME HoldExpires PROVE Quiet
  BY <1>0, <1>43, SMTT(30) DEF Quiet, SameTickets, SameRow, SameAsked, Ticket, MayFire, HoldExpires
<1> HIDE DEF TypeOK, Inv, Own, StartInv, Quiet, Dies, Takes, Closes, GivesBack, Asks, Looks, Sends, Ends
<1> QED
  BY <1>1, <1>2, <1>3, <1>4, <1>5, <1>6, <1>7, <1>8, <1>9, <1>10, <1>11, <1>12, <1>13, <1>14,
     <1>15, <1>16, <1>17, <1>18, <1>19, <1>20, <1>21, <1>22, <1>23, <1>24, <1>25, <1>26,
     <1>27, <1>28, <1>29, <1>30, <1>31, <1>32, <1>33, <1>34, <1>35, <1>36, <1>37, <1>38,
     <1>39, <1>40, <1>41, <1>42, <1>43
     DEF Effect, Next, JobStep, RowStep

(* What the queue promises about requests, it keeps: for every set of queued *)
(* rows, with direct prints beside them, for every bound and every crash,    *)
(* when no Retry overtakes an attempt.                                      *)
THEOREM RequestRefinement == ASSUME RetryOvertakes = {} PROVE Spec => RefinesPrintRequest
<1>1. Init => Request!RequestInit
  <2> SUFFICES ASSUME Init PROVE Request!RequestInit
    OBVIOUS
  <2>1. RowStates = [i \in Queued |-> "waiting"] /\ GivenTos = [i \in Queued |-> 0]
    BY DEF Init, RowStates, GivenTos, RowState, GivenTo, Queued
  <2>2. LoadedOf = [i \in Queued |-> {}] /\ SentOf = [i \in Queued |-> {}]
    BY DEF Init, LoadedOf, SentOf, Loaded, SentFor
  <2>3. AskedFor = [i \in Queued |-> 1] /\ DirectHeld = FALSE
    BY ConstantsAssumption DEF Init, AskedFor, DirectHeld, Queued
  <2> QED  BY <2>1, <2>2, <2>3 DEF Request!RequestInit
<1>2. TypeOK /\ Inv => RequestFacts
  BY FactsHold
<1>3. TypeOK /\ TypeOK' /\ Inv /\ Own /\ StartInv /\ RequestFacts /\ RequestFacts' /\ [Next]_vars
         => [Request!RequestNext]_(Request!requestVars)
  <2> SUFFICES ASSUME TypeOK, TypeOK', Inv, Own, StartInv, RequestFacts, RequestFacts', [Next]_vars
               PROVE  [Request!RequestNext]_(Request!requestVars)
    OBVIOUS
  <2>1. CASE Next
    BY <2>1, EffectStep, EffectMaps
  <2>2. CASE UNCHANGED vars
    <3>1. Quiet
      BY <2>2 DEF Quiet, SameTickets, SameRow, SameAsked, Ticket, MayFire, vars, rows, jobs, history
    <3> QED  BY <3>1, QuietMaps
  <2> QED  BY <2>1, <2>2
<1> QED
  BY <1>1, <1>2, <1>3, TypeCorrect, Invariant, Ownership, TicketsArePaid, PTL
     DEF Spec, RefinesPrintRequest, Request!RequestSpec
=============================================================================
