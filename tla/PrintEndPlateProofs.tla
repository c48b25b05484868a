------------------------- MODULE PrintEndPlateProofs -------------------------
(***************************************************************************)
(* The plate: with a plate confirmation, a lane is idle and ungated only    *)
(* over an empty bed; and no swap command is sent to a printer that prints. *)
(*                                                                         *)
(* Both hold when every print starts after the sweeps and the resolutions   *)
(* of the earlier ones (SweptStarts): the tail of a sweep writes the lane   *)
(* without asking whose it is.                                              *)
(*                                                                         *)
(* Ground is what every behaviour keeps: the markers (MarkInv), what takes  *)
(* a part off the plate (AwayInv), and the gate (GateInv).  LaneInv needs   *)
(* the hypothesis: a print no completion has taken holds the lane, and      *)
(* whoever may still move the lane for a run knows that it is the last.     *)
(* PlateInv follows the lane from the arming of the gate to its release.    *)
(***************************************************************************)
EXTENDS PrintEndRowProofs

Fresh(r) == arch[r].status = "printing" /\ arch[r].marker # "accepted"
HoldsLane(r) == \E i \in Items : lane.status = "printing" /\ lane.current = i /\ link[i] = r /\ row[i] = "printing"
RowPrints(r) == \E i \in Items : link[i] = r /\ row[i] = "printing"

(* What a step that starts no print may leave of an archive and of a row.   *)
ArchFades(q) ==
    /\ arch'[q].baked = arch[q].baked
    /\ arch[q].status \in Terminal => arch'[q].status \in Terminal
    /\ arch'[q].status = "printing" => arch[q].status = "printing" /\ arch'[q].marker \in {arch[q].marker, "accepted"}
    /\ arch[q].marker # "none" => arch'[q].marker # "none"
    /\ arch[q].claim = "finished" => arch'[q].claim = "finished"

RowFades(i) ==
    /\ row'[i] = "printing" => row[i] = "printing" /\ link'[i] = link[i]
    /\ row[i] = "printing" =>
          /\ link'[i] = link[i]
          /\ \/ row'[i] \in {"printing"} \cup Terminal
             \/ LiveTidy /\ i = live.row /\ live.outcome = "completed" /\ (live.cleared \/ ~RequirePlateClear)
             \/ \E s \in Sweepers : SweepRow(s) /\ link[i] = sweep[s].run
    /\ row[i] \in {"completed", "gone"} =>
          \/ row'[i] \in {"completed", "gone"} /\ link'[i] = link[i]
          \/ link[i] \in Runs /\ gate = link[i]

StartOr(P) == (\E i \in Items : Start(i)) \/ P

(* But for the start of a print, no row begins to print. *)
LEMMA RowsFade == OnceInv /\ SwapInv /\ SweepsClosed /\ RowOK /\ [Next]_vars => StartOr(\A i \in Items : RowFades(i))
<1> SUFFICES ASSUME OnceInv, SwapInv, SweepsClosed, RowOK, [Next]_vars PROVE StartOr(\A i \in Items : RowFades(i))
  OBVIOUS
<1> USE DEF StartOr
<1>1. ASSUME NEW item \in Items, Start(item) PROVE StartOr(\A i \in Items : RowFades(i))
  BY <1>1
<1>2. ASSUME NEW outcome \in Terminal, PrintEnds(outcome) PROVE StartOr(\A i \in Items : RowFades(i))
  <2>1. UNCHANGED <<row, link>>
    BY <1>2 DEF PrintEnds, db, ram, net, actors, device, past
  <2> QED BY <2>1 DEF RowFades
<1>3. ASSUME PrinterForgets PROVE StartOr(\A i \in Items : RowFades(i))
  <2>1. UNCHANGED <<row, link>>
    BY <1>3 DEF PrinterForgets, db, ram, net, actors, device, past
  <2> QED BY <2>1 DEF RowFades
<1>4. ASSUME NEW r \in Runs, PrinterSwaps(r) PROVE StartOr(\A i \in Items : RowFades(i))
  <2>1. UNCHANGED <<row, link>>
    BY <1>4 DEF PrinterSwaps, db, ram, net, actors, device, past
  <2> QED BY <2>1 DEF RowFades
<1>5. ASSUME Accept PROVE StartOr(\A i \in Items : RowFades(i))
  <2>1. UNCHANGED <<row, link>>
    BY <1>5 DEF Accept, db, ram, net, actors, device, past
  <2> QED BY <2>1 DEF RowFades
<1>6. ASSUME LiveDecide PROVE StartOr(\A i \in Items : RowFades(i))
  <2>1. UNCHANGED <<row, link>>
    BY <1>6 DEF LiveDecide, db, ram, net, actors, device, past
  <2> QED BY <2>1 DEF RowFades
<1>7. ASSUME LiveClaim PROVE StartOr(\A i \in Items : RowFades(i))
  <2>1. UNCHANGED <<row, link>>
    BY <1>7 DEF LiveClaim, db, ram, net, actors, device, past
  <2> QED BY <2>1 DEF RowFades
<1>8. ASSUME LiveSend PROVE StartOr(\A i \in Items : RowFades(i))
  <2>1. UNCHANGED <<row, link>>
    BY <1>8 DEF LiveSend, db, ram, net, actors, device, past
  <2> QED BY <2>1 DEF RowFades
<1>9. ASSUME NEW ok \in BOOLEAN, LiveAnswer(ok) PROVE StartOr(\A i \in Items : RowFades(i))
  <2>1. UNCHANGED <<row, link>>
    BY <1>9 DEF LiveAnswer, db, ram, net, actors, device, past
  <2> QED BY <2>1 DEF RowFades
<1>10. ASSUME LiveError PROVE StartOr(\A i \in Items : RowFades(i))
  <2>1. UNCHANGED <<row, link>>
    BY <1>10 DEF LiveError, db, ram, net, actors, device, past
  <2> QED BY <2>1 DEF RowFades
<1>11. ASSUME LiveHold PROVE StartOr(\A i \in Items : RowFades(i))
  <2>1. UNCHANGED <<row, link>>
    BY <1>11 DEF LiveHold, db, ram, net, actors, device, past
  <2> QED BY <2>1 DEF RowFades
<1>12. ASSUME LiveGate PROVE StartOr(\A i \in Items : RowFades(i))
  <2>1. UNCHANGED <<row, link>>
    BY <1>12 DEF LiveGate, db, ram, net, actors, device, past
  <2> QED BY <2>1 DEF RowFades
<1>13. ASSUME LiveFinalize PROVE StartOr(\A i \in Items : RowFades(i))
  <2>1. /\ live.outcome \in Terminal
        /\ \/ row' = row
           \/ row' = [row EXCEPT ![live.row] = live.outcome] /\ row[live.row] = "printing"
        /\ link' = link
    BY <1>13, Parts, EndsWrites DEF LiveFinalize
  <2>2. CASE row' = row
    BY <2>1, <2>2 DEF RowFades
  <2>3. CASE row' = [row EXCEPT ![live.row] = live.outcome] /\ row[live.row] = "printing"
    <3> SUFFICES ASSUME NEW i \in Items PROVE RowFades(i)
      OBVIOUS
    <3>1. CASE i = live.row
      BY <2>1, <2>3, <3>1 DEF RowOK, RowFades, Terminal
    <3>2. CASE i # live.row
      BY <2>1, <2>3, <3>2 DEF RowOK, RowFades
    <3> QED BY <3>1, <3>2
  <2> QED BY <2>1, <2>2, <2>3
<1>14. ASSUME LiveTidy PROVE StartOr(\A i \in Items : RowFades(i))
  <2>1. link' = link
    BY <1>14 DEF LiveTidy
  <2>2. CASE row' = row
    BY <2>1, <2>2 DEF RowFades
  <2>3. CASE row' # row
    <3>1. /\ row' = [row EXCEPT ![live.row] = "gone"] /\ live.outcome = "completed"
          /\ live.cleared \/ ~RequirePlateClear
      BY <1>14, <2>3, TidyWrites
    <3> SUFFICES ASSUME NEW i \in Items PROVE RowFades(i)
      OBVIOUS
    <3>2. CASE i = live.row
      <4>1. row'[i] = "gone"
        BY <3>1, <3>2 DEF RowOK
      <4> QED BY <1>14, <2>1, <3>1, <3>2, <4>1 DEF RowFades
    <3>3. CASE i # live.row
      <4>1. row'[i] = row[i]
        BY <3>1, <3>3 DEF RowOK
      <4> QED BY <2>1, <4>1 DEF RowFades
    <3> QED BY <3>2, <3>3
  <2> QED BY <2>2, <2>3
<1>15. ASSUME NEW s \in Sweepers, SweepBegin(s) PROVE StartOr(\A i \in Items : RowFades(i))
  <2>1. UNCHANGED <<row, link>>
    BY <1>15 DEF SweepBegin, db, ram, net, actors, device, past
  <2> QED BY <2>1 DEF RowFades
<1>16. ASSUME NEW s \in Sweepers, SweepRepair(s) PROVE StartOr(\A i \in Items : RowFades(i))
  <2>1. link' = link
    BY <1>16 DEF SweepRepair
  <2>2. \/ row' = row
        \/ /\ \A i \in Items : row[i] = "printing" => arch[link[i]].status \in Terminal
           /\ row' = [i \in Items |-> IF row[i] = "printing" THEN arch[link[i]].status ELSE row[i]]
    BY <1>16, RepairWrites
  <2> SUFFICES ASSUME NEW i \in Items PROVE RowFades(i)
    OBVIOUS
  <2>3. row'[i] = row[i] \/ (row[i] = "printing" /\ row'[i] \in Terminal)
    BY <2>2
  <2> QED BY <2>1, <2>3 DEF RowFades, Terminal
<1>17. ASSUME NEW s \in Sweepers, NEW r \in Runs, SweepRecover(s, r) PROVE StartOr(\A i \in Items : RowFades(i))
  <2>1. ArchOK /\ Known
    BY Parts
  <2>2. /\ arch[r].outcome \in Terminal
        /\ \E i \in Items : row[i] = "printing" /\ row' = [row EXCEPT ![i] = arch[r].outcome]
    BY <1>17, <2>1, RecoverWrites
  <2>3. link' = link
    BY <1>17 DEF SweepRecover
  <2> SUFFICES ASSUME NEW i \in Items PROVE RowFades(i)
    OBVIOUS
  <2>4. row'[i] = row[i] \/ (row[i] = "printing" /\ row'[i] \in Terminal)
    BY <2>2 DEF RowOK
  <2> QED BY <2>3, <2>4 DEF RowFades, Terminal
<1>18. ASSUME NEW s \in Sweepers, NEW r \in Runs, SweepClose(s, r) PROVE StartOr(\A i \in Items : RowFades(i))
  <2>1. UNCHANGED <<row, link>>
    BY <1>18 DEF SweepClose, db, ram, net, actors, device, past
  <2> QED BY <2>1 DEF RowFades
<1>19. ASSUME NEW s \in Sweepers, SweepGate(s) PROVE StartOr(\A i \in Items : RowFades(i))
  <2>1. UNCHANGED <<row, link>>
    BY <1>19 DEF SweepGate, db, ram, net, actors, device, past
  <2> QED BY <2>1 DEF RowFades
<1>20. ASSUME NEW s \in Sweepers, SweepRow(s) PROVE StartOr(\A i \in Items : RowFades(i))
  <2>1. arch[sweep[s].run].status \in Terminal
    BY <1>20 DEF SweepRow, SweepsClosed
  <2>2. \/ row' = row
        \/ \E i \in Items : /\ link[i] = sweep[s].run /\ row[i] = "printing"
                            /\ \/ row' = [row EXCEPT ![i] = arch[sweep[s].run].status]
                               \/ row' = [row EXCEPT ![i] = "gone"]
    BY <1>20, <2>1, SweepRowWrites
  <2>3. link' = link
    BY <1>20 DEF SweepRow
  <2> SUFFICES ASSUME NEW i \in Items PROVE RowFades(i)
    OBVIOUS
  <2>4. \/ row'[i] = row[i]
        \/ row[i] = "printing" /\ link[i] = sweep[s].run /\ row'[i] \in {"gone"} \cup Terminal
    BY <2>1, <2>2 DEF RowOK
  <2> QED BY <1>20, <2>3, <2>4 DEF RowFades, Terminal
<1>21. ASSUME NEW s \in Sweepers, SweepEnd(s) PROVE StartOr(\A i \in Items : RowFades(i))
  <2>1. UNCHANGED <<row, link>>
    BY <1>21 DEF SweepEnd, db, ram, net, actors, device, past
  <2> QED BY <2>1 DEF RowFades
<1>22. ASSUME NEW t \in Tasks, ResolveRead(t) PROVE StartOr(\A i \in Items : RowFades(i))
  <2>1. UNCHANGED <<row, link>>
    BY <1>22 DEF ResolveRead, db, ram, net, actors, device, past
  <2> QED BY <2>1 DEF RowFades
<1>23. ASSUME NEW t \in Tasks, ResolveClaim(t) PROVE StartOr(\A i \in Items : RowFades(i))
  <2>1. UNCHANGED <<row, link>>
    BY <1>23 DEF ResolveClaim, db, ram, net, actors, device, past
  <2> QED BY <2>1 DEF RowFades
<1>24. ASSUME NEW t \in Tasks, ResolveSend(t) PROVE StartOr(\A i \in Items : RowFades(i))
  <2>1. UNCHANGED <<row, link>>
    BY <1>24 DEF ResolveSend, db, ram, net, actors, device, past
  <2> QED BY <2>1 DEF RowFades
<1>25. ASSUME NEW t \in Tasks, NEW ok \in BOOLEAN, ResolveAnswer(t, ok) PROVE StartOr(\A i \in Items : RowFades(i))
  <2>1. UNCHANGED <<row, link>>
    BY <1>25 DEF ResolveAnswer, db, ram, net, actors, device, past
  <2> QED BY <2>1 DEF RowFades
<1>26. ASSUME NEW t \in Tasks, ResolveError(t) PROVE StartOr(\A i \in Items : RowFades(i))
  <2>1. UNCHANGED <<row, link>>
    BY <1>26 DEF ResolveError, db, ram, net, actors, device, past
  <2> QED BY <2>1 DEF RowFades
<1>27. ASSUME NEW t \in Tasks, ResolveSettle(t) PROVE StartOr(\A i \in Items : RowFades(i))
  <2>1. link' = link /\ \A i \in Items : row'[i] = row[i] \/ (row'[i] = "gone" /\ row[i] = "completed")
    BY <1>27, SettleWrites DEF ResolveSettle
  <2> QED BY <2>1 DEF RowFades
<1>28. ASSUME NEW t \in Tasks, ResolveHold(t) PROVE StartOr(\A i \in Items : RowFades(i))
  <2>1. link' = link /\ \A i \in Items : row'[i] = row[i] \/ (row'[i] = "gone" /\ row[i] = "completed")
    BY <1>28, SettleWrites DEF ResolveHold
  <2> QED BY <2>1 DEF RowFades
<1>29. ASSUME NEW r \in Runs, NEW action \in {"clear", "repeat"}, AnswerPlate(r, action) PROVE StartOr(\A i \in Items : RowFades(i))
  <2> SUFFICES ASSUME NEW i \in Items PROVE RowFades(i)
    OBVIOUS
  <2>1. \/ row'[i] = row[i] /\ link'[i] = link[i]
        \/ link[i] = r /\ row[i] \in Terminal /\ row'[i] \in {"pending", "gone"}
    BY <1>29, AnswersWrite
  <2>2. gate = r
    BY <1>29 DEF AnswerPlate, Answerable
  <2> QED BY <1>29, <2>1, <2>2 DEF RowFades, Terminal
<1>30. ASSUME Resume PROVE StartOr(\A i \in Items : RowFades(i))
  <2>1. UNCHANGED <<row, link>>
    BY <1>30 DEF Resume, db, ram, net, actors, device, past
  <2> QED BY <2>1 DEF RowFades
<1>31. ASSUME Drop PROVE StartOr(\A i \in Items : RowFades(i))
  <2>1. UNCHANGED <<row, link>>
    BY <1>31 DEF Drop, db, ram, net, actors, device, past
  <2> QED BY <2>1 DEF RowFades
<1>32. ASSUME Connect PROVE StartOr(\A i \in Items : RowFades(i))
  <2>1. UNCHANGED <<row, link>>
    BY <1>32 DEF Connect, db, ram, net, actors, device, past
  <2> QED BY <2>1 DEF RowFades
<1>33. ASSUME Crash PROVE StartOr(\A i \in Items : RowFades(i))
  <2>1. UNCHANGED <<row, link>>
    BY <1>33 DEF Crash, db, ram, net, actors, device, past
  <2> QED BY <2>1 DEF RowFades
<1>34. ASSUME Restart PROVE StartOr(\A i \in Items : RowFades(i))
  <2>1. UNCHANGED <<row, link>>
    BY <1>34 DEF Restart, db, ram, net, actors, device, past
  <2> QED BY <2>1 DEF RowFades
<1>35. CASE UNCHANGED vars
  BY <1>35 DEF vars, RowFades, db, ram, net, actors, device, past
<1> QED
  BY <1>1, <1>2, <1>3, <1>4, <1>5, <1>6, <1>7, <1>8, <1>9, <1>10, <1>11, <1>12, <1>13, <1>14, <1>15, <1>16,
     <1>17, <1>18, <1>19, <1>20, <1>21, <1>22, <1>23, <1>24, <1>25, <1>26, <1>27, <1>28, <1>29, <1>30, <1>31,
     <1>32, <1>33, <1>34, <1>35
     DEF Next, Printer, Live, Operator, Sweep, Resolve

(* Nor does an archive begin to print, lose its marker or its answer. *)
LEMMA ArchsFade == OnceInv /\ SwapInv /\ [Next]_vars => StartOr(\A q \in Runs : ArchFades(q))
<1> SUFFICES ASSUME OnceInv, SwapInv, [Next]_vars PROVE StartOr(\A q \in Runs : ArchFades(q))
  OBVIOUS
<1> USE DEF StartOr
<1>1. ASSUME NEW i \in Items, Start(i) PROVE StartOr(\A q \in Runs : ArchFades(q))
  BY <1>1
<1>2. ASSUME NEW outcome \in Terminal, PrintEnds(outcome) PROVE StartOr(\A q \in Runs : ArchFades(q))
  <2>1. UNCHANGED arch
    BY <1>2 DEF PrintEnds, db, ram, net, actors, device, past
  <2> QED BY <2>1 DEF ArchFades
<1>3. ASSUME PrinterForgets PROVE StartOr(\A q \in Runs : ArchFades(q))
  <2>1. UNCHANGED arch
    BY <1>3 DEF PrinterForgets, db, ram, net, actors, device, past
  <2> QED BY <2>1 DEF ArchFades
<1>4. ASSUME NEW r \in Runs, PrinterSwaps(r) PROVE StartOr(\A q \in Runs : ArchFades(q))
  <2>1. UNCHANGED arch
    BY <1>4 DEF PrinterSwaps, db, ram, net, actors, device, past
  <2> QED BY <2>1 DEF ArchFades
<1>5. ASSUME Accept PROVE StartOr(\A q \in Runs : ArchFades(q))
  <2>1. /\ \A q \in Runs \ {report.run} : arch'[q] = arch[q]
        /\ arch[report.run].status = "printing"
        /\ arch'[report.run].status = "printing" /\ arch'[report.run].marker = "accepted"
        /\ arch'[report.run].baked = arch[report.run].baked /\ arch'[report.run].claim = arch[report.run].claim
    BY <1>5, Parts, AcceptWrites
  <2> SUFFICES ASSUME NEW q \in Runs PROVE ArchFades(q)
    OBVIOUS
  <2>2. CASE q = report.run
    BY <2>1, <2>2 DEF ArchFades, Terminal
  <2>3. CASE q # report.run
    <3>1. arch'[q] = arch[q]
      BY <2>1, <2>3
    <3> QED BY <3>1 DEF ArchFades
  <2> QED BY <2>2, <2>3
<1>6. ASSUME LiveDecide PROVE StartOr(\A q \in Runs : ArchFades(q))
  <2>1. UNCHANGED arch
    BY <1>6 DEF LiveDecide, db, ram, net, actors, device, past
  <2> QED BY <2>1 DEF ArchFades
<1>7. ASSUME LiveClaim PROVE StartOr(\A q \in Runs : ArchFades(q))
  <2> SUFFICES ASSUME NEW q \in Runs PROVE ArchFades(q)
    OBVIOUS
  <2>1. SameStory(q)
    BY <1>7, QuietKeeps DEF Quiet
  <2>2. arch' = arch \/ (arch' = [arch EXCEPT ![live.run].claim = "attempted"] /\ arch[live.run].claim # "finished")
    BY <1>7 DEF LiveClaim, ClaimIsFree, NothingSent
  <2>3. arch[q].claim = "finished" => arch'[q].claim = "finished"
    BY <2>2, Parts, ClaimWrites
  <2> QED BY <2>1, <2>3 DEF SameStory, ArchFades
<1>8. ASSUME LiveSend PROVE StartOr(\A q \in Runs : ArchFades(q))
  <2>1. UNCHANGED arch
    BY <1>8 DEF LiveSend, db, ram, net, actors, device, past
  <2> QED BY <2>1 DEF ArchFades
<1>9. ASSUME NEW ok \in BOOLEAN, LiveAnswer(ok) PROVE StartOr(\A q \in Runs : ArchFades(q))
  <2> SUFFICES ASSUME NEW q \in Runs PROVE ArchFades(q)
    OBVIOUS
  <2>0. arch' = [arch EXCEPT ![live.run] = Finished(@, ok)]
    BY <1>9 DEF LiveAnswer
  <2>3. ArchOK
    BY Parts
  <2>1. SameStory(q)
    BY <1>9, QuietKeeps DEF Quiet
  <2>4. q # live.run => arch'[q] = arch[q]
    BY <2>0, <2>3 DEF ArchOK
  <2>2. arch[live.run].claim # "finished"
    BY <1>9, Parts DEF LiveAnswer, LiveOwns, Owned
  <2> QED BY <2>1, <2>2, <2>4 DEF SameStory, ArchFades
<1>10. ASSUME LiveError PROVE StartOr(\A q \in Runs : ArchFades(q))
  <2>1. UNCHANGED arch
    BY <1>10 DEF LiveError, db, ram, net, actors, device, past
  <2> QED BY <2>1 DEF ArchFades
<1>11. ASSUME LiveHold PROVE StartOr(\A q \in Runs : ArchFades(q))
  <2> SUFFICES ASSUME NEW q \in Runs PROVE ArchFades(q)
    OBVIOUS
  <2>1. SameStory(q) /\ arch'[q].claim = arch[q].claim
    BY <1>11, Parts, HeldWrites DEF LiveHold
  <2> QED BY <2>1 DEF SameStory, ArchFades
<1>12. ASSUME LiveGate PROVE StartOr(\A q \in Runs : ArchFades(q))
  <2>1. UNCHANGED arch
    BY <1>12 DEF LiveGate, db, ram, net, actors, device, past
  <2> QED BY <2>1 DEF ArchFades
<1>13. ASSUME LiveFinalize PROVE StartOr(\A q \in Runs : ArchFades(q))
  <2> SUFFICES ASSUME NEW q \in Runs PROVE ArchFades(q)
    OBVIOUS
  <2>1. \/ arch'[q] = arch[q]
        \/ /\ arch'[q].status \in Terminal /\ arch'[q].marker = "db_finalized"
           /\ arch'[q].baked = arch[q].baked /\ arch'[q].claim = arch[q].claim
    BY <1>13, Parts, EndsWrites
  <2> QED BY <2>1 DEF ArchFades, Terminal
<1>14. ASSUME LiveTidy PROVE StartOr(\A q \in Runs : ArchFades(q))
  <2>1. UNCHANGED arch
    BY <1>14 DEF LiveTidy, db, ram, net, actors, device, past
  <2> QED BY <2>1 DEF ArchFades
<1>15. ASSUME NEW s \in Sweepers, SweepBegin(s) PROVE StartOr(\A q \in Runs : ArchFades(q))
  <2>1. UNCHANGED arch
    BY <1>15 DEF SweepBegin, db, ram, net, actors, device, past
  <2> QED BY <2>1 DEF ArchFades
<1>16. ASSUME NEW s \in Sweepers, SweepRepair(s) PROVE StartOr(\A q \in Runs : ArchFades(q))
  <2>1. UNCHANGED arch
    BY <1>16 DEF SweepRepair, db, ram, net, actors, device, past
  <2> QED BY <2>1 DEF ArchFades
<1>17. ASSUME NEW s \in Sweepers, NEW r \in Runs, SweepRecover(s, r) PROVE StartOr(\A q \in Runs : ArchFades(q))
  <2> SUFFICES ASSUME NEW q \in Runs PROVE ArchFades(q)
    OBVIOUS
  <2>1. \/ arch'[q] = arch[q]
        \/ /\ arch'[q].status \in Terminal /\ arch'[q].marker = "recovered_uncertain"
           /\ arch'[q].baked = arch[q].baked /\ arch'[q].claim = arch[q].claim
    BY <1>17, Parts, RecoverWrites
  <2> QED BY <2>1 DEF ArchFades, Terminal
<1>18. ASSUME NEW s \in Sweepers, NEW r \in Runs, SweepClose(s, r) PROVE StartOr(\A q \in Runs : ArchFades(q))
  <2> SUFFICES ASSUME NEW q \in Runs PROVE ArchFades(q)
    OBVIOUS
  <2>1. \/ arch'[q] = arch[q]
        \/ /\ arch'[q].status \in Terminal /\ arch'[q].marker = arch[q].marker
           /\ arch'[q].baked = arch[q].baked
           /\ arch'[q].claim = arch[q].claim \/ arch[q].claim = "none"
    BY <1>18, Parts, ClosingWrites
  <2> QED BY <2>1 DEF ArchFades, Terminal
<1>19. ASSUME NEW s \in Sweepers, SweepGate(s) PROVE StartOr(\A q \in Runs : ArchFades(q))
  <2>1. UNCHANGED arch
    BY <1>19 DEF SweepGate, db, ram, net, actors, device, past
  <2> QED BY <2>1 DEF ArchFades
<1>20. ASSUME NEW s \in Sweepers, SweepRow(s) PROVE StartOr(\A q \in Runs : ArchFades(q))
  <2>1. UNCHANGED arch
    BY <1>20 DEF SweepRow, db, ram, net, actors, device, past
  <2> QED BY <2>1 DEF ArchFades
<1>21. ASSUME NEW s \in Sweepers, SweepEnd(s) PROVE StartOr(\A q \in Runs : ArchFades(q))
  <2>1. UNCHANGED arch
    BY <1>21 DEF SweepEnd, db, ram, net, actors, device, past
  <2> QED BY <2>1 DEF ArchFades
<1>22. ASSUME NEW t \in Tasks, ResolveRead(t) PROVE StartOr(\A q \in Runs : ArchFades(q))
  <2>1. UNCHANGED arch
    BY <1>22 DEF ResolveRead, db, ram, net, actors, device, past
  <2> QED BY <2>1 DEF ArchFades
<1>23. ASSUME NEW t \in Tasks, ResolveClaim(t) PROVE StartOr(\A q \in Runs : ArchFades(q))
  <2> SUFFICES ASSUME NEW q \in Runs PROVE ArchFades(q)
    OBVIOUS
  <2>1. SameStory(q)
    BY <1>23, QuietKeeps DEF Quiet
  <2>2. arch' = arch \/ (arch' = [arch EXCEPT ![task[t].run].claim = "attempted"] /\ arch[task[t].run].claim # "finished")
    BY <1>23 DEF ResolveClaim, ClaimIsFree, NothingSent
  <2>3. arch[q].claim = "finished" => arch'[q].claim = "finished"
    BY <2>2, Parts, ClaimWrites
  <2> QED BY <2>1, <2>3 DEF SameStory, ArchFades
<1>24. ASSUME NEW t \in Tasks, ResolveSend(t) PROVE StartOr(\A q \in Runs : ArchFades(q))
  <2>1. UNCHANGED arch
    BY <1>24 DEF ResolveSend, db, ram, net, actors, device, past
  <2> QED BY <2>1 DEF ArchFades
<1>25. ASSUME NEW t \in Tasks, NEW ok \in BOOLEAN, ResolveAnswer(t, ok) PROVE StartOr(\A q \in Runs : ArchFades(q))
  <2> SUFFICES ASSUME NEW q \in Runs PROVE ArchFades(q)
    OBVIOUS
  <2>0. arch' = [arch EXCEPT ![task[t].run] = Finished(@, ok)]
    BY <1>25 DEF ResolveAnswer
  <2>3. ArchOK
    BY Parts
  <2>1. SameStory(q)
    BY <1>25, QuietKeeps DEF Quiet
  <2>4. q # task[t].run => arch'[q] = arch[q]
    BY <2>0, <2>3 DEF ArchOK
  <2>2. arch[task[t].run].claim # "finished"
    BY <1>25, Parts DEF ResolveAnswer, TaskOwns, Owned
  <2> QED BY <2>1, <2>2, <2>4 DEF SameStory, ArchFades
<1>26. ASSUME NEW t \in Tasks, ResolveError(t) PROVE StartOr(\A q \in Runs : ArchFades(q))
  <2>1. UNCHANGED arch
    BY <1>26 DEF ResolveError, db, ram, net, actors, device, past
  <2> QED BY <2>1 DEF ArchFades
<1>27. ASSUME NEW t \in Tasks, ResolveSettle(t) PROVE StartOr(\A q \in Runs : ArchFades(q))
  <2>1. UNCHANGED arch
    BY <1>27 DEF ResolveSettle, db, ram, net, actors, device, past
  <2> QED BY <2>1 DEF ArchFades
<1>28. ASSUME NEW t \in Tasks, ResolveHold(t) PROVE StartOr(\A q \in Runs : ArchFades(q))
  <2> SUFFICES ASSUME NEW q \in Runs PROVE ArchFades(q)
    OBVIOUS
  <2>1. SameStory(q) /\ arch'[q].claim = arch[q].claim
    BY <1>28, Parts, HeldWrites DEF ResolveHold
  <2> QED BY <2>1 DEF SameStory, ArchFades
<1>29. ASSUME NEW r \in Runs, NEW action \in {"clear", "repeat"}, AnswerPlate(r, action) PROVE StartOr(\A q \in Runs : ArchFades(q))
  <2>1. UNCHANGED arch
    BY <1>29 DEF AnswerPlate, db, ram, net, actors, device, past
  <2> QED BY <2>1 DEF ArchFades
<1>30. ASSUME Resume PROVE StartOr(\A q \in Runs : ArchFades(q))
  <2>1. UNCHANGED arch
    BY <1>30 DEF Resume, db, ram, net, actors, device, past
  <2> QED BY <2>1 DEF ArchFades
<1>31. ASSUME Drop PROVE StartOr(\A q \in Runs : ArchFades(q))
  <2>1. UNCHANGED arch
    BY <1>31 DEF Drop, db, ram, net, actors, device, past
  <2> QED BY <2>1 DEF ArchFades
<1>32. ASSUME Connect PROVE StartOr(\A q \in Runs : ArchFades(q))
  <2>1. UNCHANGED arch
    BY <1>32 DEF Connect, db, ram, net, actors, device, past
  <2> QED BY <2>1 DEF ArchFades
<1>33. ASSUME Crash PROVE StartOr(\A q \in Runs : ArchFades(q))
  <2>1. UNCHANGED arch
    BY <1>33 DEF Crash, db, ram, net, actors, device, past
  <2> QED BY <2>1 DEF ArchFades
<1>34. ASSUME Restart PROVE StartOr(\A q \in Runs : ArchFades(q))
  <2>1. UNCHANGED arch
    BY <1>34 DEF Restart, db, ram, net, actors, device, past
  <2> QED BY <2>1 DEF ArchFades
<1>35. CASE UNCHANGED vars
  BY <1>35 DEF vars, ArchFades, db, ram, net, actors, device, past
<1> QED
  BY <1>1, <1>2, <1>3, <1>4, <1>5, <1>6, <1>7, <1>8, <1>9, <1>10, <1>11, <1>12, <1>13, <1>14, <1>15, <1>16,
     <1>17, <1>18, <1>19, <1>20, <1>21, <1>22, <1>23, <1>24, <1>25, <1>26, <1>27, <1>28, <1>29, <1>30, <1>31,
     <1>32, <1>33, <1>34, <1>35
     DEF Next, Printer, Live, Operator, Sweep, Resolve


(* What the completion at work knows of its run does not change. *)
LiveStays ==
    live'.pc # "none" =>
        /\ live.pc # "none" /\ live'.run = live.run /\ live'.row = live.row /\ live'.outcome = live.outcome

LiveCase == live' = live \/ live' = NoLive \/ Live

(* Whose turn it was, seen from one sweep and from one resolution. *)
SweepCase(s) ==
    \/ sweep'[s] = sweep[s] \/ sweep'[s] = NoSweep
    \/ SweepBegin(s) \/ SweepRepair(s) \/ SweepGate(s) \/ SweepRow(s)
    \/ \E r \in Runs : SweepRecover(s, r) \/ SweepClose(s, r)

TaskCase(t) ==
    \/ task'[t] = task[t] \/ task'[t] = NoTask \/ Resolve(t) \/ \E s \in Sweepers : SweepEnd(s)

(* The printer, while it is given no print and ends none. *)
PrinterRests ==
    /\ ended' = ended /\ moved \subseteq moved' /\ (moved' = moved \/ onPlate' = FALSE)
    /\ onPlate' => onPlate
    /\ dev' = dev \/ dev'.state # "printing"
    /\ command' \cup moved' \subseteq command \cup moved \cup {r \in Runs : arch[r].claim = "attempted"}

LEMMA LiveFrame == OnceInv /\ SwapInv /\ [Next]_vars => Accept \/ LiveStays
<1> SUFFICES ASSUME OnceInv, SwapInv, [Next]_vars PROVE Accept \/ LiveStays
  OBVIOUS
<1>1. ASSUME NEW i \in Items, Start(i) PROVE Accept \/ LiveStays
  <2>1. UNCHANGED live
    BY <1>1 DEF Start, SetTask, db, ram, net, actors, device, past
  <2> QED BY <2>1 DEF LiveStays
<1>2. ASSUME NEW outcome \in Terminal, PrintEnds(outcome) PROVE Accept \/ LiveStays
  <2>1. UNCHANGED live
    BY <1>2 DEF PrintEnds, SetTask, db, ram, net, actors, device, past
  <2> QED BY <2>1 DEF LiveStays
<1>3. ASSUME PrinterForgets PROVE Accept \/ LiveStays
  <2>1. UNCHANGED live
    BY <1>3 DEF PrinterForgets, SetTask, db, ram, net, actors, device, past
  <2> QED BY <2>1 DEF LiveStays
<1>4. ASSUME NEW r \in Runs, PrinterSwaps(r) PROVE Accept \/ LiveStays
  <2>1. UNCHANGED live
    BY <1>4 DEF PrinterSwaps, SetTask, db, ram, net, actors, device, past
  <2> QED BY <2>1 DEF LiveStays
<1>5. ASSUME Accept PROVE Accept \/ LiveStays
  BY <1>5
<1>6. ASSUME LiveDecide PROVE Accept \/ LiveStays
  <2>1. LiveOK
    BY Parts
  <2>2. SameLive /\ live.pc # "none"
    BY <1>6, <2>1, DecideMoves
  <2> QED BY <2>2 DEF SameLive, LiveStays
<1>7. ASSUME LiveClaim PROVE Accept \/ LiveStays
  <2>1. LiveOK
    BY Parts
  <2>2. SameLive /\ live.pc # "none"
    BY <1>7, <2>1, ClaimMoves
  <2> QED BY <2>2 DEF SameLive, LiveStays
<1>8. ASSUME LiveSend PROVE Accept \/ LiveStays
  <2>1. LiveOK
    BY Parts
  <2>2. SameLive /\ live.pc # "none"
    BY <1>8, <2>1, SendMoves
  <2> QED BY <2>2 DEF SameLive, LiveStays
<1>9. ASSUME NEW ok \in BOOLEAN, LiveAnswer(ok) PROVE Accept \/ LiveStays
  <2>1. LiveOK
    BY Parts
  <2>2. SameLive /\ live.pc # "none"
    BY <1>9, <2>1, LiveAnswerMoves
  <2> QED BY <2>2 DEF SameLive, LiveStays
<1>10. ASSUME LiveError PROVE Accept \/ LiveStays
  <2>1. LiveOK
    BY Parts
  <2>2. SameLive /\ live.pc # "none"
    BY <1>10, <2>1, ErrorMoves
  <2> QED BY <2>2 DEF SameLive, LiveStays
<1>11. ASSUME LiveHold PROVE Accept \/ LiveStays
  <2>1. LiveOK
    BY Parts
  <2>2. SameLive /\ live.pc # "none"
    BY <1>11, <2>1, HoldMoves
  <2> QED BY <2>2 DEF SameLive, LiveStays
<1>12. ASSUME LiveGate PROVE Accept \/ LiveStays
  <2>1. LiveOK
    BY Parts
  <2>2. SameLive /\ live.pc # "none"
    BY <1>12, <2>1, LiveGateMoves
  <2> QED BY <2>2 DEF SameLive, LiveStays
<1>13. ASSUME LiveFinalize PROVE Accept \/ LiveStays
  <2>1. ArchOK /\ LiveOK /\ Known
    BY Parts
  <2>2. live.pc = "finalize" /\ (live' = NoLive \/ live' = [live EXCEPT !.pc = "tidy"])
    BY <1>13, <2>1, EndsWrites
  <2>3. CASE live' = NoLive
    BY <2>3, NoLiveFields DEF LiveStays
  <2>4. CASE live' = [live EXCEPT !.pc = "tidy"]
    BY <2>1, <2>2, <2>4, TidyFields DEF SameLive, LiveStays
  <2> QED BY <2>2, <2>3, <2>4
<1>14. ASSUME LiveTidy PROVE Accept \/ LiveStays
  BY <1>14, NoLiveFields DEF LiveTidy, LiveStays
<1>15. ASSUME NEW s \in Sweepers, SweepBegin(s) PROVE Accept \/ LiveStays
  <2>1. UNCHANGED live
    BY <1>15 DEF SweepBegin, SetTask, db, ram, net, actors, device, past
  <2> QED BY <2>1 DEF LiveStays
<1>16. ASSUME NEW s \in Sweepers, SweepRepair(s) PROVE Accept \/ LiveStays
  <2>1. UNCHANGED live
    BY <1>16 DEF SweepRepair, SetTask, db, ram, net, actors, device, past
  <2> QED BY <2>1 DEF LiveStays
<1>17. ASSUME NEW s \in Sweepers, NEW r \in Runs, SweepRecover(s, r) PROVE Accept \/ LiveStays
  <2>1. UNCHANGED live
    BY <1>17 DEF SweepRecover, SetTask, db, ram, net, actors, device, past
  <2> QED BY <2>1 DEF LiveStays
<1>18. ASSUME NEW s \in Sweepers, NEW r \in Runs, SweepClose(s, r) PROVE Accept \/ LiveStays
  <2>1. UNCHANGED live
    BY <1>18 DEF SweepClose, SetTask, db, ram, net, actors, device, past
  <2> QED BY <2>1 DEF LiveStays
<1>19. ASSUME NEW s \in Sweepers, SweepGate(s) PROVE Accept \/ LiveStays
  <2>1. UNCHANGED live
    BY <1>19 DEF SweepGate, SetTask, db, ram, net, actors, device, past
  <2> QED BY <2>1 DEF LiveStays
<1>20. ASSUME NEW s \in Sweepers, SweepRow(s) PROVE Accept \/ LiveStays
  <2>1. UNCHANGED live
    BY <1>20 DEF SweepRow, SetTask, db, ram, net, actors, device, past
  <2> QED BY <2>1 DEF LiveStays
<1>21. ASSUME NEW s \in Sweepers, SweepEnd(s) PROVE Accept \/ LiveStays
  <2>1. UNCHANGED live
    BY <1>21 DEF SweepEnd, SetTask, db, ram, net, actors, device, past
  <2> QED BY <2>1 DEF LiveStays
<1>22. ASSUME NEW t \in Tasks, ResolveRead(t) PROVE Accept \/ LiveStays
  <2>1. UNCHANGED live
    BY <1>22 DEF ResolveRead, SetTask, db, ram, net, actors, device, past
  <2> QED BY <2>1 DEF LiveStays
<1>23. ASSUME NEW t \in Tasks, ResolveClaim(t) PROVE Accept \/ LiveStays
  <2>1. UNCHANGED live
    BY <1>23 DEF ResolveClaim, SetTask, db, ram, net, actors, device, past
  <2> QED BY <2>1 DEF LiveStays
<1>24. ASSUME NEW t \in Tasks, ResolveSend(t) PROVE Accept \/ LiveStays
  <2>1. UNCHANGED live
    BY <1>24 DEF ResolveSend, SetTask, db, ram, net, actors, device, past
  <2> QED BY <2>1 DEF LiveStays
<1>25. ASSUME NEW t \in Tasks, NEW ok \in BOOLEAN, ResolveAnswer(t, ok) PROVE Accept \/ LiveStays
  <2>1. UNCHANGED live
    BY <1>25 DEF ResolveAnswer, SetTask, db, ram, net, actors, device, past
  <2> QED BY <2>1 DEF LiveStays
<1>26. ASSUME NEW t \in Tasks, ResolveError(t) PROVE Accept \/ LiveStays
  <2>1. UNCHANGED live
    BY <1>26 DEF ResolveError, SetTask, db, ram, net, actors, device, past
  <2> QED BY <2>1 DEF LiveStays
<1>27. ASSUME NEW t \in Tasks, ResolveSettle(t) PROVE Accept \/ LiveStays
  <2>1. UNCHANGED live
    BY <1>27 DEF ResolveSettle, SetTask, db, ram, net, actors, device, past
  <2> QED BY <2>1 DEF LiveStays
<1>28. ASSUME NEW t \in Tasks, ResolveHold(t) PROVE Accept \/ LiveStays
  <2>1. UNCHANGED live
    BY <1>28 DEF ResolveHold, SetTask, db, ram, net, actors, device, past
  <2> QED BY <2>1 DEF LiveStays
<1>29. ASSUME NEW r \in Runs, NEW action \in {"clear", "repeat"}, AnswerPlate(r, action) PROVE Accept \/ LiveStays
  <2>1. UNCHANGED live
    BY <1>29 DEF AnswerPlate, SetTask, db, ram, net, actors, device, past
  <2> QED BY <2>1 DEF LiveStays
<1>30. ASSUME Resume PROVE Accept \/ LiveStays
  <2>1. UNCHANGED live
    BY <1>30 DEF Resume, SetTask, db, ram, net, actors, device, past
  <2> QED BY <2>1 DEF LiveStays
<1>31. ASSUME Drop PROVE Accept \/ LiveStays
  <2>1. UNCHANGED live
    BY <1>31 DEF Drop, SetTask, db, ram, net, actors, device, past
  <2> QED BY <2>1 DEF LiveStays
<1>32. ASSUME Connect PROVE Accept \/ LiveStays
  <2>1. UNCHANGED live
    BY <1>32 DEF Connect, SetTask, db, ram, net, actors, device, past
  <2> QED BY <2>1 DEF LiveStays
<1>33. ASSUME Crash PROVE Accept \/ LiveStays
  BY <1>33, NoLiveFields DEF Crash, LiveStays
<1>34. ASSUME Restart PROVE Accept \/ LiveStays
  <2>1. UNCHANGED live
    BY <1>34 DEF Restart, SetTask, db, ram, net, actors, device, past
  <2> QED BY <2>1 DEF LiveStays
<1>35. CASE UNCHANGED vars
  BY <1>35 DEF vars, LiveStays, db, ram, net, actors, device, past
<1> QED
  BY <1>1, <1>2, <1>3, <1>4, <1>5, <1>6, <1>7, <1>8, <1>9, <1>10, <1>11, <1>12, <1>13, <1>14, <1>15, <1>16,
     <1>17, <1>18, <1>19, <1>20, <1>21, <1>22, <1>23, <1>24, <1>25, <1>26, <1>27, <1>28, <1>29, <1>30, <1>31,
     <1>32, <1>33, <1>34, <1>35
     DEF Next, Printer, Live, Operator, Sweep, Resolve

LEMMA LiveTurns == OnceInv /\ SwapInv /\ [Next]_vars => LiveCase
<1> SUFFICES ASSUME OnceInv, SwapInv, [Next]_vars PROVE LiveCase
  OBVIOUS
<1>1. ASSUME NEW i \in Items, Start(i) PROVE LiveCase
  <2>1. UNCHANGED live
    BY <1>1 DEF Start, SetTask, db, ram, net, actors, device, past
  <2> QED BY <2>1 DEF LiveCase
<1>2. ASSUME NEW outcome \in Terminal, PrintEnds(outcome) PROVE LiveCase
  <2>1. UNCHANGED live
    BY <1>2 DEF PrintEnds, SetTask, db, ram, net, actors, device, past
  <2> QED BY <2>1 DEF LiveCase
<1>3. ASSUME PrinterForgets PROVE LiveCase
  <2>1. UNCHANGED live
    BY <1>3 DEF PrinterForgets, SetTask, db, ram, net, actors, device, past
  <2> QED BY <2>1 DEF LiveCase
<1>4. ASSUME NEW r \in Runs, PrinterSwaps(r) PROVE LiveCase
  <2>1. UNCHANGED live
    BY <1>4 DEF PrinterSwaps, SetTask, db, ram, net, actors, device, past
  <2> QED BY <2>1 DEF LiveCase
<1>5. ASSUME Accept PROVE LiveCase
  BY <1>5 DEF Live, LiveCase
<1>6. ASSUME LiveDecide PROVE LiveCase
  BY <1>6 DEF Live, LiveCase
<1>7. ASSUME LiveClaim PROVE LiveCase
  BY <1>7 DEF Live, LiveCase
<1>8. ASSUME LiveSend PROVE LiveCase
  BY <1>8 DEF Live, LiveCase
<1>9. ASSUME NEW ok \in BOOLEAN, LiveAnswer(ok) PROVE LiveCase
  BY <1>9 DEF Live, LiveCase
<1>10. ASSUME LiveError PROVE LiveCase
  BY <1>10 DEF Live, LiveCase
<1>11. ASSUME LiveHold PROVE LiveCase
  BY <1>11 DEF Live, LiveCase
<1>12. ASSUME LiveGate PROVE LiveCase
  BY <1>12 DEF Live, LiveCase
<1>13. ASSUME LiveFinalize PROVE LiveCase
  BY <1>13 DEF Live, LiveCase
<1>14. ASSUME LiveTidy PROVE LiveCase
  BY <1>14 DEF LiveTidy, LiveCase
<1>15. ASSUME NEW s \in Sweepers, SweepBegin(s) PROVE LiveCase
  <2>1. UNCHANGED live
    BY <1>15 DEF SweepBegin, SetTask, db, ram, net, actors, device, past
  <2> QED BY <2>1 DEF LiveCase
<1>16. ASSUME NEW s \in Sweepers, SweepRepair(s) PROVE LiveCase
  <2>1. UNCHANGED live
    BY <1>16 DEF SweepRepair, SetTask, db, ram, net, actors, device, past
  <2> QED BY <2>1 DEF LiveCase
<1>17. ASSUME NEW s \in Sweepers, NEW r \in Runs, SweepRecover(s, r) PROVE LiveCase
  <2>1. UNCHANGED live
    BY <1>17 DEF SweepRecover, SetTask, db, ram, net, actors, device, past
  <2> QED BY <2>1 DEF LiveCase
<1>18. ASSUME NEW s \in Sweepers, NEW r \in Runs, SweepClose(s, r) PROVE LiveCase
  <2>1. UNCHANGED live
    BY <1>18 DEF SweepClose, SetTask, db, ram, net, actors, device, past
  <2> QED BY <2>1 DEF LiveCase
<1>19. ASSUME NEW s \in Sweepers, SweepGate(s) PROVE LiveCase
  <2>1. UNCHANGED live
    BY <1>19 DEF SweepGate, SetTask, db, ram, net, actors, device, past
  <2> QED BY <2>1 DEF LiveCase
<1>20. ASSUME NEW s \in Sweepers, SweepRow(s) PROVE LiveCase
  <2>1. UNCHANGED live
    BY <1>20 DEF SweepRow, SetTask, db, ram, net, actors, device, past
  <2> QED BY <2>1 DEF LiveCase
<1>21. ASSUME NEW s \in Sweepers, SweepEnd(s) PROVE LiveCase
  <2>1. UNCHANGED live
    BY <1>21 DEF SweepEnd, SetTask, db, ram, net, actors, device, past
  <2> QED BY <2>1 DEF LiveCase
<1>22. ASSUME NEW t \in Tasks, ResolveRead(t) PROVE LiveCase
  <2>1. UNCHANGED live
    BY <1>22 DEF ResolveRead, SetTask, db, ram, net, actors, device, past
  <2> QED BY <2>1 DEF LiveCase
<1>23. ASSUME NEW t \in Tasks, ResolveClaim(t) PROVE LiveCase
  <2>1. UNCHANGED live
    BY <1>23 DEF ResolveClaim, SetTask, db, ram, net, actors, device, past
  <2> QED BY <2>1 DEF LiveCase
<1>24. ASSUME NEW t \in Tasks, ResolveSend(t) PROVE LiveCase
  <2>1. UNCHANGED live
    BY <1>24 DEF ResolveSend, SetTask, db, ram, net, actors, device, past
  <2> QED BY <2>1 DEF LiveCase
<1>25. ASSUME NEW t \in Tasks, NEW ok \in BOOLEAN, ResolveAnswer(t, ok) PROVE LiveCase
  <2>1. UNCHANGED live
    BY <1>25 DEF ResolveAnswer, SetTask, db, ram, net, actors, device, past
  <2> QED BY <2>1 DEF LiveCase
<1>26. ASSUME NEW t \in Tasks, ResolveError(t) PROVE LiveCase
  <2>1. UNCHANGED live
    BY <1>26 DEF ResolveError, SetTask, db, ram, net, actors, device, past
  <2> QED BY <2>1 DEF LiveCase
<1>27. ASSUME NEW t \in Tasks, ResolveSettle(t) PROVE LiveCase
  <2>1. UNCHANGED live
    BY <1>27 DEF ResolveSettle, SetTask, db, ram, net, actors, device, past
  <2> QED BY <2>1 DEF LiveCase
<1>28. ASSUME NEW t \in Tasks, ResolveHold(t) PROVE LiveCase
  <2>1. UNCHANGED live
    BY <1>28 DEF ResolveHold, SetTask, db, ram, net, actors, device, past
  <2> QED BY <2>1 DEF LiveCase
<1>29. ASSUME NEW r \in Runs, NEW action \in {"clear", "repeat"}, AnswerPlate(r, action) PROVE LiveCase
  <2>1. UNCHANGED live
    BY <1>29 DEF AnswerPlate, SetTask, db, ram, net, actors, device, past
  <2> QED BY <2>1 DEF LiveCase
<1>30. ASSUME Resume PROVE LiveCase
  <2>1. UNCHANGED live
    BY <1>30 DEF Resume, SetTask, db, ram, net, actors, device, past
  <2> QED BY <2>1 DEF LiveCase
<1>31. ASSUME Drop PROVE LiveCase
  <2>1. UNCHANGED live
    BY <1>31 DEF Drop, SetTask, db, ram, net, actors, device, past
  <2> QED BY <2>1 DEF LiveCase
<1>32. ASSUME Connect PROVE LiveCase
  <2>1. UNCHANGED live
    BY <1>32 DEF Connect, SetTask, db, ram, net, actors, device, past
  <2> QED BY <2>1 DEF LiveCase
<1>33. ASSUME Crash PROVE LiveCase
  BY <1>33 DEF Crash, LiveCase
<1>34. ASSUME Restart PROVE LiveCase
  <2>1. UNCHANGED live
    BY <1>34 DEF Restart, SetTask, db, ram, net, actors, device, past
  <2> QED BY <2>1 DEF LiveCase
<1>35. CASE UNCHANGED vars
  BY <1>35 DEF vars, LiveCase, db, ram, net, actors, device, past
<1> QED
  BY <1>1, <1>2, <1>3, <1>4, <1>5, <1>6, <1>7, <1>8, <1>9, <1>10, <1>11, <1>12, <1>13, <1>14, <1>15, <1>16,
     <1>17, <1>18, <1>19, <1>20, <1>21, <1>22, <1>23, <1>24, <1>25, <1>26, <1>27, <1>28, <1>29, <1>30, <1>31,
     <1>32, <1>33, <1>34, <1>35
     DEF Next, Printer, Live, Operator, Sweep, Resolve

LEMMA SweepFrame == OnceInv /\ SwapInv /\ [Next]_vars => \A q \in Sweepers : SweepCase(q)
<1> SUFFICES ASSUME OnceInv, SwapInv, [Next]_vars PROVE \A q \in Sweepers : SweepCase(q)
  OBVIOUS
<1>1. ASSUME NEW i \in Items, Start(i) PROVE \A q \in Sweepers : SweepCase(q)
  <2>1. UNCHANGED sweep
    BY <1>1 DEF Start, SetTask, db, ram, net, actors, device, past
  <2> QED BY <2>1 DEF SweepCase
<1>2. ASSUME NEW outcome \in Terminal, PrintEnds(outcome) PROVE \A q \in Sweepers : SweepCase(q)
  <2>1. UNCHANGED sweep
    BY <1>2 DEF PrintEnds, SetTask, db, ram, net, actors, device, past
  <2> QED BY <2>1 DEF SweepCase
<1>3. ASSUME PrinterForgets PROVE \A q \in Sweepers : SweepCase(q)
  <2>1. UNCHANGED sweep
    BY <1>3 DEF PrinterForgets, SetTask, db, ram, net, actors, device, past
  <2> QED BY <2>1 DEF SweepCase
<1>4. ASSUME NEW r \in Runs, PrinterSwaps(r) PROVE \A q \in Sweepers : SweepCase(q)
  <2>1. UNCHANGED sweep
    BY <1>4 DEF PrinterSwaps, SetTask, db, ram, net, actors, device, past
  <2> QED BY <2>1 DEF SweepCase
<1>5. ASSUME Accept PROVE \A q \in Sweepers : SweepCase(q)
  <2>1. UNCHANGED sweep
    BY <1>5 DEF Accept, SetTask, db, ram, net, actors, device, past
  <2> QED BY <2>1 DEF SweepCase
<1>6. ASSUME LiveDecide PROVE \A q \in Sweepers : SweepCase(q)
  <2>1. UNCHANGED sweep
    BY <1>6 DEF LiveDecide, SetTask, db, ram, net, actors, device, past
  <2> QED BY <2>1 DEF SweepCase
<1>7. ASSUME LiveClaim PROVE \A q \in Sweepers : SweepCase(q)
  <2>1. UNCHANGED sweep
    BY <1>7 DEF LiveClaim, SetTask, db, ram, net, actors, device, past
  <2> QED BY <2>1 DEF SweepCase
<1>8. ASSUME LiveSend PROVE \A q \in Sweepers : SweepCase(q)
  <2>1. UNCHANGED sweep
    BY <1>8 DEF LiveSend, SetTask, db, ram, net, actors, device, past
  <2> QED BY <2>1 DEF SweepCase
<1>9. ASSUME NEW ok \in BOOLEAN, LiveAnswer(ok) PROVE \A q \in Sweepers : SweepCase(q)
  <2>1. UNCHANGED sweep
    BY <1>9 DEF LiveAnswer, SetTask, db, ram, net, actors, device, past
  <2> QED BY <2>1 DEF SweepCase
<1>10. ASSUME LiveError PROVE \A q \in Sweepers : SweepCase(q)
  <2>1. UNCHANGED sweep
    BY <1>10 DEF LiveError, SetTask, db, ram, net, actors, device, past
  <2> QED BY <2>1 DEF SweepCase
<1>11. ASSUME LiveHold PROVE \A q \in Sweepers : SweepCase(q)
  <2>1. UNCHANGED sweep
    BY <1>11 DEF LiveHold, SetTask, db, ram, net, actors, device, past
  <2> QED BY <2>1 DEF SweepCase
<1>12. ASSUME LiveGate PROVE \A q \in Sweepers : SweepCase(q)
  <2>1. UNCHANGED sweep
    BY <1>12 DEF LiveGate, SetTask, db, ram, net, actors, device, past
  <2> QED BY <2>1 DEF SweepCase
<1>13. ASSUME LiveFinalize PROVE \A q \in Sweepers : SweepCase(q)
  <2>1. UNCHANGED sweep
    BY <1>13 DEF LiveFinalize, SetTask, db, ram, net, actors, device, past
  <2> QED BY <2>1 DEF SweepCase
<1>14. ASSUME LiveTidy PROVE \A q \in Sweepers : SweepCase(q)
  <2>1. UNCHANGED sweep
    BY <1>14 DEF LiveTidy, SetTask, db, ram, net, actors, device, past
  <2> QED BY <2>1 DEF SweepCase
<1>15. ASSUME NEW s \in Sweepers, SweepBegin(s) PROVE \A q \in Sweepers : SweepCase(q)
  <2>1. \A q \in Sweepers \ {s} : sweep'[q] = sweep[q]
    BY <1>15, Parts DEF SweepBegin
  <2> SUFFICES ASSUME NEW q \in Sweepers, q = s PROVE SweepCase(q)
    BY <2>1 DEF SweepCase
  <2> QED BY <1>15 DEF SweepCase
<1>16. ASSUME NEW s \in Sweepers, SweepRepair(s) PROVE \A q \in Sweepers : SweepCase(q)
  <2>1. \A q \in Sweepers \ {s} : sweep'[q] = sweep[q]
    BY <1>16, Parts DEF SweepRepair
  <2> SUFFICES ASSUME NEW q \in Sweepers, q = s PROVE SweepCase(q)
    BY <2>1 DEF SweepCase
  <2> QED BY <1>16 DEF SweepCase
<1>17. ASSUME NEW s \in Sweepers, NEW r \in Runs, SweepRecover(s, r) PROVE \A q \in Sweepers : SweepCase(q)
  <2>1. \A q \in Sweepers \ {s} : sweep'[q] = sweep[q]
    BY <1>17, Parts DEF SweepRecover
  <2> SUFFICES ASSUME NEW q \in Sweepers, q = s PROVE SweepCase(q)
    BY <2>1 DEF SweepCase
  <2> QED BY <1>17 DEF SweepCase
<1>18. ASSUME NEW s \in Sweepers, NEW r \in Runs, SweepClose(s, r) PROVE \A q \in Sweepers : SweepCase(q)
  <2>1. \A q \in Sweepers \ {s} : sweep'[q] = sweep[q]
    BY <1>18, Parts DEF SweepClose
  <2> SUFFICES ASSUME NEW q \in Sweepers, q = s PROVE SweepCase(q)
    BY <2>1 DEF SweepCase
  <2> QED BY <1>18 DEF SweepCase
<1>19. ASSUME NEW s \in Sweepers, SweepGate(s) PROVE \A q \in Sweepers : SweepCase(q)
  <2>1. \A q \in Sweepers \ {s} : sweep'[q] = sweep[q]
    BY <1>19, Parts DEF SweepGate
  <2> SUFFICES ASSUME NEW q \in Sweepers, q = s PROVE SweepCase(q)
    BY <2>1 DEF SweepCase
  <2> QED BY <1>19 DEF SweepCase
<1>20. ASSUME NEW s \in Sweepers, SweepRow(s) PROVE \A q \in Sweepers : SweepCase(q)
  <2>1. \A q \in Sweepers \ {s} : sweep'[q] = sweep[q]
    BY <1>20, Parts DEF SweepRow
  <2> SUFFICES ASSUME NEW q \in Sweepers, q = s PROVE SweepCase(q)
    BY <2>1 DEF SweepCase
  <2> QED BY <1>20 DEF SweepCase
<1>21. ASSUME NEW s \in Sweepers, SweepEnd(s) PROVE \A q \in Sweepers : SweepCase(q)
  <2>1. sweep' = [sweep EXCEPT ![s] = NoSweep] /\ sweep \in [Sweepers -> SweepRec]
    BY <1>21, Parts DEF SweepEnd
  <2> QED BY <2>1 DEF SweepCase
<1>22. ASSUME NEW t \in Tasks, ResolveRead(t) PROVE \A q \in Sweepers : SweepCase(q)
  <2>1. UNCHANGED sweep
    BY <1>22 DEF ResolveRead, SetTask, db, ram, net, actors, device, past
  <2> QED BY <2>1 DEF SweepCase
<1>23. ASSUME NEW t \in Tasks, ResolveClaim(t) PROVE \A q \in Sweepers : SweepCase(q)
  <2>1. UNCHANGED sweep
    BY <1>23 DEF ResolveClaim, SetTask, db, ram, net, actors, device, past
  <2> QED BY <2>1 DEF SweepCase
<1>24. ASSUME NEW t \in Tasks, ResolveSend(t) PROVE \A q \in Sweepers : SweepCase(q)
  <2>1. UNCHANGED sweep
    BY <1>24 DEF ResolveSend, SetTask, db, ram, net, actors, device, past
  <2> QED BY <2>1 DEF SweepCase
<1>25. ASSUME NEW t \in Tasks, NEW ok \in BOOLEAN, ResolveAnswer(t, ok) PROVE \A q \in Sweepers : SweepCase(q)
  <2>1. UNCHANGED sweep
    BY <1>25 DEF ResolveAnswer, SetTask, db, ram, net, actors, device, past
  <2> QED BY <2>1 DEF SweepCase
<1>26. ASSUME NEW t \in Tasks, ResolveError(t) PROVE \A q \in Sweepers : SweepCase(q)
  <2>1. UNCHANGED sweep
    BY <1>26 DEF ResolveError, SetTask, db, ram, net, actors, device, past
  <2> QED BY <2>1 DEF SweepCase
<1>27. ASSUME NEW t \in Tasks, ResolveSettle(t) PROVE \A q \in Sweepers : SweepCase(q)
  <2>1. UNCHANGED sweep
    BY <1>27 DEF ResolveSettle, SetTask, db, ram, net, actors, device, past
  <2> QED BY <2>1 DEF SweepCase
<1>28. ASSUME NEW t \in Tasks, ResolveHold(t) PROVE \A q \in Sweepers : SweepCase(q)
  <2>1. UNCHANGED sweep
    BY <1>28 DEF ResolveHold, SetTask, db, ram, net, actors, device, past
  <2> QED BY <2>1 DEF SweepCase
<1>29. ASSUME NEW r \in Runs, NEW action \in {"clear", "repeat"}, AnswerPlate(r, action) PROVE \A q \in Sweepers : SweepCase(q)
  <2>1. UNCHANGED sweep
    BY <1>29 DEF AnswerPlate, SetTask, db, ram, net, actors, device, past
  <2> QED BY <2>1 DEF SweepCase
<1>30. ASSUME Resume PROVE \A q \in Sweepers : SweepCase(q)
  <2>1. UNCHANGED sweep
    BY <1>30 DEF Resume, SetTask, db, ram, net, actors, device, past
  <2> QED BY <2>1 DEF SweepCase
<1>31. ASSUME Drop PROVE \A q \in Sweepers : SweepCase(q)
  <2>1. UNCHANGED sweep
    BY <1>31 DEF Drop, SetTask, db, ram, net, actors, device, past
  <2> QED BY <2>1 DEF SweepCase
<1>32. ASSUME Connect PROVE \A q \in Sweepers : SweepCase(q)
  <2>1. UNCHANGED sweep
    BY <1>32 DEF Connect, SetTask, db, ram, net, actors, device, past
  <2> QED BY <2>1 DEF SweepCase
<1>33. ASSUME Crash PROVE \A q \in Sweepers : SweepCase(q)
  BY <1>33 DEF Crash, SweepCase
<1>34. ASSUME Restart PROVE \A q \in Sweepers : SweepCase(q)
  <2>1. UNCHANGED sweep
    BY <1>34 DEF Restart, SetTask, db, ram, net, actors, device, past
  <2> QED BY <2>1 DEF SweepCase
<1>35. CASE UNCHANGED vars
  BY <1>35 DEF vars, SweepCase, db, ram, net, actors, device, past
<1> QED
  BY <1>1, <1>2, <1>3, <1>4, <1>5, <1>6, <1>7, <1>8, <1>9, <1>10, <1>11, <1>12, <1>13, <1>14, <1>15, <1>16,
     <1>17, <1>18, <1>19, <1>20, <1>21, <1>22, <1>23, <1>24, <1>25, <1>26, <1>27, <1>28, <1>29, <1>30, <1>31,
     <1>32, <1>33, <1>34, <1>35
     DEF Next, Printer, Live, Operator, Sweep, Resolve

LEMMA TaskFrame == OnceInv /\ SwapInv /\ [Next]_vars => \A q \in Tasks : TaskCase(q)
<1> SUFFICES ASSUME OnceInv, SwapInv, [Next]_vars PROVE \A q \in Tasks : TaskCase(q)
  OBVIOUS
<1>1. ASSUME NEW i \in Items, Start(i) PROVE \A q \in Tasks : TaskCase(q)
  <2>1. UNCHANGED task
    BY <1>1 DEF Start, db, ram, net, actors, device, past
  <2> QED BY <2>1 DEF TaskCase
<1>2. ASSUME NEW outcome \in Terminal, PrintEnds(outcome) PROVE \A q \in Tasks : TaskCase(q)
  <2>1. UNCHANGED task
    BY <1>2 DEF PrintEnds, db, ram, net, actors, device, past
  <2> QED BY <2>1 DEF TaskCase
<1>3. ASSUME PrinterForgets PROVE \A q \in Tasks : TaskCase(q)
  <2>1. UNCHANGED task
    BY <1>3 DEF PrinterForgets, db, ram, net, actors, device, past
  <2> QED BY <2>1 DEF TaskCase
<1>4. ASSUME NEW r \in Runs, PrinterSwaps(r) PROVE \A q \in Tasks : TaskCase(q)
  <2>1. UNCHANGED task
    BY <1>4 DEF PrinterSwaps, db, ram, net, actors, device, past
  <2> QED BY <2>1 DEF TaskCase
<1>5. ASSUME Accept PROVE \A q \in Tasks : TaskCase(q)
  <2>1. UNCHANGED task
    BY <1>5 DEF Accept, db, ram, net, actors, device, past
  <2> QED BY <2>1 DEF TaskCase
<1>6. ASSUME LiveDecide PROVE \A q \in Tasks : TaskCase(q)
  <2>1. UNCHANGED task
    BY <1>6 DEF LiveDecide, db, ram, net, actors, device, past
  <2> QED BY <2>1 DEF TaskCase
<1>7. ASSUME LiveClaim PROVE \A q \in Tasks : TaskCase(q)
  <2>1. UNCHANGED task
    BY <1>7 DEF LiveClaim, db, ram, net, actors, device, past
  <2> QED BY <2>1 DEF TaskCase
<1>8. ASSUME LiveSend PROVE \A q \in Tasks : TaskCase(q)
  <2>1. UNCHANGED task
    BY <1>8 DEF LiveSend, db, ram, net, actors, device, past
  <2> QED BY <2>1 DEF TaskCase
<1>9. ASSUME NEW ok \in BOOLEAN, LiveAnswer(ok) PROVE \A q \in Tasks : TaskCase(q)
  <2>1. UNCHANGED task
    BY <1>9 DEF LiveAnswer, db, ram, net, actors, device, past
  <2> QED BY <2>1 DEF TaskCase
<1>10. ASSUME LiveError PROVE \A q \in Tasks : TaskCase(q)
  <2>1. UNCHANGED task
    BY <1>10 DEF LiveError, db, ram, net, actors, device, past
  <2> QED BY <2>1 DEF TaskCase
<1>11. ASSUME LiveHold PROVE \A q \in Tasks : TaskCase(q)
  <2>1. UNCHANGED task
    BY <1>11 DEF LiveHold, db, ram, net, actors, device, past
  <2> QED BY <2>1 DEF TaskCase
<1>12. ASSUME LiveGate PROVE \A q \in Tasks : TaskCase(q)
  <2>1. UNCHANGED task
    BY <1>12 DEF LiveGate, db, ram, net, actors, device, past
  <2> QED BY <2>1 DEF TaskCase
<1>13. ASSUME LiveFinalize PROVE \A q \in Tasks : TaskCase(q)
  <2>1. UNCHANGED task
    BY <1>13 DEF LiveFinalize, db, ram, net, actors, device, past
  <2> QED BY <2>1 DEF TaskCase
<1>14. ASSUME LiveTidy PROVE \A q \in Tasks : TaskCase(q)
  <2>1. UNCHANGED task
    BY <1>14 DEF LiveTidy, db, ram, net, actors, device, past
  <2> QED BY <2>1 DEF TaskCase
<1>15. ASSUME NEW s \in Sweepers, SweepBegin(s) PROVE \A q \in Tasks : TaskCase(q)
  <2>1. UNCHANGED task
    BY <1>15 DEF SweepBegin, db, ram, net, actors, device, past
  <2> QED BY <2>1 DEF TaskCase
<1>16. ASSUME NEW s \in Sweepers, SweepRepair(s) PROVE \A q \in Tasks : TaskCase(q)
  <2>1. UNCHANGED task
    BY <1>16 DEF SweepRepair, db, ram, net, actors, device, past
  <2> QED BY <2>1 DEF TaskCase
<1>17. ASSUME NEW s \in Sweepers, NEW r \in Runs, SweepRecover(s, r) PROVE \A q \in Tasks : TaskCase(q)
  <2>1. UNCHANGED task
    BY <1>17 DEF SweepRecover, db, ram, net, actors, device, past
  <2> QED BY <2>1 DEF TaskCase
<1>18. ASSUME NEW s \in Sweepers, NEW r \in Runs, SweepClose(s, r) PROVE \A q \in Tasks : TaskCase(q)
  <2>1. UNCHANGED task
    BY <1>18 DEF SweepClose, db, ram, net, actors, device, past
  <2> QED BY <2>1 DEF TaskCase
<1>19. ASSUME NEW s \in Sweepers, SweepGate(s) PROVE \A q \in Tasks : TaskCase(q)
  <2>1. UNCHANGED task
    BY <1>19 DEF SweepGate, db, ram, net, actors, device, past
  <2> QED BY <2>1 DEF TaskCase
<1>20. ASSUME NEW s \in Sweepers, SweepRow(s) PROVE \A q \in Tasks : TaskCase(q)
  <2>1. UNCHANGED task
    BY <1>20 DEF SweepRow, db, ram, net, actors, device, past
  <2> QED BY <2>1 DEF TaskCase
<1>21. ASSUME NEW s \in Sweepers, SweepEnd(s) PROVE \A q \in Tasks : TaskCase(q)
  BY <1>21 DEF TaskCase
<1>22. ASSUME NEW t \in Tasks, ResolveRead(t) PROVE \A q \in Tasks : TaskCase(q)
  <2>1. \A q \in Tasks \ {t} : task'[q] = task[q]
    BY <1>22, Parts DEF ResolveRead, SetTask, Settle
  <2>2. Resolve(t)
    BY <1>22 DEF Resolve
  <2> QED BY <2>1, <2>2 DEF TaskCase
<1>23. ASSUME NEW t \in Tasks, ResolveClaim(t) PROVE \A q \in Tasks : TaskCase(q)
  <2>1. \A q \in Tasks \ {t} : task'[q] = task[q]
    BY <1>23, Parts DEF ResolveClaim, SetTask, Settle
  <2>2. Resolve(t)
    BY <1>23 DEF Resolve
  <2> QED BY <2>1, <2>2 DEF TaskCase
<1>24. ASSUME NEW t \in Tasks, ResolveSend(t) PROVE \A q \in Tasks : TaskCase(q)
  <2>1. \A q \in Tasks \ {t} : task'[q] = task[q]
    BY <1>24, Parts DEF ResolveSend, SetTask, Settle
  <2>2. Resolve(t)
    BY <1>24 DEF Resolve
  <2> QED BY <2>1, <2>2 DEF TaskCase
<1>25. ASSUME NEW t \in Tasks, NEW ok \in BOOLEAN, ResolveAnswer(t, ok) PROVE \A q \in Tasks : TaskCase(q)
  <2>1. \A q \in Tasks \ {t} : task'[q] = task[q]
    BY <1>25, Parts DEF ResolveAnswer, SetTask, Settle
  <2>2. Resolve(t)
    BY <1>25 DEF Resolve
  <2> QED BY <2>1, <2>2 DEF TaskCase
<1>26. ASSUME NEW t \in Tasks, ResolveError(t) PROVE \A q \in Tasks : TaskCase(q)
  <2>1. \A q \in Tasks \ {t} : task'[q] = task[q]
    BY <1>26, Parts DEF ResolveError, SetTask, Settle
  <2>2. Resolve(t)
    BY <1>26 DEF Resolve
  <2> QED BY <2>1, <2>2 DEF TaskCase
<1>27. ASSUME NEW t \in Tasks, ResolveSettle(t) PROVE \A q \in Tasks : TaskCase(q)
  <2>1. \A q \in Tasks \ {t} : task'[q] = task[q]
    BY <1>27, Parts DEF ResolveSettle, SetTask, Settle
  <2>2. Resolve(t)
    BY <1>27 DEF Resolve
  <2> QED BY <2>1, <2>2 DEF TaskCase
<1>28. ASSUME NEW t \in Tasks, ResolveHold(t) PROVE \A q \in Tasks : TaskCase(q)
  <2>1. \A q \in Tasks \ {t} : task'[q] = task[q]
    BY <1>28, Parts DEF ResolveHold, SetTask, Settle
  <2>2. Resolve(t)
    BY <1>28 DEF Resolve
  <2> QED BY <2>1, <2>2 DEF TaskCase
<1>29. ASSUME NEW r \in Runs, NEW action \in {"clear", "repeat"}, AnswerPlate(r, action) PROVE \A q \in Tasks : TaskCase(q)
  <2>1. UNCHANGED task
    BY <1>29 DEF AnswerPlate, db, ram, net, actors, device, past
  <2> QED BY <2>1 DEF TaskCase
<1>30. ASSUME Resume PROVE \A q \in Tasks : TaskCase(q)
  <2>1. UNCHANGED task
    BY <1>30 DEF Resume, db, ram, net, actors, device, past
  <2> QED BY <2>1 DEF TaskCase
<1>31. ASSUME Drop PROVE \A q \in Tasks : TaskCase(q)
  <2>1. UNCHANGED task
    BY <1>31 DEF Drop, db, ram, net, actors, device, past
  <2> QED BY <2>1 DEF TaskCase
<1>32. ASSUME Connect PROVE \A q \in Tasks : TaskCase(q)
  <2>1. UNCHANGED task
    BY <1>32 DEF Connect, db, ram, net, actors, device, past
  <2> QED BY <2>1 DEF TaskCase
<1>33. ASSUME Crash PROVE \A q \in Tasks : TaskCase(q)
  BY <1>33 DEF Crash, TaskCase
<1>34. ASSUME Restart PROVE \A q \in Tasks : TaskCase(q)
  <2>1. UNCHANGED task
    BY <1>34 DEF Restart, db, ram, net, actors, device, past
  <2> QED BY <2>1 DEF TaskCase
<1>35. CASE UNCHANGED vars
  BY <1>35 DEF vars, TaskCase, db, ram, net, actors, device, past
<1> QED
  BY <1>1, <1>2, <1>3, <1>4, <1>5, <1>6, <1>7, <1>8, <1>9, <1>10, <1>11, <1>12, <1>13, <1>14, <1>15, <1>16,
     <1>17, <1>18, <1>19, <1>20, <1>21, <1>22, <1>23, <1>24, <1>25, <1>26, <1>27, <1>28, <1>29, <1>30, <1>31,
     <1>32, <1>33, <1>34, <1>35
     DEF Next, Printer, Live, Operator, Sweep, Resolve

LEMMA PrinterFrame == OnceInv /\ SwapInv /\ [Next]_vars => StartOr((\E o \in Terminal : PrintEnds(o)) \/ PrinterRests)
<1> SUFFICES ASSUME OnceInv, SwapInv, [Next]_vars PROVE StartOr((\E o \in Terminal : PrintEnds(o)) \/ PrinterRests)
  OBVIOUS
<1> USE DEF StartOr
<1>1. ASSUME NEW i \in Items, Start(i) PROVE StartOr((\E o \in Terminal : PrintEnds(o)) \/ PrinterRests)
  BY <1>1
<1>2. ASSUME NEW outcome \in Terminal, PrintEnds(outcome) PROVE StartOr((\E o \in Terminal : PrintEnds(o)) \/ PrinterRests)
  BY <1>2
<1>3. ASSUME PrinterForgets PROVE StartOr((\E o \in Terminal : PrintEnds(o)) \/ PrinterRests)
  <2>1. UNCHANGED <<ended, moved, onPlate, command>> /\ dev'.state # "printing"
    BY <1>3 DEF PrinterForgets, past
  <2> QED BY <2>1 DEF PrinterRests
<1>4. ASSUME NEW r \in Runs, PrinterSwaps(r) PROVE StartOr((\E o \in Terminal : PrintEnds(o)) \/ PrinterRests)
  <2>1. /\ UNCHANGED <<ended, dev>> /\ moved \subseteq moved'
        /\ command' \cup moved' \subseteq command \cup moved
    BY <1>4 DEF PrinterSwaps, past
  <2>2. (onPlate' => onPlate) /\ (moved' = moved \/ onPlate' = FALSE)
    BY <1>4 DEF PrinterSwaps
  <2> QED BY <2>1, <2>2 DEF PrinterRests
<1>5. ASSUME Accept PROVE StartOr((\E o \in Terminal : PrintEnds(o)) \/ PrinterRests)
  <2>1. UNCHANGED <<ended, moved, onPlate, dev, command>>
    BY <1>5 DEF Accept, SetTask, db, ram, net, actors, device, past
  <2> QED BY <2>1 DEF PrinterRests
<1>6. ASSUME LiveDecide PROVE StartOr((\E o \in Terminal : PrintEnds(o)) \/ PrinterRests)
  <2>1. UNCHANGED <<ended, moved, onPlate, dev, command>>
    BY <1>6 DEF LiveDecide, SetTask, db, ram, net, actors, device, past
  <2> QED BY <2>1 DEF PrinterRests
<1>7. ASSUME LiveClaim PROVE StartOr((\E o \in Terminal : PrintEnds(o)) \/ PrinterRests)
  <2>1. UNCHANGED <<ended, moved, onPlate, dev, command>>
    BY <1>7 DEF LiveClaim, SetTask, db, ram, net, actors, device, past
  <2> QED BY <2>1 DEF PrinterRests
<1>8. ASSUME LiveSend PROVE StartOr((\E o \in Terminal : PrintEnds(o)) \/ PrinterRests)
  <2>1. UNCHANGED <<ended, moved, onPlate, dev>>
    BY <1>8 DEF LiveSend
  <2>2. command' = command \cup {live.run}
    BY <1>8 DEF LiveSend
  <2>3. arch[live.run].claim = "attempted" /\ live.run \in Runs
    BY <1>8, Parts DEF LiveSend, LiveTruth, LiveOwns, TaskOwns, Owned
  <2> QED BY <2>1, <2>2, <2>3 DEF PrinterRests
<1>9. ASSUME NEW ok \in BOOLEAN, LiveAnswer(ok) PROVE StartOr((\E o \in Terminal : PrintEnds(o)) \/ PrinterRests)
  <2>1. UNCHANGED <<ended, moved, onPlate, dev, command>>
    BY <1>9 DEF LiveAnswer, SetTask, db, ram, net, actors, device, past
  <2> QED BY <2>1 DEF PrinterRests
<1>10. ASSUME LiveError PROVE StartOr((\E o \in Terminal : PrintEnds(o)) \/ PrinterRests)
  <2>1. UNCHANGED <<ended, moved, onPlate, dev, command>>
    BY <1>10 DEF LiveError, SetTask, db, ram, net, actors, device, past
  <2> QED BY <2>1 DEF PrinterRests
<1>11. ASSUME LiveHold PROVE StartOr((\E o \in Terminal : PrintEnds(o)) \/ PrinterRests)
  <2>1. UNCHANGED <<ended, moved, onPlate, dev, command>>
    BY <1>11 DEF LiveHold, SetTask, db, ram, net, actors, device, past
  <2> QED BY <2>1 DEF PrinterRests
<1>12. ASSUME LiveGate PROVE StartOr((\E o \in Terminal : PrintEnds(o)) \/ PrinterRests)
  <2>1. UNCHANGED <<ended, moved, onPlate, dev, command>>
    BY <1>12 DEF LiveGate, SetTask, db, ram, net, actors, device, past
  <2> QED BY <2>1 DEF PrinterRests
<1>13. ASSUME LiveFinalize PROVE StartOr((\E o \in Terminal : PrintEnds(o)) \/ PrinterRests)
  <2>1. UNCHANGED <<ended, moved, onPlate, dev, command>>
    BY <1>13 DEF LiveFinalize, SetTask, db, ram, net, actors, device, past
  <2> QED BY <2>1 DEF PrinterRests
<1>14. ASSUME LiveTidy PROVE StartOr((\E o \in Terminal : PrintEnds(o)) \/ PrinterRests)
  <2>1. UNCHANGED <<ended, moved, onPlate, dev, command>>
    BY <1>14 DEF LiveTidy, SetTask, db, ram, net, actors, device, past
  <2> QED BY <2>1 DEF PrinterRests
<1>15. ASSUME NEW s \in Sweepers, SweepBegin(s) PROVE StartOr((\E o \in Terminal : PrintEnds(o)) \/ PrinterRests)
  <2>1. UNCHANGED <<ended, moved, onPlate, dev, command>>
    BY <1>15 DEF SweepBegin, SetTask, db, ram, net, actors, device, past
  <2> QED BY <2>1 DEF PrinterRests
<1>16. ASSUME NEW s \in Sweepers, SweepRepair(s) PROVE StartOr((\E o \in Terminal : PrintEnds(o)) \/ PrinterRests)
  <2>1. UNCHANGED <<ended, moved, onPlate, dev, command>>
    BY <1>16 DEF SweepRepair, SetTask, db, ram, net, actors, device, past
  <2> QED BY <2>1 DEF PrinterRests
<1>17. ASSUME NEW s \in Sweepers, NEW r \in Runs, SweepRecover(s, r) PROVE StartOr((\E o \in Terminal : PrintEnds(o)) \/ PrinterRests)
  <2>1. UNCHANGED <<ended, moved, onPlate, dev, command>>
    BY <1>17 DEF SweepRecover, SetTask, db, ram, net, actors, device, past
  <2> QED BY <2>1 DEF PrinterRests
<1>18. ASSUME NEW s \in Sweepers, NEW r \in Runs, SweepClose(s, r) PROVE StartOr((\E o \in Terminal : PrintEnds(o)) \/ PrinterRests)
  <2>1. UNCHANGED <<ended, moved, onPlate, dev, command>>
    BY <1>18 DEF SweepClose, SetTask, db, ram, net, actors, device, past
  <2> QED BY <2>1 DEF PrinterRests
<1>19. ASSUME NEW s \in Sweepers, SweepGate(s) PROVE StartOr((\E o \in Terminal : PrintEnds(o)) \/ PrinterRests)
  <2>1. UNCHANGED <<ended, moved, onPlate, dev, command>>
    BY <1>19 DEF SweepGate, SetTask, db, ram, net, actors, device, past
  <2> QED BY <2>1 DEF PrinterRests
<1>20. ASSUME NEW s \in Sweepers, SweepRow(s) PROVE StartOr((\E o \in Terminal : PrintEnds(o)) \/ PrinterRests)
  <2>1. UNCHANGED <<ended, moved, onPlate, dev, command>>
    BY <1>20 DEF SweepRow, SetTask, db, ram, net, actors, device, past
  <2> QED BY <2>1 DEF PrinterRests
<1>21. ASSUME NEW s \in Sweepers, SweepEnd(s) PROVE StartOr((\E o \in Terminal : PrintEnds(o)) \/ PrinterRests)
  <2>1. UNCHANGED <<ended, moved, onPlate, dev, command>>
    BY <1>21 DEF SweepEnd, SetTask, db, ram, net, actors, device, past
  <2> QED BY <2>1 DEF PrinterRests
<1>22. ASSUME NEW t \in Tasks, ResolveRead(t) PROVE StartOr((\E o \in Terminal : PrintEnds(o)) \/ PrinterRests)
  <2>1. UNCHANGED <<ended, moved, onPlate, dev, command>>
    BY <1>22 DEF ResolveRead, SetTask, db, ram, net, actors, device, past
  <2> QED BY <2>1 DEF PrinterRests
<1>23. ASSUME NEW t \in Tasks, ResolveClaim(t) PROVE StartOr((\E o \in Terminal : PrintEnds(o)) \/ PrinterRests)
  <2>1. UNCHANGED <<ended, moved, onPlate, dev, command>>
    BY <1>23 DEF ResolveClaim, SetTask, db, ram, net, actors, device, past
  <2> QED BY <2>1 DEF PrinterRests
<1>24. ASSUME NEW t \in Tasks, ResolveSend(t) PROVE StartOr((\E o \in Terminal : PrintEnds(o)) \/ PrinterRests)
  <2>1. UNCHANGED <<ended, moved, onPlate, dev>>
    BY <1>24 DEF ResolveSend
  <2>2. command' = command \cup {task[t].run}
    BY <1>24 DEF ResolveSend
  <2>3. arch[task[t].run].claim = "attempted" /\ task[t].run \in Runs
    BY <1>24, Parts DEF ResolveSend, LiveTruth, LiveOwns, TaskOwns, Owned
  <2> QED BY <2>1, <2>2, <2>3 DEF PrinterRests
<1>25. ASSUME NEW t \in Tasks, NEW ok \in BOOLEAN, ResolveAnswer(t, ok) PROVE StartOr((\E o \in Terminal : PrintEnds(o)) \/ PrinterRests)
  <2>1. UNCHANGED <<ended, moved, onPlate, dev, command>>
    BY <1>25 DEF ResolveAnswer, SetTask, db, ram, net, actors, device, past
  <2> QED BY <2>1 DEF PrinterRests
<1>26. ASSUME NEW t \in Tasks, ResolveError(t) PROVE StartOr((\E o \in Terminal : PrintEnds(o)) \/ PrinterRests)
  <2>1. UNCHANGED <<ended, moved, onPlate, dev, command>>
    BY <1>26 DEF ResolveError, SetTask, db, ram, net, actors, device, past
  <2> QED BY <2>1 DEF PrinterRests
<1>27. ASSUME NEW t \in Tasks, ResolveSettle(t) PROVE StartOr((\E o \in Terminal : PrintEnds(o)) \/ PrinterRests)
  <2>1. UNCHANGED <<ended, moved, onPlate, dev, command>>
    BY <1>27 DEF ResolveSettle, SetTask, db, ram, net, actors, device, past
  <2> QED BY <2>1 DEF PrinterRests
<1>28. ASSUME NEW t \in Tasks, ResolveHold(t) PROVE StartOr((\E o \in Terminal : PrintEnds(o)) \/ PrinterRests)
  <2>1. UNCHANGED <<ended, moved, onPlate, dev, command>>
    BY <1>28 DEF ResolveHold, SetTask, db, ram, net, actors, device, past
  <2> QED BY <2>1 DEF PrinterRests
<1>29. ASSUME NEW r \in Runs, NEW action \in {"clear", "repeat"}, AnswerPlate(r, action) PROVE StartOr((\E o \in Terminal : PrintEnds(o)) \/ PrinterRests)
  <2>1. UNCHANGED <<ended, moved, dev, command>> /\ onPlate' = FALSE
    BY <1>29 DEF AnswerPlate, past
  <2> QED BY <2>1 DEF PrinterRests
<1>30. ASSUME Resume PROVE StartOr((\E o \in Terminal : PrintEnds(o)) \/ PrinterRests)
  <2>1. UNCHANGED <<ended, moved, dev, command>> /\ onPlate' = FALSE
    BY <1>30 DEF Resume, past
  <2> QED BY <2>1 DEF PrinterRests
<1>31. ASSUME Drop PROVE StartOr((\E o \in Terminal : PrintEnds(o)) \/ PrinterRests)
  <2>1. UNCHANGED <<ended, moved, onPlate, dev, command>>
    BY <1>31 DEF Drop, SetTask, db, ram, net, actors, device, past
  <2> QED BY <2>1 DEF PrinterRests
<1>32. ASSUME Connect PROVE StartOr((\E o \in Terminal : PrintEnds(o)) \/ PrinterRests)
  <2>1. UNCHANGED <<ended, moved, onPlate, dev, command>>
    BY <1>32 DEF Connect, SetTask, db, ram, net, actors, device, past
  <2> QED BY <2>1 DEF PrinterRests
<1>33. ASSUME Crash PROVE StartOr((\E o \in Terminal : PrintEnds(o)) \/ PrinterRests)
  <2>1. UNCHANGED <<ended, moved, onPlate, dev, command>>
    BY <1>33 DEF Crash, SetTask, db, ram, net, actors, device, past
  <2> QED BY <2>1 DEF PrinterRests
<1>34. ASSUME Restart PROVE StartOr((\E o \in Terminal : PrintEnds(o)) \/ PrinterRests)
  <2>1. UNCHANGED <<ended, moved, onPlate, dev, command>>
    BY <1>34 DEF Restart, SetTask, db, ram, net, actors, device, past
  <2> QED BY <2>1 DEF PrinterRests
<1>35. CASE UNCHANGED vars
  BY <1>35 DEF vars, PrinterRests, db, ram, net, actors, device, past
<1> QED
  BY <1>1, <1>2, <1>3, <1>4, <1>5, <1>6, <1>7, <1>8, <1>9, <1>10, <1>11, <1>12, <1>13, <1>14, <1>15, <1>16,
     <1>17, <1>18, <1>19, <1>20, <1>21, <1>22, <1>23, <1>24, <1>25, <1>26, <1>27, <1>28, <1>29, <1>30, <1>31,
     <1>32, <1>33, <1>34, <1>35
     DEF Next, Printer, Live, Operator, Sweep, Resolve


(* What becomes of the claim on a swap, and of the swap owed. *)
ClaimCase(q) ==
    \/ /\ arch'[q].owes = arch[q].owes
       /\ \/ arch'[q].claim = arch[q].claim
          \/ arch[q].claim = "none" /\ arch'[q].claim = "owed" /\ arch'[q].status # "printing"
          \/ LiveClaim /\ q = live.run /\ arch[q].claim \in Unsent /\ arch'[q].claim = "attempted" /\ live'.pc = "send"
          \/ /\ arch[q].claim \in Unsent /\ arch'[q].claim = "attempted"
             /\ \E t \in Tasks : ResolveClaim(t) /\ q = task[t].run /\ HoldsItsPrinter(q, "completed")
    \/ /\ arch[q].claim = "attempted" /\ arch'[q].owes = FALSE
       /\ \E ok \in BOOLEAN :
             /\ arch'[q].claim = (IF ok THEN "finished" ELSE "failed")
             /\ \/ LiveAnswer(ok) /\ q = live.run
                \/ \E t \in Tasks : ResolveAnswer(t, ok) /\ q = task[t].run

LEMMA ClaimFrame == OnceInv /\ SwapInv /\ [Next]_vars => StartOr(\A q \in Runs : ClaimCase(q))
<1> SUFFICES ASSUME OnceInv, SwapInv, [Next]_vars PROVE StartOr(\A q \in Runs : ClaimCase(q))
  OBVIOUS
<1> USE DEF StartOr
<1>1. ASSUME NEW i \in Items, Start(i) PROVE StartOr(\A q \in Runs : ClaimCase(q))
  BY <1>1
<1>2. ASSUME NEW outcome \in Terminal, PrintEnds(outcome) PROVE StartOr(\A q \in Runs : ClaimCase(q))
  <2>1. UNCHANGED arch
    BY <1>2 DEF PrintEnds, db, ram, net, actors, device, past
  <2> QED BY <2>1 DEF ClaimCase
<1>3. ASSUME PrinterForgets PROVE StartOr(\A q \in Runs : ClaimCase(q))
  <2>1. UNCHANGED arch
    BY <1>3 DEF PrinterForgets, db, ram, net, actors, device, past
  <2> QED BY <2>1 DEF ClaimCase
<1>4. ASSUME NEW r \in Runs, PrinterSwaps(r) PROVE StartOr(\A q \in Runs : ClaimCase(q))
  <2>1. UNCHANGED arch
    BY <1>4 DEF PrinterSwaps, db, ram, net, actors, device, past
  <2> QED BY <2>1 DEF ClaimCase
<1>5. ASSUME Accept PROVE StartOr(\A q \in Runs : ClaimCase(q))
  <2>1. arch' = [arch EXCEPT ![report.run] = [arch[report.run] EXCEPT !.marker = "accepted", !.outcome = report.outcome]]
    BY <1>5 DEF Accept
  <2> SUFFICES ASSUME NEW q \in Runs PROVE arch'[q].owes = arch[q].owes /\ arch'[q].claim = arch[q].claim
    BY DEF ClaimCase
  <2>2. ArchOK /\ arch[q] \in ArchRec
    BY Parts
  <2>3. arch'[q] = arch[q] \/ arch'[q] = [arch[q] EXCEPT !.marker = "accepted", !.outcome = report.outcome]
    BY <2>1, <2>2 DEF ArchOK
  <2> QED BY <2>2, <2>3 DEF ArchRec
<1>6. ASSUME LiveDecide PROVE StartOr(\A q \in Runs : ClaimCase(q))
  <2>1. UNCHANGED arch
    BY <1>6 DEF LiveDecide, db, ram, net, actors, device, past
  <2> QED BY <2>1 DEF ClaimCase
<1>7. ASSUME LiveClaim PROVE StartOr(\A q \in Runs : ClaimCase(q))
  <2> SUFFICES ASSUME NEW q \in Runs PROVE ClaimCase(q)
    OBVIOUS
  <2>1. ArchOK /\ LiveOK
    BY Parts
  <2>2. CASE arch' = arch
    BY <2>2 DEF ClaimCase
  <2>3. CASE arch' # arch
    <3>1. arch' = [arch EXCEPT ![live.run].claim = "attempted"] /\ arch[live.run].claim \in Unsent
      BY <1>7, <2>3 DEF LiveClaim, ClaimIsFree, NothingSent, Unsent
    <3>2. live'.pc = "send"
      BY <1>7, <2>1, <2>3 DEF LiveClaim, LiveOK, LiveRec
    <3>3. /\ arch'[q].owes = arch[q].owes
          /\ arch'[q].claim = arch[q].claim \/ (q = live.run /\ arch'[q].claim = "attempted")
      BY <2>1, <3>1, ClaimWrites
    <3> QED BY <1>7, <3>1, <3>2, <3>3 DEF ClaimCase
  <2> QED BY <2>2, <2>3
<1>8. ASSUME LiveSend PROVE StartOr(\A q \in Runs : ClaimCase(q))
  <2>1. UNCHANGED arch
    BY <1>8 DEF LiveSend, db, ram, net, actors, device, past
  <2> QED BY <2>1 DEF ClaimCase
<1>9. ASSUME NEW ok \in BOOLEAN, LiveAnswer(ok) PROVE StartOr(\A q \in Runs : ClaimCase(q))
  <2> SUFFICES ASSUME NEW q \in Runs PROVE ClaimCase(q)
    OBVIOUS
  <2>1. ArchOK /\ arch[q] \in ArchRec
    BY Parts
  <2>2. arch' = [arch EXCEPT ![live.run] = Finished(@, ok)]
    BY <1>9 DEF LiveAnswer
  <2>3. CASE q = live.run
    <3>1. arch[q].claim = "attempted"
      BY <1>9, <2>3, Parts DEF LiveAnswer, LiveOwns, TaskOwns, Owned
    <3>2. arch'[q] = Finished(arch[q], ok)
      BY <2>1, <2>2, <2>3 DEF ArchOK
    <3>3. arch'[q].claim = (IF ok THEN "finished" ELSE "failed") /\ arch'[q].owes = FALSE
      <4> DEFINE a == arch[q]
                 b == arch'[q]
      <4>1. a \in ArchRec /\ b = Finished(a, ok) /\ ok \in BOOLEAN
        BY <1>9, <2>1, <3>2
      <4> HIDE DEF a, b
      <4>2. b.claim = (IF ok THEN "finished" ELSE "failed") /\ b.owes = FALSE
        BY <4>1, FinishedFields
      <4> QED BY <4>2 DEF b
    <3> QED BY <1>9, <2>3, <3>1, <3>3 DEF ClaimCase
  <2>4. CASE q # live.run
    <3>1. arch'[q] = arch[q]
      BY <2>1, <2>2, <2>4 DEF ArchOK
    <3> QED BY <3>1 DEF ClaimCase
  <2> QED BY <2>3, <2>4
<1>10. ASSUME LiveError PROVE StartOr(\A q \in Runs : ClaimCase(q))
  <2>1. UNCHANGED arch
    BY <1>10 DEF LiveError, db, ram, net, actors, device, past
  <2> QED BY <2>1 DEF ClaimCase
<1>11. ASSUME LiveHold PROVE StartOr(\A q \in Runs : ClaimCase(q))
  <2> SUFFICES ASSUME NEW q \in Runs PROVE arch'[q].owes = arch[q].owes /\ arch'[q].claim = arch[q].claim
    BY DEF ClaimCase
  <2>1. ArchOK /\ arch' = [arch EXCEPT ![live.run].held = TRUE]
    BY <1>11, Parts DEF LiveHold
  <2> QED BY <2>1, HeldWrites
<1>12. ASSUME LiveGate PROVE StartOr(\A q \in Runs : ClaimCase(q))
  <2>1. UNCHANGED arch
    BY <1>12 DEF LiveGate, db, ram, net, actors, device, past
  <2> QED BY <2>1 DEF ClaimCase
<1>13. ASSUME LiveFinalize PROVE StartOr(\A q \in Runs : ClaimCase(q))
  <2> SUFFICES ASSUME NEW q \in Runs PROVE arch'[q].owes = arch[q].owes /\ arch'[q].claim = arch[q].claim
    BY DEF ClaimCase
  <2>1. ArchOK /\ LiveOK /\ Known
    BY Parts
  <2> QED BY <1>13, <2>1, EndsWrites
<1>14. ASSUME LiveTidy PROVE StartOr(\A q \in Runs : ClaimCase(q))
  <2>1. UNCHANGED arch
    BY <1>14 DEF LiveTidy, db, ram, net, actors, device, past
  <2> QED BY <2>1 DEF ClaimCase
<1>15. ASSUME NEW s \in Sweepers, SweepBegin(s) PROVE StartOr(\A q \in Runs : ClaimCase(q))
  <2>1. UNCHANGED arch
    BY <1>15 DEF SweepBegin, db, ram, net, actors, device, past
  <2> QED BY <2>1 DEF ClaimCase
<1>16. ASSUME NEW s \in Sweepers, SweepRepair(s) PROVE StartOr(\A q \in Runs : ClaimCase(q))
  <2>1. UNCHANGED arch
    BY <1>16 DEF SweepRepair, db, ram, net, actors, device, past
  <2> QED BY <2>1 DEF ClaimCase
<1>17. ASSUME NEW s \in Sweepers, NEW r \in Runs, SweepRecover(s, r) PROVE StartOr(\A q \in Runs : ClaimCase(q))
  <2> SUFFICES ASSUME NEW q \in Runs PROVE arch'[q].owes = arch[q].owes /\ arch'[q].claim = arch[q].claim
    BY DEF ClaimCase
  <2>1. ArchOK /\ LiveOK /\ Known
    BY Parts
  <2> QED BY <1>17, <2>1, RecoverWrites
<1>18. ASSUME NEW s \in Sweepers, NEW r \in Runs, SweepClose(s, r) PROVE StartOr(\A q \in Runs : ClaimCase(q))
  <2> SUFFICES ASSUME NEW q \in Runs PROVE ClaimCase(q)
    OBVIOUS
  <2>1. \/ arch'[q] = arch[q]
        \/ /\ arch'[q].owes = arch[q].owes /\ arch'[q].status \in Terminal
           /\ arch'[q].claim = arch[q].claim \/ (arch[q].claim = "none" /\ arch'[q].claim = "owed")
    BY <1>18, Parts, ClosingWrites
  <2> QED BY <2>1 DEF ClaimCase, Terminal
<1>19. ASSUME NEW s \in Sweepers, SweepGate(s) PROVE StartOr(\A q \in Runs : ClaimCase(q))
  <2>1. UNCHANGED arch
    BY <1>19 DEF SweepGate, db, ram, net, actors, device, past
  <2> QED BY <2>1 DEF ClaimCase
<1>20. ASSUME NEW s \in Sweepers, SweepRow(s) PROVE StartOr(\A q \in Runs : ClaimCase(q))
  <2>1. UNCHANGED arch
    BY <1>20 DEF SweepRow, db, ram, net, actors, device, past
  <2> QED BY <2>1 DEF ClaimCase
<1>21. ASSUME NEW s \in Sweepers, SweepEnd(s) PROVE StartOr(\A q \in Runs : ClaimCase(q))
  <2>1. UNCHANGED arch
    BY <1>21 DEF SweepEnd, db, ram, net, actors, device, past
  <2> QED BY <2>1 DEF ClaimCase
<1>22. ASSUME NEW t \in Tasks, ResolveRead(t) PROVE StartOr(\A q \in Runs : ClaimCase(q))
  <2>1. UNCHANGED arch
    BY <1>22 DEF ResolveRead, db, ram, net, actors, device, past
  <2> QED BY <2>1 DEF ClaimCase
<1>23. ASSUME NEW t \in Tasks, ResolveClaim(t) PROVE StartOr(\A q \in Runs : ClaimCase(q))
  <2> SUFFICES ASSUME NEW q \in Runs PROVE ClaimCase(q)
    OBVIOUS
  <2>1. ArchOK /\ LiveOK
    BY Parts
  <2>2. CASE arch' = arch
    BY <2>2 DEF ClaimCase
  <2>3. CASE arch' # arch
    <3>1. arch' = [arch EXCEPT ![task[t].run].claim = "attempted"] /\ arch[task[t].run].claim \in Unsent
      BY <1>23, <2>3 DEF ResolveClaim, ClaimIsFree, NothingSent, Unsent
    <3>2. HoldsItsPrinter(task[t].run, "completed")
      BY <1>23, <2>1, <2>3 DEF ResolveClaim, LiveOK, LiveRec
    <3>3. /\ arch'[q].owes = arch[q].owes
          /\ arch'[q].claim = arch[q].claim \/ (q = task[t].run /\ arch'[q].claim = "attempted")
      BY <2>1, <3>1, ClaimWrites
    <3> QED BY <1>23, <3>1, <3>2, <3>3 DEF ClaimCase
  <2> QED BY <2>2, <2>3
<1>24. ASSUME NEW t \in Tasks, ResolveSend(t) PROVE StartOr(\A q \in Runs : ClaimCase(q))
  <2>1. UNCHANGED arch
    BY <1>24 DEF ResolveSend, db, ram, net, actors, device, past
  <2> QED BY <2>1 DEF ClaimCase
<1>25. ASSUME NEW t \in Tasks, NEW ok \in BOOLEAN, ResolveAnswer(t, ok) PROVE StartOr(\A q \in Runs : ClaimCase(q))
  <2> SUFFICES ASSUME NEW q \in Runs PROVE ClaimCase(q)
    OBVIOUS
  <2>1. ArchOK /\ arch[q] \in ArchRec
    BY Parts
  <2>2. arch' = [arch EXCEPT ![task[t].run] = Finished(@, ok)]
    BY <1>25 DEF ResolveAnswer
  <2>3. CASE q = task[t].run
    <3>1. arch[q].claim = "attempted"
      BY <1>25, <2>3, Parts DEF ResolveAnswer, LiveOwns, TaskOwns, Owned
    <3>2. arch'[q] = Finished(arch[q], ok)
      BY <2>1, <2>2, <2>3 DEF ArchOK
    <3>3. arch'[q].claim = (IF ok THEN "finished" ELSE "failed") /\ arch'[q].owes = FALSE
      <4> DEFINE a == arch[q]
                 b == arch'[q]
      <4>1. a \in ArchRec /\ b = Finished(a, ok) /\ ok \in BOOLEAN
        BY <1>25, <2>1, <3>2
      <4> HIDE DEF a, b
      <4>2. b.claim = (IF ok THEN "finished" ELSE "failed") /\ b.owes = FALSE
        BY <4>1, FinishedFields
      <4> QED BY <4>2 DEF b
    <3> QED BY <1>25, <2>3, <3>1, <3>3 DEF ClaimCase
  <2>4. CASE q # task[t].run
    <3>1. arch'[q] = arch[q]
      BY <2>1, <2>2, <2>4 DEF ArchOK
    <3> QED BY <3>1 DEF ClaimCase
  <2> QED BY <2>3, <2>4
<1>26. ASSUME NEW t \in Tasks, ResolveError(t) PROVE StartOr(\A q \in Runs : ClaimCase(q))
  <2>1. UNCHANGED arch
    BY <1>26 DEF ResolveError, db, ram, net, actors, device, past
  <2> QED BY <2>1 DEF ClaimCase
<1>27. ASSUME NEW t \in Tasks, ResolveSettle(t) PROVE StartOr(\A q \in Runs : ClaimCase(q))
  <2>1. UNCHANGED arch
    BY <1>27 DEF ResolveSettle, db, ram, net, actors, device, past
  <2> QED BY <2>1 DEF ClaimCase
<1>28. ASSUME NEW t \in Tasks, ResolveHold(t) PROVE StartOr(\A q \in Runs : ClaimCase(q))
  <2> SUFFICES ASSUME NEW q \in Runs PROVE arch'[q].owes = arch[q].owes /\ arch'[q].claim = arch[q].claim
    BY DEF ClaimCase
  <2>1. ArchOK /\ arch' = [arch EXCEPT ![task[t].run].held = TRUE]
    BY <1>28, Parts DEF ResolveHold
  <2> QED BY <2>1, HeldWrites
<1>29. ASSUME NEW r \in Runs, NEW action \in {"clear", "repeat"}, AnswerPlate(r, action) PROVE StartOr(\A q \in Runs : ClaimCase(q))
  <2>1. UNCHANGED arch
    BY <1>29 DEF AnswerPlate, db, ram, net, actors, device, past
  <2> QED BY <2>1 DEF ClaimCase
<1>30. ASSUME Resume PROVE StartOr(\A q \in Runs : ClaimCase(q))
  <2>1. UNCHANGED arch
    BY <1>30 DEF Resume, db, ram, net, actors, device, past
  <2> QED BY <2>1 DEF ClaimCase
<1>31. ASSUME Drop PROVE StartOr(\A q \in Runs : ClaimCase(q))
  <2>1. UNCHANGED arch
    BY <1>31 DEF Drop, db, ram, net, actors, device, past
  <2> QED BY <2>1 DEF ClaimCase
<1>32. ASSUME Connect PROVE StartOr(\A q \in Runs : ClaimCase(q))
  <2>1. UNCHANGED arch
    BY <1>32 DEF Connect, db, ram, net, actors, device, past
  <2> QED BY <2>1 DEF ClaimCase
<1>33. ASSUME Crash PROVE StartOr(\A q \in Runs : ClaimCase(q))
  <2>1. UNCHANGED arch
    BY <1>33 DEF Crash, db, ram, net, actors, device, past
  <2> QED BY <2>1 DEF ClaimCase
<1>34. ASSUME Restart PROVE StartOr(\A q \in Runs : ClaimCase(q))
  <2>1. UNCHANGED arch
    BY <1>34 DEF Restart, db, ram, net, actors, device, past
  <2> QED BY <2>1 DEF ClaimCase
<1>35. CASE UNCHANGED vars
  BY <1>35 DEF vars, ClaimCase, db, ram, net, actors, device, past
<1> QED
  BY <1>1, <1>2, <1>3, <1>4, <1>5, <1>6, <1>7, <1>8, <1>9, <1>10, <1>11, <1>12, <1>13, <1>14, <1>15, <1>16,
     <1>17, <1>18, <1>19, <1>20, <1>21, <1>22, <1>23, <1>24, <1>25, <1>26, <1>27, <1>28, <1>29, <1>30, <1>31,
     <1>32, <1>33, <1>34, <1>35
     DEF Next, Printer, Live, Operator, Sweep, Resolve

(* The start of a print, seen by everything that is of an earlier one. *)
LEMMA StartFacts ==
    ASSUME OnceInv, SwapInv, OrderInv, NEW i \in Items, Start(i)
    PROVE  \E r \in Runs :
              /\ arch[r].status = "none" /\ ended[r] = "none" /\ arch[r].claim \in Unsent
              /\ live.pc # "none" => live.run # r
              /\ \A q \in Runs \ {r} : arch'[q] = arch[q]
              /\ arch'[r].status = "printing" /\ arch'[r].marker = "none" /\ arch'[r].claim = "none"
              /\ \A q \in Runs : Made(q) => q # r /\ ~OwnsEffect(q)'
              /\ row' = [row EXCEPT ![i] = "printing"] /\ link' = [link EXCEPT ![i] = r]
              /\ lane.status = "idle" /\ lane' = [status |-> "printing", current |-> i]
              /\ dev' = [state |-> "printing", run |-> r] /\ dev.state # "printing"
              /\ UNCHANGED <<live, sweep, task, gate, ended, moved, command>>
<1>1. PICK r \in Runs :
         /\ arch[r].status = "none" /\ \A q \in Runs : q < r => arch[q].status # "none"
         /\ \A q \in Runs \ {r} : arch'[q] = arch[q]
         /\ arch'[r].status = "printing" /\ arch'[r].marker = "none" /\ arch'[r].claim = "none"
         /\ row' = [row EXCEPT ![i] = "printing"] /\ link' = [link EXCEPT ![i] = r]
         /\ lane' = [status |-> "printing", current |-> i]
         /\ dev' = [state |-> "printing", run |-> r]
  BY Parts, StartWrites
<1>2. ended[r] = "none"
  BY <1>1, Parts DEF ArchTruth
<1>3. arch[r].claim \in Unsent
  BY <1>2, Parts DEF ClaimTruth
<1>4. live.pc # "none" => live.run # r
  BY <1>2, Parts DEF LiveTruth, Known, Terminal
<1>5. ASSUME NEW q \in Runs, Made(q) PROVE q # r /\ ~OwnsEffect(q)'
  <2>1. q # r
    BY <1>1, <1>5 DEF Made
  <2>2. ~(q > r)
    BY <1>1, <1>5, RunsAreNumbers DEF OrderInv, MadeInOrder, Made
  <2>3. r > q
    BY <2>1, <2>2, RunsAreNumbers
  <2>4. ~OwnsEffect(q)'
    BY <1>1, <2>3 DEF OwnsEffect
  <2> QED BY <2>1, <2>4
<1>6. /\ lane.status = "idle" /\ dev.state # "printing"
      /\ UNCHANGED <<live, sweep, task, gate, ended, moved, command>>
  BY DEF Start, net, actors, past
<1> QED BY <1>1, <1>2, <1>3, <1>4, <1>5, <1>6

-----------------------------------------------------------------------------
(* The markers.  A completion has marked its run before any effect; what a  *)
(* sweep found marked stays so; a print that runs is unmarked or accepted.  *)

LiveMarked == live.pc # "none" => arch[live.run].marker # "none"
CheckpointsMarked == \A s \in Sweepers : \A r \in sweep[s].checkpoints : arch[r].marker # "none"
PrintingMarks == \A r \in Runs : arch[r].status = "printing" => arch[r].marker \in {"none", "accepted"}
ClaimsMarked == \A r \in Runs : arch[r].status = "printing" /\ arch[r].marker = "none" => arch[r].claim = "none"
MarkInv == LiveMarked /\ CheckpointsMarked /\ PrintingMarks /\ ClaimsMarked

LEMMA MarksHold == OnceInv /\ SwapInv /\ RowsInv /\ MarkInv /\ [Next]_vars => MarkInv'
<1> SUFFICES ASSUME OnceInv, SwapInv, RowsInv, MarkInv, [Next]_vars PROVE MarkInv'
  OBVIOUS
<1>0. /\ LiveMarked /\ CheckpointsMarked /\ PrintingMarks /\ ClaimsMarked
      /\ OrderInv /\ RowOK /\ RowInv /\ SweepsClosed
  BY DEF MarkInv, RowsInv, RestOK
<1>1. ASSUME NEW i \in Items, Start(i) PROVE MarkInv'
  <2>1. PICK r \in Runs :
           /\ arch[r].status = "none" /\ (live.pc # "none" => live.run # r)
           /\ \A q \in Runs \ {r} : arch'[q] = arch[q]
           /\ arch'[r].status = "printing" /\ arch'[r].marker = "none" /\ arch'[r].claim = "none"
           /\ UNCHANGED <<live, sweep>>
    BY <1>0, <1>1, StartFacts
  <2>2. LiveMarked'
    BY <1>0, <2>1, Parts DEF LiveMarked, LiveTruth
  <2>3. CheckpointsMarked'
    <3> SUFFICES ASSUME NEW s \in Sweepers, NEW q \in sweep[s].checkpoints PROVE arch'[q].marker # "none"
      BY <2>1 DEF CheckpointsMarked
    <3>1. q \in Runs /\ q # r
      BY <2>1, Parts DEF Known, SweepRec
    <3> QED BY <1>0, <2>1, <3>1 DEF CheckpointsMarked
  <2>4. PrintingMarks' /\ ClaimsMarked'
    BY <1>0, <2>1 DEF PrintingMarks, ClaimsMarked
  <2> QED BY <2>2, <2>3, <2>4 DEF MarkInv
<1>2. ASSUME \A i \in Items : ~Start(i) PROVE MarkInv'
  <2>1. \A q \in Runs : ArchFades(q) /\ ClaimCase(q)
    BY <1>2, ArchsFade, ClaimFrame DEF StartOr
  <2>2. LiveMarked'
    <3>1. CASE Accept
      <4>1. live'.run = report.run /\ arch'[report.run].marker = "accepted"
        BY <3>1, Parts, AcceptWrites
      <4> QED BY <4>1 DEF LiveMarked
    <3>2. CASE LiveStays
      BY <1>0, <2>1, <3>2, Parts DEF LiveStays, LiveMarked, LiveTruth, ArchFades
    <3> QED BY <3>1, <3>2, LiveFrame
  <2>3. CheckpointsMarked'
    <3> SUFFICES ASSUME NEW s \in Sweepers, NEW q \in sweep'[s].checkpoints PROVE arch'[q].marker # "none"
      BY DEF CheckpointsMarked
    <3>1. SweepCase(s) /\ SweepOK
      BY SweepFrame, Parts
    <3>2. ASSUME q \in sweep[s].checkpoints PROVE arch'[q].marker # "none"
      <4>1. q \in Runs /\ arch[q].marker # "none"
        BY <1>0, <3>1, <3>2 DEF CheckpointsMarked, SweepOK, SweepRec
      <4> QED BY <2>1, <4>1 DEF ArchFades
    <3>3. CASE SweepRepair(s)
      <4>1. q \in Runs /\ arch[q].marker = "accepted"
        BY <3>1, <3>3, RepairMoves DEF Printing
      <4> QED BY <2>1, <4>1 DEF ArchFades
    <3>4. CASE ~SweepRepair(s)
      <4>1. sweep'[s] = NoSweep => q \in sweep[s].checkpoints
        BY DEF NoSweep
      <4> QED BY <3>1, <3>2, <3>4, <4>1, BeginMoves, GateMoves, RowMoves, RecoverMoves, CloseMoves DEF SweepCase
    <3> QED BY <3>3, <3>4
  <2>4. PrintingMarks'
    BY <1>0, <2>1 DEF PrintingMarks, ArchFades
  <2>5. ClaimsMarked'
    <3> SUFFICES ASSUME NEW q \in Runs, arch'[q].status = "printing", arch'[q].marker = "none"
                 PROVE  arch'[q].claim = "none"
      BY DEF ClaimsMarked
    <3>1. arch[q].status = "printing" /\ arch[q].marker = "none" /\ arch[q].claim = "none"
      BY <1>0, <2>1 DEF ArchFades, ClaimsMarked
    <3>2. ~(LiveClaim /\ q = live.run)
      BY <1>0, <3>1 DEF LiveClaim, LiveMarked
    <3>3. ~HoldsItsPrinter(q, "completed")
      BY <1>0, <3>1, RunsAreNumbers DEF HoldsItsPrinter, RowOf, RowInv, RowAgreesWithRun, Terminal
    <3> QED BY <2>1, <3>1, <3>2, <3>3 DEF ClaimCase
  <2> QED BY <2>2, <2>3, <2>4, <2>5 DEF MarkInv
<1> QED BY <1>1, <1>2


-----------------------------------------------------------------------------
(* What takes a part off the plate without anybody's help: the printer has  *)
(* run the macro, or the print carried its own swap and ended well.         *)
Away(r) == r \in moved \/ (ended[r] = "completed" /\ arch[r].baked = "yes")

SwapsTrue == \A r \in Runs : r \in command \cup moved => ended[r] = "completed"
AnswersTrue == \A r \in Runs : arch[r].claim = "finished" => r \in moved
SettlesTrue == \A t \in Tasks : task[t].pc = "settle" /\ task[t].swapped => arch[task[t].run].claim = "finished"
ClearedTrue == live.pc # "none" /\ live.cleared => Away(live.run)
PlateLeft == \A r \in Runs : Away(r) /\ OwnsEffect(r) => ~onPlate
AwayInv == SwapsTrue /\ AnswersTrue /\ SettlesTrue /\ ClearedTrue /\ PlateLeft

LEMMA TaskFields ==
    ASSUME SwapTypes, NEW t \in Tasks, NEW a, task' = [task EXCEPT ![t] = a]
    PROVE  task'[t] = a /\ task[t] \in TaskRec
  BY DEF SwapTypes

(* How a resolution comes to its last step with the answer yes. *)
LEMMA SettleMoves ==
    ASSUME OnceInv, SwapInv, NEW t \in Tasks, [Next]_vars, task'[t].pc = "settle", task'[t].swapped
    PROVE  \/ task'[t] = task[t]
           \/ /\ task[t].pc # "none" /\ task'[t].run = task[t].run
              /\ arch[task[t].run].claim = "finished" \/ ResolveAnswer(t, TRUE)
<1>0. TaskCase(t) /\ SwapTypes
  BY TaskFrame, Parts
<1>1. CASE task'[t] = NoTask
  BY <1>1 DEF NoTask
<1>2. CASE \E s \in Sweepers : SweepEnd(s)
  <2>1. PICK s \in Sweepers : SweepEnd(s)
    BY <1>2
  <2>2. task'[t] = task[t] \/ task'[t].pc = "read"
    BY <1>0, <2>1, Parts, EndWrites
  <2> QED BY <2>2
<1>3. CASE ResolveRead(t)
  <2>1. PICK next, i :
           /\ task' = [task EXCEPT ![t] =
                 IF next = "none" THEN NoTask
                 ELSE [pc |-> next, run |-> task[t].run, row |-> i, claimed |-> FALSE,
                       swapped |-> next = "settle" /\ arch[task[t].run].claim = "finished"]]
    BY <1>3 DEF ResolveRead
  <2>2. task'[t] = IF next = "none" THEN NoTask
                   ELSE [pc |-> next, run |-> task[t].run, row |-> i, claimed |-> FALSE,
                         swapped |-> next = "settle" /\ arch[task[t].run].claim = "finished"]
    BY <1>0, <2>1, TaskFields
  <2>3. next # "none"
    BY <2>2 DEF NoTask
  <2>4. task'[t] = [pc |-> next, run |-> task[t].run, row |-> i, claimed |-> FALSE,
                    swapped |-> next = "settle" /\ arch[task[t].run].claim = "finished"]
    BY <2>2, <2>3
  <2>5. task'[t].run = task[t].run
    BY <2>4
  <2>6. arch[task[t].run].claim = "finished"
    <3> DEFINE done == next = "settle" /\ arch[task[t].run].claim = "finished"
    <3>1. done \in BOOLEAN /\ (done => arch[task[t].run].claim = "finished")
      OBVIOUS
    <3>2. task'[t] = [pc |-> next, run |-> task[t].run, row |-> i, claimed |-> FALSE, swapped |-> done]
      BY <2>4
    <3> HIDE DEF done
    <3>3. done
      BY <3>1, <3>2
    <3> QED BY <3>1, <3>3
  <2>7. task[t].pc = "read"
    BY <1>3 DEF ResolveRead
  <2> QED BY <2>5, <2>6, <2>7
<1>4. ASSUME NEW ok \in BOOLEAN, ResolveAnswer(t, ok)
      PROVE  task[t].pc # "none" /\ task'[t].run = task[t].run /\ ResolveAnswer(t, TRUE)
  <2>1. task' = [task EXCEPT ![t] = [task[t] EXCEPT !.pc = "settle", !.swapped = ok]]
    BY <1>4 DEF ResolveAnswer
  <2>2. task'[t] = [task[t] EXCEPT !.pc = "settle", !.swapped = ok] /\ task[t] \in TaskRec
    BY <1>0, <2>1, TaskFields
  <2>3. task'[t].run = task[t].run /\ task'[t].swapped = ok
    BY <2>2 DEF TaskRec
  <2>4. ok = TRUE
    BY <1>4, <2>3
  <2> QED BY <1>4, <2>3, <2>4 DEF ResolveAnswer
<1>5. CASE ResolveSend(t) \/ ResolveError(t)
  <2>1. \E pc \in {"hold", "sent"} : task' = [task EXCEPT ![t] = [task[t] EXCEPT !.pc = pc]]
    BY <1>5 DEF ResolveSend, ResolveError, SetTask
  <2>2. task'[t].pc # "settle"
    BY <1>0, <2>1 DEF SwapTypes, TaskRec
  <2> QED BY <2>2
<1>7. CASE ResolveClaim(t)
  <2>1. \/ task' = [task EXCEPT ![t] = NoTask]
        \/ task' = [task EXCEPT ![t] = [task[t] EXCEPT !.pc = "hold"]]
        \/ task' = [task EXCEPT ![t] = [task[t] EXCEPT !.pc = "send", !.claimed = TRUE]]
    BY <1>7 DEF ResolveClaim, SetTask
  <2>2. \/ task'[t] = NoTask \/ task'[t] = [task[t] EXCEPT !.pc = "hold"]
        \/ task'[t] = [task[t] EXCEPT !.pc = "send", !.claimed = TRUE]
    BY <1>0, <2>1, TaskFields
  <2>3. task[t] \in TaskRec
    BY <1>0 DEF SwapTypes
  <2>4. CASE task'[t] = NoTask
    BY <2>4 DEF NoTask
  <2>5. CASE task'[t] = [task[t] EXCEPT !.pc = "hold"]
    BY <2>3, <2>5 DEF TaskRec
  <2>6. CASE task'[t] = [task[t] EXCEPT !.pc = "send", !.claimed = TRUE]
    BY <2>3, <2>6 DEF TaskRec
  <2> QED BY <2>2, <2>4, <2>5, <2>6
<1>6. CASE ResolveSettle(t) \/ ResolveHold(t)
  <2>1. task'[t] = NoTask
    BY <1>0, <1>6 DEF ResolveSettle, ResolveHold, Settle, SwapTypes
  <2> QED BY <2>1 DEF NoTask
<1> QED BY <1>0, <1>1, <1>2, <1>3, <1>4, <1>5, <1>6, <1>7 DEF TaskCase, Resolve

LEMMA AwayHolds == OnceInv /\ SwapInv /\ RowsInv /\ AwayInv /\ [Next]_vars => AwayInv'
<1> SUFFICES ASSUME OnceInv, SwapInv, RowsInv, AwayInv, [Next]_vars PROVE AwayInv'
  OBVIOUS
<1>0. /\ SwapsTrue /\ AnswersTrue /\ SettlesTrue /\ ClearedTrue /\ PlateLeft
      /\ OrderInv /\ RowOK /\ RowInv /\ SweepsClosed
  BY DEF AwayInv, RowsInv, RestOK
<1>1. \A q \in Runs : Away(q) => ended[q] = "completed" /\ Made(q)
  BY <1>0, Parts DEF Away, SwapsTrue, ArchTruth, Made
<1>2. ASSUME NEW i \in Items, Start(i) PROVE AwayInv'
  <2>1. PICK r \in Runs :
           /\ arch[r].status = "none" /\ ended[r] = "none" /\ (live.pc # "none" => live.run # r)
           /\ \A q \in Runs \ {r} : arch'[q] = arch[q]
           /\ arch'[r].claim = "none" /\ arch[r].claim \in Unsent
           /\ \A q \in Runs : Made(q) => q # r /\ ~OwnsEffect(q)'
           /\ UNCHANGED <<live, task, ended, moved, command>>
    BY <1>0, <1>2, StartFacts
  <2>2. \A q \in Runs : Away(q)' => Away(q) /\ q # r
    BY <1>0, <2>1 DEF Away, SwapsTrue
  <2>3. \A q \in Runs \ {r} : Away(q)' <=> Away(q)
    BY <2>1 DEF Away
  <2>4. SwapsTrue'
    BY <1>0, <2>1 DEF SwapsTrue
  <2>5. AnswersTrue'
    BY <1>0, <2>1 DEF AnswersTrue
  <2>6. SettlesTrue'
    BY <1>0, <2>1, Parts DEF SettlesTrue, TaskOwns, Unsent
  <2>7. ClearedTrue'
    BY <1>0, <2>1, Parts DEF ClearedTrue, LiveTruth, Away
  <2>8. PlateLeft'
    BY <1>1, <2>1, <2>2 DEF PlateLeft
  <2> QED BY <2>4, <2>5, <2>6, <2>7, <2>8 DEF AwayInv
<1>3. ASSUME \A i \in Items : ~Start(i) PROVE AwayInv'
  <2>1. \A q \in Runs : ArchFades(q) /\ ClaimCase(q)
    BY <1>3, ArchsFade, ClaimFrame DEF StartOr
  <2>2. (\E o \in Terminal : PrintEnds(o)) \/ PrinterRests
    BY <1>3, PrinterFrame DEF StartOr
  <2>3. NoStart
    BY <1>0, <1>3, StepFrame DEF StartOrNot
  <2>4. \A q \in Runs : OwnsEffect(q)' <=> OwnsEffect(q)
    BY <2>3 DEF NoStart, OwnsEffect, Made
  <2>5. moved \subseteq moved' /\ \A q \in Runs : ended[q] = "completed" => ended'[q] = "completed"
    <3>1. ASSUME NEW o \in Terminal, PrintEnds(o)
          PROVE  moved \subseteq moved' /\ \A q \in Runs : ended[q] = "completed" => ended'[q] = "completed"
      BY <3>1, Parts DEF PrintEnds, DevTruth, SwapTypes
    <3> QED BY <2>2, <3>1 DEF PrinterRests
  <2>6. \A q \in Runs : Away(q) => Away(q)'
    BY <2>1, <2>5 DEF Away, ArchFades
  <2>7. SwapsTrue'
    <3>1. ASSUME NEW o \in Terminal, PrintEnds(o) PROVE SwapsTrue'
      BY <1>0, <2>5, <3>1 DEF PrintEnds, SwapsTrue
    <3>2. CASE PrinterRests
      BY <1>0, <3>2, Parts DEF PrinterRests, SwapsTrue, ClaimTruth, Unsent
    <3> QED BY <2>2, <3>1, <3>2
  <2>8. AnswersTrue'
    <3> SUFFICES ASSUME NEW q \in Runs, arch'[q].claim = "finished" PROVE q \in moved'
      BY DEF AnswersTrue
    <3>1. CASE arch[q].claim = "finished"
      BY <1>0, <2>5, <3>1 DEF AnswersTrue
    <3>2. CASE arch[q].claim # "finished"
      <4>1. PICK ok \in BOOLEAN :
               /\ ok
               /\ \/ LiveAnswer(ok) /\ q = live.run
                  \/ \E t \in Tasks : ResolveAnswer(t, ok) /\ q = task[t].run
        BY <2>1, <3>2 DEF ClaimCase
      <4>2. q \in moved
        BY <4>1, Parts, LiveAnswerMoves DEF ResolveAnswer
      <4> QED BY <2>5, <4>2
    <3> QED BY <3>1, <3>2
  <2>9. SettlesTrue'
    <3> SUFFICES ASSUME NEW t \in Tasks, task'[t].pc = "settle", task'[t].swapped
                 PROVE  arch'[task'[t].run].claim = "finished"
      BY DEF SettlesTrue
    <3>1. CASE task'[t] = task[t]
      BY <1>0, <2>1, <3>1, Parts DEF SettlesTrue, TaskOwns, ArchFades
    <3>2. CASE task[t].pc # "none" /\ task'[t].run = task[t].run /\ arch[task[t].run].claim = "finished"
      <4>1. task[t].run \in Runs
        BY <3>2, Parts DEF TaskOwns
      <4> QED BY <2>1, <3>2, <4>1 DEF ArchFades
    <3>3. CASE task[t].pc # "none" /\ task'[t].run = task[t].run /\ ResolveAnswer(t, TRUE)
      <4>1. task[t].run \in Runs /\ ArchOK
        BY <3>3, Parts DEF TaskOwns
      <4>2. arch' = [arch EXCEPT ![task[t].run] = Finished(@, TRUE)]
        BY <3>3 DEF ResolveAnswer
      <4>3. arch'[task[t].run].claim = "finished"
        BY <4>1, <4>2 DEF ArchOK, ArchRec, Finished
      <4> QED BY <3>3, <4>3
    <3> QED BY <3>1, <3>2, <3>3, SettleMoves
  <2>10. ClearedTrue'
    <3> SUFFICES ASSUME live'.pc # "none", live'.cleared
                 PROVE  live'.run \in moved' \/ (ended'[live'.run] = "completed" /\ arch'[live'.run].baked = "yes")
      BY DEF ClearedTrue, Away
    <3>1. live'.run \in Runs /\ Away(live'.run)
      <4>0. LiveOK /\ LiveTruth /\ LiveCase
        BY Parts, LiveTurns
      <4>1. CASE live' = live \/ live' = NoLive
        BY <1>0, <4>0, <4>1, NoLiveFields DEF ClearedTrue, LiveTruth
      <4>2. CASE Accept
        BY <4>2, Parts, AcceptWrites
      <4>3. CASE LiveDecide
        BY <4>0, <4>3, DecideMoves DEF SameLive, LiveTruth, Away
      <4>4. ASSUME NEW ok \in BOOLEAN, LiveAnswer(ok) PROVE live'.run \in Runs /\ Away(live'.run)
        BY <4>0, <4>4, LiveAnswerMoves DEF SameLive, LiveTruth, Away
      <4>5. CASE LiveClaim \/ LiveSend \/ LiveError \/ LiveHold \/ LiveGate
        <5>1. SameLive /\ live'.cleared = live.cleared /\ live.pc # "none"
          BY <4>0, <4>5, ClaimMoves, SendMoves, ErrorMoves, HoldMoves, LiveGateMoves
        <5> QED BY <1>0, <4>0, <5>1 DEF SameLive, ClearedTrue, LiveTruth
      <4>6. CASE LiveFinalize
        <5>1. live.pc = "finalize" /\ (live' = NoLive \/ live' = [live EXCEPT !.pc = "tidy"])
          BY <4>6, Parts, EndsWrites
        <5>2. SameLive /\ live'.cleared = live.cleared
          BY <4>0, <5>1, TidyFields, NoLiveFields
        <5> QED BY <1>0, <4>0, <5>1, <5>2 DEF SameLive, ClearedTrue, LiveTruth
      <4>7. CASE LiveTidy
        BY <4>7, NoLiveFields DEF LiveTidy
      <4> QED BY <4>0, <4>1, <4>2, <4>3, <4>4, <4>5, <4>6, <4>7 DEF LiveCase, Live
    <3>2. PICK q \in Runs : q = live'.run
      BY <3>1
    <3>3. Away(q)'
      BY <2>6, <3>1, <3>2
    <3> QED BY <3>2, <3>3 DEF Away
  <2>11. PlateLeft'
    <3> SUFFICES ASSUME NEW q \in Runs, Away(q)', OwnsEffect(q)' PROVE ~onPlate'
      BY DEF PlateLeft
    <3>1. OwnsEffect(q) /\ arch'[q].baked = arch[q].baked
      BY <2>1, <2>4 DEF ArchFades
    <3>2. ASSUME NEW o \in Terminal, PrintEnds(o) PROVE ~onPlate'
      <4>1. /\ dev.run \in Runs /\ ended[dev.run] = "none" /\ Made(dev.run) /\ OwnsEffect(dev.run)
            /\ ended' = [ended EXCEPT ![dev.run] = o] /\ moved' = moved
            /\ onPlate' = (o # "completed" \/ arch[dev.run].baked # "yes")
        BY <1>0, <3>2, Parts DEF PrintEnds, DevTruth, OrderInv, DevIsLast, Made
      <4>2. CASE q # dev.run
        <5>1. Away(q)
          BY <3>1, <4>1, <4>2, Parts DEF Away, SwapTypes
        <5> QED BY <1>1, <3>1, <4>1, <4>2, <5>1, LastRun
      <4>3. CASE q = dev.run
        <5>1. q \notin moved
          BY <1>0, <4>1, <4>3 DEF SwapsTrue
        <5>2. o = "completed" /\ arch[q].baked = "yes"
          BY <3>1, <4>1, <4>3, <5>1, Parts DEF Away, SwapTypes
        <5> QED BY <4>1, <4>3, <5>2
      <4> QED BY <4>2, <4>3
    <3>3. CASE PrinterRests
      <4>1. CASE onPlate' = FALSE
        BY <4>1
      <4>2. CASE moved' = moved
        <5>1. Away(q)
          BY <3>1, <3>3, <4>2 DEF PrinterRests, Away
        <5> QED BY <1>0, <3>1, <3>3, <5>1 DEF PrinterRests, PlateLeft
      <4> QED BY <3>3, <4>1, <4>2 DEF PrinterRests
    <3> QED BY <2>2, <3>2, <3>3
  <2> QED BY <2>7, <2>8, <2>9, <2>10, <2>11 DEF AwayInv
<1> QED BY <1>2, <1>3


-----------------------------------------------------------------------------
(* Who moves the lane, and what they have seen of it. *)
LaneHeldBack ==
    /\ LiveHold \/ LiveAnswer(FALSE)
    /\ OwnsEffect(live.run) /\ lane.current = live.row /\ lane'.status # "idle"

LaneFinalized ==
    /\ LiveFinalize /\ arch[live.run].status = "printing"
    /\ link[live.row] = live.run /\ row[live.row] = "printing" /\ row'[live.row] # "printing"
    /\ lane.current = live.row
    /\ lane'.status = "idle" => lane.status = "printing"

LaneRepaired == Printing = {} /\ lane'.status # "idle" /\ \A i \in Items : row'[i] # "printing"

LaneRecovered(s, r) ==
    /\ SweepRecover(s, r) /\ lane'.status # "idle"
    /\ lane.current \in Items /\ row'[lane.current] # "printing"

LaneSwept(s) ==
    /\ SweepRow(s)
    /\ \E i \in Items : link[i] = sweep[s].run /\ row[i] = "printing" /\ row'[i] # "printing"
    /\ lane'.status = "idle" =>
          lane.status = "printing" /\ arch[sweep[s].run].status = "completed" /\ ~SwapOwed(sweep[s].run)

LaneSettled(t) ==
    /\ SettleIsOurs(t)
    /\ lane'.status = "idle" => ResolveSettle(t) /\ task[t].swapped

LaneCase ==
    \/ lane' = lane
    \/ LaneHeldBack \/ LaneFinalized \/ LaneRepaired \/ Resume
    \/ \E s \in Sweepers : LaneSwept(s) \/ \E r \in Runs : LaneRecovered(s, r)
    \/ \E t \in Tasks : LaneSettled(t)

LEMMA HaltedStatus == ASSUME NEW status \in Halted PROVE Freed(status).status \notin {"idle", "printing"}
  BY DEF Halted, Freed

LEMMA LaneFrame == OnceInv /\ SwapInv /\ RowOK /\ LiveRow /\ SweepsClosed /\ [Next]_vars => StartOr(LaneCase)
<1> SUFFICES ASSUME OnceInv, SwapInv, RowOK, LiveRow, SweepsClosed, [Next]_vars PROVE StartOr(LaneCase)
  OBVIOUS
<1> USE DEF StartOr
<1>1. ASSUME NEW i \in Items, Start(i) PROVE StartOr(LaneCase)
  BY <1>1
<1>2. ASSUME NEW outcome \in Terminal, PrintEnds(outcome) PROVE StartOr(LaneCase)
  <2>1. lane' = lane
    BY <1>2 DEF PrintEnds, SetTask, db, ram, net, actors, device, past
  <2> QED BY <2>1 DEF LaneCase
<1>3. ASSUME PrinterForgets PROVE StartOr(LaneCase)
  <2>1. lane' = lane
    BY <1>3 DEF PrinterForgets, SetTask, db, ram, net, actors, device, past
  <2> QED BY <2>1 DEF LaneCase
<1>4. ASSUME NEW r \in Runs, PrinterSwaps(r) PROVE StartOr(LaneCase)
  <2>1. lane' = lane
    BY <1>4 DEF PrinterSwaps, SetTask, db, ram, net, actors, device, past
  <2> QED BY <2>1 DEF LaneCase
<1>5. ASSUME Accept PROVE StartOr(LaneCase)
  <2>1. lane' = lane
    BY <1>5 DEF Accept, SetTask, db, ram, net, actors, device, past
  <2> QED BY <2>1 DEF LaneCase
<1>6. ASSUME LiveDecide PROVE StartOr(LaneCase)
  <2>1. lane' = lane
    BY <1>6 DEF LiveDecide, SetTask, db, ram, net, actors, device, past
  <2> QED BY <2>1 DEF LaneCase
<1>7. ASSUME LiveClaim PROVE StartOr(LaneCase)
  <2>1. lane' = lane
    BY <1>7 DEF LiveClaim, SetTask, db, ram, net, actors, device, past
  <2> QED BY <2>1 DEF LaneCase
<1>8. ASSUME LiveSend PROVE StartOr(LaneCase)
  <2>1. lane' = lane
    BY <1>8 DEF LiveSend, SetTask, db, ram, net, actors, device, past
  <2> QED BY <2>1 DEF LaneCase
<1>9. ASSUME NEW ok \in BOOLEAN, LiveAnswer(ok) PROVE StartOr(LaneCase)
  <2>1. CASE lane' = lane
    BY <2>1 DEF LaneCase
  <2>2. CASE lane' # lane
    <3>1. lane' = Halt("paused", live.row) /\ OwnsEffect(live.run) /\ ok = FALSE
      BY <1>9, <2>2 DEF LiveAnswer
    <3>2. lane.current = live.row /\ lane' = Freed("paused")
      BY <2>2, <3>1, HaltWrites DEF Halted
    <3>3. lane'.status # "idle"
      BY <3>2 DEF Freed
    <3> QED BY <1>9, <3>1, <3>2, <3>3 DEF LaneHeldBack, LaneCase
  <2> QED BY <2>1, <2>2
<1>10. ASSUME LiveError PROVE StartOr(LaneCase)
  <2>1. lane' = lane
    BY <1>10 DEF LiveError, SetTask, db, ram, net, actors, device, past
  <2> QED BY <2>1 DEF LaneCase
<1>11. ASSUME LiveHold PROVE StartOr(LaneCase)
  <2>1. CASE lane' = lane
    BY <2>1 DEF LaneCase
  <2>2. CASE lane' # lane
    <3>1. lane' = Halt("paused", live.row) /\ OwnsEffect(live.run)
      BY <1>11, <2>2 DEF LiveHold
    <3>2. lane.current = live.row /\ lane' = Freed("paused")
      BY <2>2, <3>1, HaltWrites DEF Halted
    <3>3. lane'.status # "idle"
      BY <3>2 DEF Freed
    <3> QED BY <1>11, <3>1, <3>2, <3>3 DEF LaneHeldBack, LaneCase
  <2> QED BY <2>1, <2>2
<1>12. ASSUME LiveGate PROVE StartOr(LaneCase)
  <2>1. lane' = lane
    BY <1>12 DEF LiveGate, SetTask, db, ram, net, actors, device, past
  <2> QED BY <2>1 DEF LaneCase
<1>13. ASSUME LiveFinalize PROVE StartOr(LaneCase)
  <2>1. CASE lane' = lane
    BY <2>1 DEF LaneCase
  <2>2. CASE lane' # lane
    <3>1. /\ live.outcome \in Terminal
          /\ row[live.row] = "printing" /\ link[live.row] = live.run /\ arch[live.run].status = "printing"
          /\ row' = [row EXCEPT ![live.row] = live.outcome] /\ lane' = LaneAfter(live.outcome, live.row)
          /\ live.pc = "finalize"
      BY <1>13, <2>2, Parts, EndsWrites
    <3>2. lane.current = live.row /\ (lane'.status = "idle" => lane.status = "printing")
      <4>1. CASE LaneAfter(live.outcome, live.row) = lane
        BY <2>2, <3>1, <4>1
      <4>2. CASE LaneAfter(live.outcome, live.row) # lane
        <5>1. /\ lane.current = live.row
              /\ \/ \E status \in Halted : lane' = Freed(status)
                 \/ lane.status = "printing"
          BY <3>1, <4>2, LaneAfterWrites
        <5> QED BY <5>1, HaltedStatus
      <4> QED BY <4>1, <4>2
    <3>3. row'[live.row] # "printing"
      <4>1. live.row \in Items
        BY <3>1 DEF LiveRow
      <4> QED BY <3>1, <4>1 DEF RowOK, Terminal
    <3> QED BY <1>13, <3>1, <3>2, <3>3 DEF LaneFinalized, LaneCase
  <2> QED BY <2>1, <2>2
<1>14. ASSUME LiveTidy PROVE StartOr(LaneCase)
  <2>1. lane' = lane
    BY <1>14 DEF LiveTidy, SetTask, db, ram, net, actors, device, past
  <2> QED BY <2>1 DEF LaneCase
<1>15. ASSUME NEW s \in Sweepers, SweepBegin(s) PROVE StartOr(LaneCase)
  <2>1. lane' = lane
    BY <1>15 DEF SweepBegin, SetTask, db, ram, net, actors, device, past
  <2> QED BY <2>1 DEF LaneCase
<1>16. ASSUME NEW s \in Sweepers, SweepRepair(s) PROVE StartOr(LaneCase)
  <2>1. CASE lane' = lane
    BY <2>1 DEF LaneCase
  <2>2. CASE lane' # lane
    <3>1. /\ Printing = {} /\ \A i \in Items : row[i] = "printing" => arch[link[i]].status \in Terminal
          /\ row' = [i \in Items |-> IF row[i] = "printing" THEN arch[link[i]].status ELSE row[i]]
          /\ \E status \in {"error", "paused"} : lane' = [status |-> status, current |-> NoItem]
      BY <1>16, <2>2, RepairWrites
    <3>2. lane'.status # "idle"
      BY <3>1
    <3>3. \A i \in Items : row'[i] # "printing"
      BY <3>1 DEF Terminal
    <3> QED BY <3>1, <3>2, <3>3 DEF LaneRepaired, LaneCase
  <2> QED BY <2>1, <2>2
<1>17. ASSUME NEW s \in Sweepers, NEW r \in Runs, SweepRecover(s, r) PROVE StartOr(LaneCase)
  <2>1. CASE lane' = lane
    BY <2>1 DEF LaneCase
  <2>2. CASE lane' # lane
    <3>0. ArchOK /\ Known
      BY Parts
    <3>1. PICK i \in Items : /\ row' = [row EXCEPT ![i] = arch[r].outcome] /\ lane' = Halt("paused", i)
                             /\ arch[r].outcome \in Terminal
      BY <1>17, <3>0, RecoverWrites
    <3>2. lane.current = i /\ lane' = Freed("paused")
      BY <2>2, <3>1, HaltWrites DEF Halted
    <3>3. lane'.status # "idle"
      BY <3>2 DEF Freed
    <3>4. row'[i] # "printing"
      BY <3>1 DEF RowOK, Terminal
    <3> QED BY <1>17, <3>2, <3>3, <3>4 DEF LaneRecovered, LaneCase
  <2> QED BY <2>1, <2>2
<1>18. ASSUME NEW s \in Sweepers, NEW r \in Runs, SweepClose(s, r) PROVE StartOr(LaneCase)
  <2>1. lane' = lane
    BY <1>18 DEF SweepClose, SetTask, db, ram, net, actors, device, past
  <2> QED BY <2>1 DEF LaneCase
<1>19. ASSUME NEW s \in Sweepers, SweepGate(s) PROVE StartOr(LaneCase)
  <2>1. lane' = lane
    BY <1>19 DEF SweepGate, SetTask, db, ram, net, actors, device, past
  <2> QED BY <2>1 DEF LaneCase
<1>20. ASSUME NEW s \in Sweepers, SweepRow(s) PROVE StartOr(LaneCase)
  <2>1. CASE lane' = lane
    BY <2>1 DEF LaneCase
  <2>2. CASE lane' # lane
    <3> DEFINE r == sweep[s].run
    <3>1. arch[r].status \in Terminal
      BY <1>20 DEF SweepRow, SweepsClosed
    <3>2. PICK i \in Items :
             /\ link[i] = r /\ row[i] = "printing"
             /\ row' = [row EXCEPT ![i] = arch[r].status] \/ row' = [row EXCEPT ![i] = "gone"]
             /\ \/ lane' = [status |-> "error", current |-> NoItem]
                \/ lane' = [status |-> "paused", current |-> NoItem]
                \/ arch[r].status = "completed" /\ lane.status = "printing" /\ ~SwapOwed(r)
      BY <1>20, <2>2, <3>1, SweepRowWrites
    <3>3. row'[i] # "printing"
      BY <3>1, <3>2 DEF RowOK, Terminal
    <3>4. lane'.status = "idle" => lane.status = "printing" /\ arch[r].status = "completed" /\ ~SwapOwed(r)
      BY <3>2
    <3> QED BY <1>20, <3>2, <3>3, <3>4 DEF LaneSwept, LaneCase
  <2> QED BY <2>1, <2>2
<1>21. ASSUME NEW s \in Sweepers, SweepEnd(s) PROVE StartOr(LaneCase)
  <2>1. lane' = lane
    BY <1>21 DEF SweepEnd, SetTask, db, ram, net, actors, device, past
  <2> QED BY <2>1 DEF LaneCase
<1>22. ASSUME NEW t \in Tasks, ResolveRead(t) PROVE StartOr(LaneCase)
  <2>1. lane' = lane
    BY <1>22 DEF ResolveRead, SetTask, db, ram, net, actors, device, past
  <2> QED BY <2>1 DEF LaneCase
<1>23. ASSUME NEW t \in Tasks, ResolveClaim(t) PROVE StartOr(LaneCase)
  <2>1. lane' = lane
    BY <1>23 DEF ResolveClaim, SetTask, db, ram, net, actors, device, past
  <2> QED BY <2>1 DEF LaneCase
<1>24. ASSUME NEW t \in Tasks, ResolveSend(t) PROVE StartOr(LaneCase)
  <2>1. lane' = lane
    BY <1>24 DEF ResolveSend, SetTask, db, ram, net, actors, device, past
  <2> QED BY <2>1 DEF LaneCase
<1>25. ASSUME NEW t \in Tasks, NEW ok \in BOOLEAN, ResolveAnswer(t, ok) PROVE StartOr(LaneCase)
  <2>1. lane' = lane
    BY <1>25 DEF ResolveAnswer, SetTask, db, ram, net, actors, device, past
  <2> QED BY <2>1 DEF LaneCase
<1>26. ASSUME NEW t \in Tasks, ResolveError(t) PROVE StartOr(LaneCase)
  <2>1. lane' = lane
    BY <1>26 DEF ResolveError, SetTask, db, ram, net, actors, device, past
  <2> QED BY <2>1 DEF LaneCase
<1>27. ASSUME NEW t \in Tasks, ResolveSettle(t) PROVE StartOr(LaneCase)
  <2>1. Settle(t, task[t].swapped)
    BY <1>27 DEF ResolveSettle
  <2>2. \/ lane' = lane
        \/ /\ SettleIsOurs(t)
           /\ \E status \in {"idle", "paused"} : /\ lane' = [status |-> status, current |-> NoItem]
                                                 /\ status = "idle" => task[t].swapped
    BY <2>1, SettleWrites
  <2>3. lane' = lane \/ (SettleIsOurs(t) /\ (lane'.status = "idle" => task[t].swapped))
    BY <2>2
  <2> QED BY <1>27, <2>3 DEF LaneSettled, LaneCase
<1>28. ASSUME NEW t \in Tasks, ResolveHold(t) PROVE StartOr(LaneCase)
  <2>1. Settle(t, FALSE)
    BY <1>28 DEF ResolveHold
  <2>2. \/ lane' = lane
        \/ /\ SettleIsOurs(t)
           /\ \E status \in {"idle", "paused"} : /\ lane' = [status |-> status, current |-> NoItem]
                                                 /\ status = "idle" => FALSE
    BY <2>1, SettleWrites
  <2>3. lane' = lane \/ (SettleIsOurs(t) /\ lane'.status # "idle")
    BY <2>2
  <2> QED BY <2>3 DEF LaneSettled, LaneCase
<1>29. ASSUME NEW r \in Runs, NEW action \in {"clear", "repeat"}, AnswerPlate(r, action) PROVE StartOr(LaneCase)
  <2>1. lane' = lane
    BY <1>29 DEF AnswerPlate, SetTask, db, ram, net, actors, device, past
  <2> QED BY <2>1 DEF LaneCase
<1>30. ASSUME Resume PROVE StartOr(LaneCase)
  BY <1>30 DEF LaneCase
<1>31. ASSUME Drop PROVE StartOr(LaneCase)
  <2>1. lane' = lane
    BY <1>31 DEF Drop, SetTask, db, ram, net, actors, device, past
  <2> QED BY <2>1 DEF LaneCase
<1>32. ASSUME Connect PROVE StartOr(LaneCase)
  <2>1. lane' = lane
    BY <1>32 DEF Connect, SetTask, db, ram, net, actors, device, past
  <2> QED BY <2>1 DEF LaneCase
<1>33. ASSUME Crash PROVE StartOr(LaneCase)
  <2>1. lane' = lane
    BY <1>33 DEF Crash, SetTask, db, ram, net, actors, device, past
  <2> QED BY <2>1 DEF LaneCase
<1>34. ASSUME Restart PROVE StartOr(LaneCase)
  <2>1. lane' = lane
    BY <1>34 DEF Restart, SetTask, db, ram, net, actors, device, past
  <2> QED BY <2>1 DEF LaneCase
<1>35. CASE UNCHANGED vars
  BY <1>35 DEF vars, LaneCase, db, ram, net, actors, device, past
<1> QED
  BY <1>1, <1>2, <1>3, <1>4, <1>5, <1>6, <1>7, <1>8, <1>9, <1>10, <1>11, <1>12, <1>13, <1>14, <1>15, <1>16,
     <1>17, <1>18, <1>19, <1>20, <1>21, <1>22, <1>23, <1>24, <1>25, <1>26, <1>27, <1>28, <1>29, <1>30, <1>31,
     <1>32, <1>33, <1>34, <1>35
     DEF Next, Printer, Live, Operator, Sweep, Resolve

(* Who writes the gate of the plate. *)
GateCase ==
    \/ gate' = gate
    \/ RequirePlateClear /\ LiveGate /\ ~live.cleared /\ OwnsEffect(live.run) /\ gate' = live.run
    \/ RequirePlateClear /\ \E s \in Sweepers : SweepGate(s) /\ gate' = sweep[s].run
    \/ gate' = NoRun /\ onPlate' = FALSE /\ \E r \in Runs, action \in {"clear", "repeat"} : gate = r /\ AnswerPlate(r, action)

LEMMA GateFrame == OnceInv /\ [Next]_vars => GateCase
<1> SUFFICES ASSUME OnceInv, [Next]_vars PROVE GateCase
  OBVIOUS
<1>1. ASSUME NEW i \in Items, Start(i) PROVE GateCase
  <2>1. gate' = gate
    BY <1>1 DEF Start, SetTask, db, ram, net, actors, device, past
  <2> QED BY <2>1 DEF GateCase
<1>2. ASSUME NEW outcome \in Terminal, PrintEnds(outcome) PROVE GateCase
  <2>1. gate' = gate
    BY <1>2 DEF PrintEnds, SetTask, db, ram, net, actors, device, past
  <2> QED BY <2>1 DEF GateCase
<1>3. ASSUME PrinterForgets PROVE GateCase
  <2>1. gate' = gate
    BY <1>3 DEF PrinterForgets, SetTask, db, ram, net, actors, device, past
  <2> QED BY <2>1 DEF GateCase
<1>4. ASSUME NEW r \in Runs, PrinterSwaps(r) PROVE GateCase
  <2>1. gate' = gate
    BY <1>4 DEF PrinterSwaps, SetTask, db, ram, net, actors, device, past
  <2> QED BY <2>1 DEF GateCase
<1>5. ASSUME Accept PROVE GateCase
  <2>1. gate' = gate
    BY <1>5 DEF Accept, SetTask, db, ram, net, actors, device, past
  <2> QED BY <2>1 DEF GateCase
<1>6. ASSUME LiveDecide PROVE GateCase
  <2>1. gate' = gate
    BY <1>6 DEF LiveDecide, SetTask, db, ram, net, actors, device, past
  <2> QED BY <2>1 DEF GateCase
<1>7. ASSUME LiveClaim PROVE GateCase
  <2>1. gate' = gate
    BY <1>7 DEF LiveClaim, SetTask, db, ram, net, actors, device, past
  <2> QED BY <2>1 DEF GateCase
<1>8. ASSUME LiveSend PROVE GateCase
  <2>1. gate' = gate
    BY <1>8 DEF LiveSend, SetTask, db, ram, net, actors, device, past
  <2> QED BY <2>1 DEF GateCase
<1>9. ASSUME NEW ok \in BOOLEAN, LiveAnswer(ok) PROVE GateCase
  <2>1. gate' = gate
    BY <1>9 DEF LiveAnswer, SetTask, db, ram, net, actors, device, past
  <2> QED BY <2>1 DEF GateCase
<1>10. ASSUME LiveError PROVE GateCase
  <2>1. gate' = gate
    BY <1>10 DEF LiveError, SetTask, db, ram, net, actors, device, past
  <2> QED BY <2>1 DEF GateCase
<1>11. ASSUME LiveHold PROVE GateCase
  <2>1. gate' = gate
    BY <1>11 DEF LiveHold, SetTask, db, ram, net, actors, device, past
  <2> QED BY <2>1 DEF GateCase
<1>12. ASSUME LiveGate PROVE GateCase
  <2>1. gate' = gate \/ (RequirePlateClear /\ ~live.cleared /\ OwnsEffect(live.run) /\ gate' = live.run)
    BY <1>12 DEF LiveGate
  <2> QED BY <1>12, <2>1 DEF GateCase
<1>13. ASSUME LiveFinalize PROVE GateCase
  <2>1. gate' = gate
    BY <1>13 DEF LiveFinalize, SetTask, db, ram, net, actors, device, past
  <2> QED BY <2>1 DEF GateCase
<1>14. ASSUME LiveTidy PROVE GateCase
  <2>1. gate' = gate
    BY <1>14 DEF LiveTidy, SetTask, db, ram, net, actors, device, past
  <2> QED BY <2>1 DEF GateCase
<1>15. ASSUME NEW s \in Sweepers, SweepBegin(s) PROVE GateCase
  <2>1. gate' = gate
    BY <1>15 DEF SweepBegin, SetTask, db, ram, net, actors, device, past
  <2> QED BY <2>1 DEF GateCase
<1>16. ASSUME NEW s \in Sweepers, SweepRepair(s) PROVE GateCase
  <2>1. gate' = gate
    BY <1>16 DEF SweepRepair, SetTask, db, ram, net, actors, device, past
  <2> QED BY <2>1 DEF GateCase
<1>17. ASSUME NEW s \in Sweepers, NEW r \in Runs, SweepRecover(s, r) PROVE GateCase
  <2>1. gate' = gate
    BY <1>17 DEF SweepRecover, SetTask, db, ram, net, actors, device, past
  <2> QED BY <2>1 DEF GateCase
<1>18. ASSUME NEW s \in Sweepers, NEW r \in Runs, SweepClose(s, r) PROVE GateCase
  <2>1. gate' = gate
    BY <1>18 DEF SweepClose, SetTask, db, ram, net, actors, device, past
  <2> QED BY <2>1 DEF GateCase
<1>19. ASSUME NEW s \in Sweepers, SweepGate(s) PROVE GateCase
  <2>1. gate' = gate \/ (RequirePlateClear /\ gate' = sweep[s].run)
    BY <1>19 DEF SweepGate
  <2> QED BY <1>19, <2>1 DEF GateCase
<1>20. ASSUME NEW s \in Sweepers, SweepRow(s) PROVE GateCase
  <2>1. gate' = gate
    BY <1>20 DEF SweepRow, SetTask, db, ram, net, actors, device, past
  <2> QED BY <2>1 DEF GateCase
<1>21. ASSUME NEW s \in Sweepers, SweepEnd(s) PROVE GateCase
  <2>1. gate' = gate
    BY <1>21 DEF SweepEnd, SetTask, db, ram, net, actors, device, past
  <2> QED BY <2>1 DEF GateCase
<1>22. ASSUME NEW t \in Tasks, ResolveRead(t) PROVE GateCase
  <2>1. gate' = gate
    BY <1>22 DEF ResolveRead, SetTask, db, ram, net, actors, device, past
  <2> QED BY <2>1 DEF GateCase
<1>23. ASSUME NEW t \in Tasks, ResolveClaim(t) PROVE GateCase
  <2>1. gate' = gate
    BY <1>23 DEF ResolveClaim, SetTask, db, ram, net, actors, device, past
  <2> QED BY <2>1 DEF GateCase
<1>24. ASSUME NEW t \in Tasks, ResolveSend(t) PROVE GateCase
  <2>1. gate' = gate
    BY <1>24 DEF ResolveSend, SetTask, db, ram, net, actors, device, past
  <2> QED BY <2>1 DEF GateCase
<1>25. ASSUME NEW t \in Tasks, NEW ok \in BOOLEAN, ResolveAnswer(t, ok) PROVE GateCase
  <2>1. gate' = gate
    BY <1>25 DEF ResolveAnswer, SetTask, db, ram, net, actors, device, past
  <2> QED BY <2>1 DEF GateCase
<1>26. ASSUME NEW t \in Tasks, ResolveError(t) PROVE GateCase
  <2>1. gate' = gate
    BY <1>26 DEF ResolveError, SetTask, db, ram, net, actors, device, past
  <2> QED BY <2>1 DEF GateCase
<1>27. ASSUME NEW t \in Tasks, ResolveSettle(t) PROVE GateCase
  <2>1. gate' = gate
    BY <1>27 DEF ResolveSettle, SetTask, db, ram, net, actors, device, past
  <2> QED BY <2>1 DEF GateCase
<1>28. ASSUME NEW t \in Tasks, ResolveHold(t) PROVE GateCase
  <2>1. gate' = gate
    BY <1>28 DEF ResolveHold, SetTask, db, ram, net, actors, device, past
  <2> QED BY <2>1 DEF GateCase
<1>29. ASSUME NEW r \in Runs, NEW action \in {"clear", "repeat"}, AnswerPlate(r, action) PROVE GateCase
  <2>1. gate = r /\ gate' = NoRun /\ onPlate' = FALSE
    BY <1>29 DEF AnswerPlate, Answerable
  <2> QED BY <1>29, <2>1 DEF GateCase
<1>30. ASSUME Resume PROVE GateCase
  <2>1. gate' = gate
    BY <1>30 DEF Resume, SetTask, db, ram, net, actors, device, past
  <2> QED BY <2>1 DEF GateCase
<1>31. ASSUME Drop PROVE GateCase
  <2>1. gate' = gate
    BY <1>31 DEF Drop, SetTask, db, ram, net, actors, device, past
  <2> QED BY <2>1 DEF GateCase
<1>32. ASSUME Connect PROVE GateCase
  <2>1. gate' = gate
    BY <1>32 DEF Connect, SetTask, db, ram, net, actors, device, past
  <2> QED BY <2>1 DEF GateCase
<1>33. ASSUME Crash PROVE GateCase
  <2>1. gate' = gate
    BY <1>33 DEF Crash, SetTask, db, ram, net, actors, device, past
  <2> QED BY <2>1 DEF GateCase
<1>34. ASSUME Restart PROVE GateCase
  <2>1. gate' = gate
    BY <1>34 DEF Restart, SetTask, db, ram, net, actors, device, past
  <2> QED BY <2>1 DEF GateCase
<1>35. CASE UNCHANGED vars
  BY <1>35 DEF vars, GateCase, db, ram, net, actors, device, past
<1> QED
  BY <1>1, <1>2, <1>3, <1>4, <1>5, <1>6, <1>7, <1>8, <1>9, <1>10, <1>11, <1>12, <1>13, <1>14, <1>15, <1>16,
     <1>17, <1>18, <1>19, <1>20, <1>21, <1>22, <1>23, <1>24, <1>25, <1>26, <1>27, <1>28, <1>29, <1>30, <1>31,
     <1>32, <1>33, <1>34, <1>35
     DEF Next, Printer, Live, Operator, Sweep, Resolve

(* Who writes what an archive tells of its run. *)
SameTold(q) == arch'[q].status = arch[q].status /\ arch'[q].marker = arch[q].marker

StoryCase(q) ==
    \/ SameTold(q)
    \/ Accept /\ q = report.run
    \/ LiveFinalize /\ q = live.run /\ arch[q].status = "printing" /\ arch'[q].marker = "db_finalized"
    \/ \E s \in Sweepers : SweepRecover(s, q) \/ SweepClose(s, q)

LEMMA StoryFrame == OnceInv /\ SwapInv /\ [Next]_vars => StartOr(\A q \in Runs : StoryCase(q))
<1> SUFFICES ASSUME OnceInv, SwapInv, [Next]_vars PROVE StartOr(\A q \in Runs : StoryCase(q))
  OBVIOUS
<1> USE DEF StartOr
<1>1. ASSUME NEW i \in Items, Start(i) PROVE StartOr(\A q \in Runs : StoryCase(q))
  BY <1>1
<1>2. ASSUME NEW outcome \in Terminal, PrintEnds(outcome) PROVE StartOr(\A q \in Runs : StoryCase(q))
  <2>1. arch' = arch
    BY <1>2 DEF PrintEnds, SetTask, db, ram, net, actors, device, past
  <2> QED BY <2>1 DEF SameTold, StoryCase
<1>3. ASSUME PrinterForgets PROVE StartOr(\A q \in Runs : StoryCase(q))
  <2>1. arch' = arch
    BY <1>3 DEF PrinterForgets, SetTask, db, ram, net, actors, device, past
  <2> QED BY <2>1 DEF SameTold, StoryCase
<1>4. ASSUME NEW r \in Runs, PrinterSwaps(r) PROVE StartOr(\A q \in Runs : StoryCase(q))
  <2>1. arch' = arch
    BY <1>4 DEF PrinterSwaps, SetTask, db, ram, net, actors, device, past
  <2> QED BY <2>1 DEF SameTold, StoryCase
<1>5. ASSUME Accept PROVE StartOr(\A q \in Runs : StoryCase(q))
  <2>1. \A q \in Runs \ {report.run} : arch'[q] = arch[q]
    BY <1>5, Parts, AcceptWrites
  <2> QED BY <1>5, <2>1 DEF SameTold, StoryCase
<1>6. ASSUME LiveDecide PROVE StartOr(\A q \in Runs : StoryCase(q))
  <2>1. arch' = arch
    BY <1>6 DEF LiveDecide, SetTask, db, ram, net, actors, device, past
  <2> QED BY <2>1 DEF SameTold, StoryCase
<1>7. ASSUME LiveClaim PROVE StartOr(\A q \in Runs : StoryCase(q))
  <2>1. \A q \in Runs : SameStory(q)
    BY <1>7, QuietKeeps DEF Quiet
  <2> QED BY <2>1 DEF SameStory, SameTold, StoryCase
<1>8. ASSUME LiveSend PROVE StartOr(\A q \in Runs : StoryCase(q))
  <2>1. arch' = arch
    BY <1>8 DEF LiveSend, SetTask, db, ram, net, actors, device, past
  <2> QED BY <2>1 DEF SameTold, StoryCase
<1>9. ASSUME NEW ok \in BOOLEAN, LiveAnswer(ok) PROVE StartOr(\A q \in Runs : StoryCase(q))
  <2>1. \A q \in Runs : SameStory(q)
    BY <1>9, QuietKeeps DEF Quiet
  <2> QED BY <2>1 DEF SameStory, SameTold, StoryCase
<1>10. ASSUME LiveError PROVE StartOr(\A q \in Runs : StoryCase(q))
  <2>1. arch' = arch
    BY <1>10 DEF LiveError, SetTask, db, ram, net, actors, device, past
  <2> QED BY <2>1 DEF SameTold, StoryCase
<1>11. ASSUME LiveHold PROVE StartOr(\A q \in Runs : StoryCase(q))
  <2>1. \A q \in Runs : SameStory(q)
    BY <1>11, QuietKeeps DEF Quiet
  <2> QED BY <2>1 DEF SameStory, SameTold, StoryCase
<1>12. ASSUME LiveGate PROVE StartOr(\A q \in Runs : StoryCase(q))
  <2>1. arch' = arch
    BY <1>12 DEF LiveGate, SetTask, db, ram, net, actors, device, past
  <2> QED BY <2>1 DEF SameTold, StoryCase
<1>13. ASSUME LiveFinalize PROVE StartOr(\A q \in Runs : StoryCase(q))
  <2> SUFFICES ASSUME NEW q \in Runs PROVE StoryCase(q)
    OBVIOUS
  <2>1. \/ arch'[q] = arch[q]
        \/ q = live.run /\ arch[q].status = "printing" /\ arch'[q].marker = "db_finalized"
    BY <1>13, Parts, EndsWrites
  <2> QED BY <1>13, <2>1 DEF SameTold, StoryCase
<1>14. ASSUME LiveTidy PROVE StartOr(\A q \in Runs : StoryCase(q))
  <2>1. arch' = arch
    BY <1>14 DEF LiveTidy, SetTask, db, ram, net, actors, device, past
  <2> QED BY <2>1 DEF SameTold, StoryCase
<1>15. ASSUME NEW s \in Sweepers, SweepBegin(s) PROVE StartOr(\A q \in Runs : StoryCase(q))
  <2>1. arch' = arch
    BY <1>15 DEF SweepBegin, SetTask, db, ram, net, actors, device, past
  <2> QED BY <2>1 DEF SameTold, StoryCase
<1>16. ASSUME NEW s \in Sweepers, SweepRepair(s) PROVE StartOr(\A q \in Runs : StoryCase(q))
  <2>1. arch' = arch
    BY <1>16 DEF SweepRepair, SetTask, db, ram, net, actors, device, past
  <2> QED BY <2>1 DEF SameTold, StoryCase
<1>17. ASSUME NEW s \in Sweepers, NEW r \in Runs, SweepRecover(s, r) PROVE StartOr(\A q \in Runs : StoryCase(q))
  <2>1. ArchOK /\ Known
    BY Parts
  <2>2. \A q \in Runs \ {r} : arch'[q] = arch[q]
    BY <1>17, <2>1, RecoverWrites
  <2> QED BY <1>17, <2>2 DEF SameTold, StoryCase
<1>18. ASSUME NEW s \in Sweepers, NEW r \in Runs, SweepClose(s, r) PROVE StartOr(\A q \in Runs : StoryCase(q))
  <2>1. ArchOK /\ SweepOK /\ SweepTruth
    BY Parts
  <2>2. \A q \in Runs \ {r} : arch'[q] = arch[q]
    BY <1>18, <2>1, ClosingWrites
  <2> QED BY <1>18, <2>2 DEF SameTold, StoryCase
<1>19. ASSUME NEW s \in Sweepers, SweepGate(s) PROVE StartOr(\A q \in Runs : StoryCase(q))
  <2>1. arch' = arch
    BY <1>19 DEF SweepGate, SetTask, db, ram, net, actors, device, past
  <2> QED BY <2>1 DEF SameTold, StoryCase
<1>20. ASSUME NEW s \in Sweepers, SweepRow(s) PROVE StartOr(\A q \in Runs : StoryCase(q))
  <2>1. arch' = arch
    BY <1>20 DEF SweepRow, SetTask, db, ram, net, actors, device, past
  <2> QED BY <2>1 DEF SameTold, StoryCase
<1>21. ASSUME NEW s \in Sweepers, SweepEnd(s) PROVE StartOr(\A q \in Runs : StoryCase(q))
  <2>1. arch' = arch
    BY <1>21 DEF SweepEnd, SetTask, db, ram, net, actors, device, past
  <2> QED BY <2>1 DEF SameTold, StoryCase
<1>22. ASSUME NEW t \in Tasks, ResolveRead(t) PROVE StartOr(\A q \in Runs : StoryCase(q))
  <2>1. arch' = arch
    BY <1>22 DEF ResolveRead, SetTask, db, ram, net, actors, device, past
  <2> QED BY <2>1 DEF SameTold, StoryCase
<1>23. ASSUME NEW t \in Tasks, ResolveClaim(t) PROVE StartOr(\A q \in Runs : StoryCase(q))
  <2>1. \A q \in Runs : SameStory(q)
    BY <1>23, QuietKeeps DEF Quiet
  <2> QED BY <2>1 DEF SameStory, SameTold, StoryCase
<1>24. ASSUME NEW t \in Tasks, ResolveSend(t) PROVE StartOr(\A q \in Runs : StoryCase(q))
  <2>1. arch' = arch
    BY <1>24 DEF ResolveSend, SetTask, db, ram, net, actors, device, past
  <2> QED BY <2>1 DEF SameTold, StoryCase
<1>25. ASSUME NEW t \in Tasks, NEW ok \in BOOLEAN, ResolveAnswer(t, ok) PROVE StartOr(\A q \in Runs : StoryCase(q))
  <2>1. \A q \in Runs : SameStory(q)
    BY <1>25, QuietKeeps DEF Quiet
  <2> QED BY <2>1 DEF SameStory, SameTold, StoryCase
<1>26. ASSUME NEW t \in Tasks, ResolveError(t) PROVE StartOr(\A q \in Runs : StoryCase(q))
  <2>1. arch' = arch
    BY <1>26 DEF ResolveError, SetTask, db, ram, net, actors, device, past
  <2> QED BY <2>1 DEF SameTold, StoryCase
<1>27. ASSUME NEW t \in Tasks, ResolveSettle(t) PROVE StartOr(\A q \in Runs : StoryCase(q))
  <2>1. arch' = arch
    BY <1>27 DEF ResolveSettle, SetTask, db, ram, net, actors, device, past
  <2> QED BY <2>1 DEF SameTold, StoryCase
<1>28. ASSUME NEW t \in Tasks, ResolveHold(t) PROVE StartOr(\A q \in Runs : StoryCase(q))
  <2>1. \A q \in Runs : SameStory(q)
    BY <1>28, QuietKeeps DEF Quiet
  <2> QED BY <2>1 DEF SameStory, SameTold, StoryCase
<1>29. ASSUME NEW r \in Runs, NEW action \in {"clear", "repeat"}, AnswerPlate(r, action) PROVE StartOr(\A q \in Runs : StoryCase(q))
  <2>1. arch' = arch
    BY <1>29 DEF AnswerPlate, SetTask, db, ram, net, actors, device, past
  <2> QED BY <2>1 DEF SameTold, StoryCase
<1>30. ASSUME Resume PROVE StartOr(\A q \in Runs : StoryCase(q))
  <2>1. arch' = arch
    BY <1>30 DEF Resume, SetTask, db, ram, net, actors, device, past
  <2> QED BY <2>1 DEF SameTold, StoryCase
<1>31. ASSUME Drop PROVE StartOr(\A q \in Runs : StoryCase(q))
  <2>1. arch' = arch
    BY <1>31 DEF Drop, SetTask, db, ram, net, actors, device, past
  <2> QED BY <2>1 DEF SameTold, StoryCase
<1>32. ASSUME Connect PROVE StartOr(\A q \in Runs : StoryCase(q))
  <2>1. arch' = arch
    BY <1>32 DEF Connect, SetTask, db, ram, net, actors, device, past
  <2> QED BY <2>1 DEF SameTold, StoryCase
<1>33. ASSUME Crash PROVE StartOr(\A q \in Runs : StoryCase(q))
  <2>1. arch' = arch
    BY <1>33 DEF Crash, SetTask, db, ram, net, actors, device, past
  <2> QED BY <2>1 DEF SameTold, StoryCase
<1>34. ASSUME Restart PROVE StartOr(\A q \in Runs : StoryCase(q))
  <2>1. arch' = arch
    BY <1>34 DEF Restart, SetTask, db, ram, net, actors, device, past
  <2> QED BY <2>1 DEF SameTold, StoryCase
<1>35. CASE UNCHANGED vars
  BY <1>35 DEF vars, SameTold, StoryCase, db, ram, net, actors, device, past
<1> QED
  BY <1>1, <1>2, <1>3, <1>4, <1>5, <1>6, <1>7, <1>8, <1>9, <1>10, <1>11, <1>12, <1>13, <1>14, <1>15, <1>16,
     <1>17, <1>18, <1>19, <1>20, <1>21, <1>22, <1>23, <1>24, <1>25, <1>26, <1>27, <1>28, <1>29, <1>30, <1>31,
     <1>32, <1>33, <1>34, <1>35
     DEF Next, Printer, Live, Operator, Sweep, Resolve

(* Who sends the printer a command. *)
CommandCase == commands' = commands \/ LiveSend \/ \E t \in Tasks : ResolveSend(t)

LEMMA CommandFrame == OnceInv /\ [Next]_vars => CommandCase
<1> SUFFICES ASSUME OnceInv, [Next]_vars PROVE CommandCase
  OBVIOUS
<1>1. ASSUME NEW i \in Items, Start(i) PROVE CommandCase
  BY <1>1 DEF Start, SetTask, CommandCase, db, ram, net, actors, device, past
<1>2. ASSUME NEW outcome \in Terminal, PrintEnds(outcome) PROVE CommandCase
  BY <1>2 DEF PrintEnds, SetTask, CommandCase, db, ram, net, actors, device, past
<1>3. ASSUME PrinterForgets PROVE CommandCase
  BY <1>3 DEF PrinterForgets, SetTask, CommandCase, db, ram, net, actors, device, past
<1>4. ASSUME NEW r \in Runs, PrinterSwaps(r) PROVE CommandCase
  BY <1>4 DEF PrinterSwaps, SetTask, CommandCase, db, ram, net, actors, device, past
<1>5. ASSUME Accept PROVE CommandCase
  BY <1>5 DEF Accept, SetTask, CommandCase, db, ram, net, actors, device, past
<1>6. ASSUME LiveDecide PROVE CommandCase
  BY <1>6 DEF LiveDecide, SetTask, CommandCase, db, ram, net, actors, device, past
<1>7. ASSUME LiveClaim PROVE CommandCase
  BY <1>7 DEF LiveClaim, SetTask, CommandCase, db, ram, net, actors, device, past
<1>8. ASSUME LiveSend PROVE CommandCase
  BY <1>8 DEF CommandCase
<1>9. ASSUME NEW ok \in BOOLEAN, LiveAnswer(ok) PROVE CommandCase
  BY <1>9 DEF LiveAnswer, SetTask, CommandCase, db, ram, net, actors, device, past
<1>10. ASSUME LiveError PROVE CommandCase
  BY <1>10 DEF LiveError, SetTask, CommandCase, db, ram, net, actors, device, past
<1>11. ASSUME LiveHold PROVE CommandCase
  BY <1>11 DEF LiveHold, SetTask, CommandCase, db, ram, net, actors, device, past
<1>12. ASSUME LiveGate PROVE CommandCase
  BY <1>12 DEF LiveGate, SetTask, CommandCase, db, ram, net, actors, device, past
<1>13. ASSUME LiveFinalize PROVE CommandCase
  BY <1>13 DEF LiveFinalize, SetTask, CommandCase, db, ram, net, actors, device, past
<1>14. ASSUME LiveTidy PROVE CommandCase
  BY <1>14 DEF LiveTidy, SetTask, CommandCase, db, ram, net, actors, device, past
<1>15. ASSUME NEW s \in Sweepers, SweepBegin(s) PROVE CommandCase
  BY <1>15 DEF SweepBegin, SetTask, CommandCase, db, ram, net, actors, device, past
<1>16. ASSUME NEW s \in Sweepers, SweepRepair(s) PROVE CommandCase
  BY <1>16 DEF SweepRepair, SetTask, CommandCase, db, ram, net, actors, device, past
<1>17. ASSUME NEW s \in Sweepers, NEW r \in Runs, SweepRecover(s, r) PROVE CommandCase
  BY <1>17 DEF SweepRecover, SetTask, CommandCase, db, ram, net, actors, device, past
<1>18. ASSUME NEW s \in Sweepers, NEW r \in Runs, SweepClose(s, r) PROVE CommandCase
  BY <1>18 DEF SweepClose, SetTask, CommandCase, db, ram, net, actors, device, past
<1>19. ASSUME NEW s \in Sweepers, SweepGate(s) PROVE CommandCase
  BY <1>19 DEF SweepGate, SetTask, CommandCase, db, ram, net, actors, device, past
<1>20. ASSUME NEW s \in Sweepers, SweepRow(s) PROVE CommandCase
  BY <1>20 DEF SweepRow, SetTask, CommandCase, db, ram, net, actors, device, past
<1>21. ASSUME NEW s \in Sweepers, SweepEnd(s) PROVE CommandCase
  BY <1>21 DEF SweepEnd, SetTask, CommandCase, db, ram, net, actors, device, past
<1>22. ASSUME NEW t \in Tasks, ResolveRead(t) PROVE CommandCase
  BY <1>22 DEF ResolveRead, SetTask, CommandCase, db, ram, net, actors, device, past
<1>23. ASSUME NEW t \in Tasks, ResolveClaim(t) PROVE CommandCase
  BY <1>23 DEF ResolveClaim, SetTask, CommandCase, db, ram, net, actors, device, past
<1>24. ASSUME NEW t \in Tasks, ResolveSend(t) PROVE CommandCase
  BY <1>24 DEF CommandCase
<1>25. ASSUME NEW t \in Tasks, NEW ok \in BOOLEAN, ResolveAnswer(t, ok) PROVE CommandCase
  BY <1>25 DEF ResolveAnswer, SetTask, CommandCase, db, ram, net, actors, device, past
<1>26. ASSUME NEW t \in Tasks, ResolveError(t) PROVE CommandCase
  BY <1>26 DEF ResolveError, SetTask, CommandCase, db, ram, net, actors, device, past
<1>27. ASSUME NEW t \in Tasks, ResolveSettle(t) PROVE CommandCase
  BY <1>27 DEF ResolveSettle, SetTask, CommandCase, db, ram, net, actors, device, past
<1>28. ASSUME NEW t \in Tasks, ResolveHold(t) PROVE CommandCase
  BY <1>28 DEF ResolveHold, SetTask, CommandCase, db, ram, net, actors, device, past
<1>29. ASSUME NEW r \in Runs, NEW action \in {"clear", "repeat"}, AnswerPlate(r, action) PROVE CommandCase
  BY <1>29 DEF AnswerPlate, SetTask, CommandCase, db, ram, net, actors, device, past
<1>30. ASSUME Resume PROVE CommandCase
  BY <1>30 DEF Resume, SetTask, CommandCase, db, ram, net, actors, device, past
<1>31. ASSUME Drop PROVE CommandCase
  BY <1>31 DEF Drop, SetTask, CommandCase, db, ram, net, actors, device, past
<1>32. ASSUME Connect PROVE CommandCase
  BY <1>32 DEF Connect, SetTask, CommandCase, db, ram, net, actors, device, past
<1>33. ASSUME Crash PROVE CommandCase
  BY <1>33 DEF Crash, SetTask, CommandCase, db, ram, net, actors, device, past
<1>34. ASSUME Restart PROVE CommandCase
  BY <1>34 DEF Restart, SetTask, CommandCase, db, ram, net, actors, device, past
<1>35. CASE UNCHANGED vars
  BY <1>35 DEF vars, CommandCase, db, ram, net, actors, device, past
<1> QED
  BY <1>1, <1>2, <1>3, <1>4, <1>5, <1>6, <1>7, <1>8, <1>9, <1>10, <1>11, <1>12, <1>13, <1>14, <1>15, <1>16,
     <1>17, <1>18, <1>19, <1>20, <1>21, <1>22, <1>23, <1>24, <1>25, <1>26, <1>27, <1>28, <1>29, <1>30, <1>31,
     <1>32, <1>33, <1>34, <1>35
     DEF Next, Printer, Live, Operator, Sweep, Resolve


LEMMA PrintsFade ==
    ASSUME \A i \in Items : RowFades(i), NEW q, RowPrints(q)'
    PROVE  /\ RowPrints(q)
           /\ \E i \in Items : link[i] = q /\ row[i] = "printing" /\ link'[i] = q /\ row'[i] = "printing"
  BY DEF RowPrints, RowFades

(* What a completion that goes on is doing. *)
LEMMA LivePcs ==
    ASSUME OnceInv, SwapInv, [Next]_vars, live'.pc # "none", live' # live, ~Accept
    PROVE  /\ SameLive /\ live.pc # "none"
           /\ \/ LiveGate /\ live.pc = "gate" /\ live'.pc = "finalize" /\ live'.cleared = live.cleared
              \/ LiveFinalize /\ live.pc = "finalize" /\ live'.pc = "tidy" /\ live'.cleared = live.cleared
              \/ /\ live.pc \in {"decide", "claim", "send", "sent", "hold"}
                 /\ live'.pc \in {"claim", "send", "sent", "hold", "gate"}
<1>0. LiveOK /\ ArchOK /\ Known /\ LiveCase
  BY Parts, LiveTurns
<1>1. live' # NoLive
  BY NoLiveFields
<1>2. CASE LiveDecide
  BY <1>0, <1>2, DecideMoves
<1>3. CASE LiveClaim
  BY <1>0, <1>3, ClaimMoves
<1>4. CASE LiveSend
  BY <1>0, <1>4, SendMoves
<1>5. ASSUME NEW ok \in BOOLEAN, LiveAnswer(ok)
      PROVE  /\ SameLive /\ live.pc \in {"decide", "claim", "send", "sent", "hold"}
             /\ live'.pc \in {"claim", "send", "sent", "hold", "gate"}
  BY <1>0, <1>5, LiveAnswerMoves
<1>6. CASE LiveError
  BY <1>0, <1>6, ErrorMoves
<1>7. CASE LiveHold
  BY <1>0, <1>7, HoldMoves
<1>8. CASE LiveGate
  BY <1>0, <1>8, LiveGateMoves
<1>9. CASE LiveFinalize
  <2>1. live.pc = "finalize" /\ live' = [live EXCEPT !.pc = "tidy"]
    BY <1>0, <1>1, <1>9, EndsWrites
  <2>2. SameLive /\ live'.cleared = live.cleared /\ live'.pc = "tidy"
    BY <1>0, <2>1, TidyFields
  <2> QED BY <1>9, <2>1, <2>2
<1>10. CASE LiveTidy
  BY <1>1, <1>10 DEF LiveTidy
<1> QED BY <1>0, <1>1, <1>2, <1>3, <1>4, <1>5, <1>6, <1>7, <1>8, <1>9, <1>10 DEF LiveCase, Live

-----------------------------------------------------------------------------
(* The gate.  It is never the gate of a run that still prints, but for the  *)
(* moment between arming it and closing the run.                            *)

(* The completion's row is the only row of its run. *)
LiveLink == live.pc # "none" => \A i \in Items : link[i] = live.run => i = live.row

GateOff == ~RequirePlateClear => gate = NoRun
GateMade == gate # NoRun => gate \in Runs /\ Made(gate)
GateHeld ==
    gate # NoRun /\ arch[gate].status = "printing" =>
        /\ arch[gate].marker = "accepted"
        /\ live.pc # "none" /\ live.run = gate => live.pc = "finalize" /\ ~live.cleared
TidyClosed ==
    live.pc = "tidy" =>
        arch[live.run].status \in Terminal /\ arch[live.run].marker = "db_finalized" /\ ~RowPrints(live.run)
TidyUngated == live.pc = "tidy" /\ live.cleared => gate # live.run
TidyRow ==
    live.pc = "tidy" /\ live.outcome = "completed" /\ (live.cleared \/ ~RequirePlateClear) =>
        row[live.row] \in {"completed", "gone"} /\ link[live.row] = live.run
SweepUnmarked == \A s \in Sweepers : sweep[s].pc \in {"gate", "row"} => arch[sweep[s].run].marker # "db_finalized"
GateInv ==
    /\ LiveLink /\ GateOff /\ GateMade /\ GateHeld /\ TidyClosed /\ TidyUngated /\ TidyRow /\ SweepUnmarked

(* What is said of a closed run is changed by a recovery only. *)
LEMMA ClosedStays ==
    ASSUME OnceInv, SwapInv, [Next]_vars, NEW q \in Runs, StoryCase(q), arch[q].status \in Terminal
    PROVE  SameTold(q) \/ (RowPrints(q) /\ arch'[q].marker = "recovered_uncertain")
<1>0. ArchOK /\ LiveOK /\ SweepOK /\ SweepTruth /\ Known /\ OtherOK
  BY Parts
<1>1. arch[q].status # "printing"
  BY DEF Terminal
<1>2. CASE Accept /\ q = report.run
  BY <1>0, <1>1, <1>2, AcceptWrites
<1>3. ASSUME NEW s \in Sweepers, SweepClose(s, q) PROVE FALSE
  BY <1>0, <1>1, <1>3, ClosingWrites
<1>4. ASSUME NEW s \in Sweepers, SweepRecover(s, q)
      PROVE  RowPrints(q) /\ arch'[q].marker = "recovered_uncertain"
  BY <1>0, <1>4, RecoverWrites DEF RowPrints
<1> QED BY <1>1, <1>2, <1>3, <1>4 DEF StoryCase

LEMMA StartGates ==
    ASSUME OnceInv, SwapInv, RowsInv, GateInv, NEW i \in Items, Start(i)
    PROVE  GateInv'
<1>0. /\ LiveLink /\ TidyClosed /\ TidyRow /\ SweepUnmarked
      /\ OrderInv /\ RowOK /\ RowInv /\ SweepsClosed /\ LiveRow
  BY DEF GateInv, RowsInv, RestOK
<1>1. PICK r \in Runs :
         /\ arch[r].status = "none" /\ (live.pc # "none" => live.run # r)
         /\ \A q \in Runs \ {r} : arch'[q] = arch[q]
         /\ row' = [row EXCEPT ![i] = "printing"] /\ link' = [link EXCEPT ![i] = r]
         /\ UNCHANGED <<live, sweep, task, gate>>
  BY <1>0, StartFacts
<1>2. gate = NoRun /\ gate' = NoRun /\ row[i] = "pending"
  BY <1>1 DEF Start
<1>3. live.pc # "none" => live.run \in Runs /\ live.run # NoRun /\ arch'[live.run] = arch[live.run]
  BY <1>1, Parts, RunsAreNumbers DEF LiveTruth
<1>4. LiveLink'
  BY <1>0, <1>1 DEF LiveLink, RowOK
<1>5. GateOff' /\ GateMade' /\ GateHeld' /\ TidyUngated'
  BY <1>1, <1>2, <1>3 DEF GateOff, GateMade, GateHeld, TidyUngated
<1>6. TidyClosed'
  <2>1. live.pc = "tidy" /\ ~RowPrints(live.run) => ~RowPrints(live.run)'
    BY <1>0, <1>1 DEF RowPrints, RowOK
  <2> QED BY <1>0, <1>1, <1>3, <2>1 DEF TidyClosed, RowPrints
<1>7. TidyRow'
  BY <1>0, <1>1, <1>2 DEF TidyRow, RowOK, LiveRow
<1>8. SweepUnmarked'
  <2> SUFFICES ASSUME NEW s \in Sweepers, sweep[s].pc \in {"gate", "row"}
               PROVE  arch'[sweep[s].run].marker # "db_finalized"
    BY <1>1 DEF SweepUnmarked
  <2>1. sweep[s].run \in Runs /\ sweep[s].run # r
    BY <1>0, <1>1, Parts DEF Known, SweepsClosed, Terminal
  <2> QED BY <1>0, <1>1, <2>1 DEF SweepUnmarked
<1> QED BY <1>4, <1>5, <1>6, <1>7, <1>8 DEF GateInv

LEMMA GatesHold == OnceInv /\ SwapInv /\ RowsInv /\ MarkInv /\ GateInv /\ [Next]_vars => GateInv'
<1> SUFFICES ASSUME OnceInv, SwapInv, RowsInv, MarkInv, GateInv, [Next]_vars PROVE GateInv'
  OBVIOUS
<1>1. ASSUME NEW i \in Items, Start(i) PROVE GateInv'
  BY <1>1, StartGates
<1>2. ASSUME \A i \in Items : ~Start(i) PROVE GateInv'
  <2>0. /\ LiveLink /\ GateOff /\ GateMade /\ GateHeld /\ TidyClosed /\ TidyUngated /\ TidyRow /\ SweepUnmarked
        /\ OrderInv /\ RowOK /\ RowInv /\ SweepsClosed /\ LiveRow
        /\ LiveMarked /\ PrintingMarks
    BY DEF GateInv, RowsInv, RestOK, MarkInv
  <2>1. (\A q \in Runs : ArchFades(q) /\ StoryCase(q)) /\ (\A i \in Items : RowFades(i)) /\ NoStart
    BY <1>2, <2>0, ArchsFade, StoryFrame, RowsFade, StepFrame DEF StartOr, StartOrNot
  <2>2. GateCase /\ LiveCase /\ (Accept \/ LiveStays)
    BY GateFrame, LiveTurns, LiveFrame
  <2>3. ArchOK /\ LiveOK /\ SweepOK /\ OtherOK /\ Known /\ SweepTruth
    BY Parts
  <2>4. live.pc # "none" => live.run \in Runs /\ live.run # NoRun /\ Made(live.run)
    BY <2>3, Parts, RunsAreNumbers DEF LiveTruth, ArchTruth, Made, Known, Terminal
  <2>5. LiveLink'
    <3>1. CASE Accept
      <4>1. PICK i \in Items : link[i] = report.run /\ live'.run = report.run /\ live'.row = i
        BY <2>3, <3>1, AcceptWrites
      <4>2. report.run # NoRun /\ link' = link
        BY <3>1 DEF Accept
      <4> QED BY <2>0, <4>1, <4>2 DEF LiveLink, RowInv, LinkInjective
    <3>2. CASE LiveStays
      BY <2>0, <2>1, <2>4, <3>2 DEF LiveLink, LiveStays, NoStart
    <3> QED BY <2>2, <3>1, <3>2
  <2>6. GateOff'
    BY <2>0, <2>2 DEF GateOff, GateCase
  <2>7. GateMade'
    <3>1. ASSUME NEW s \in Sweepers, SweepGate(s) PROVE sweep[s].run \in Runs /\ Made(sweep[s].run)
      BY <2>0, <2>3, <3>1 DEF SweepGate, Known, SweepsClosed, Made, Terminal
    <3>2. LiveGate => live.pc # "none"
      BY DEF LiveGate
    <3>3. gate' # NoRun => gate' \in Runs /\ Made(gate')
      BY <2>0, <2>2, <2>4, <3>1, <3>2 DEF GateMade, GateCase
    <3>4. PICK g : g = gate'
      OBVIOUS
    <3>5. g # NoRun => g \in Runs /\ Made(g)'
      BY <2>1, <3>3, <3>4 DEF NoStart
    <3> QED BY <3>4, <3>5 DEF GateMade, Made
  <2>8. GateHeld'
    <3> SUFFICES ASSUME gate' # NoRun, arch'[gate'].status = "printing"
                 PROVE  /\ arch'[gate'].marker = "accepted"
                        /\ live'.pc # "none" /\ live'.run = gate' => live'.pc = "finalize" /\ ~live'.cleared
      BY DEF GateHeld
    <3>1. CASE gate' = gate
      <4>1. gate \in Runs /\ gate # NoRun
        BY <2>0, <3>1 DEF GateMade
      <4>2. arch[gate].status = "printing" /\ arch[gate].marker = "accepted" /\ arch'[gate].marker = "accepted"
        BY <2>0, <2>1, <3>1, <4>1 DEF GateHeld, ArchFades
      <4>3. ASSUME live'.pc # "none", live'.run = gate PROVE live'.pc = "finalize" /\ ~live'.cleared
        <5>1. ~Accept
          BY <2>3, <4>2, <4>3, AcceptWrites
        <5>2. CASE live' = live
          BY <2>0, <4>1, <4>2, <4>3, <5>2 DEF GateHeld
        <5>3. CASE live' # live
          <6>1. live.pc = "finalize" /\ live.run = gate
            BY <2>0, <2>2, <4>1, <4>2, <4>3, <5>1 DEF GateHeld, LiveStays
          <6>2. LiveFinalize /\ live'.pc = "tidy"
            BY <4>3, <5>1, <5>3, <6>1, LivePcs
          <6>3. live' # NoLive
            BY <4>3, NoLiveFields
          <6>4. arch'[gate].status = live.outcome /\ live.outcome \in Terminal
            BY <2>3, <4>1, <6>1, <6>2, <6>3, EndsWrites
          <6> QED BY <3>1, <6>4 DEF Terminal
        <5> QED BY <5>2, <5>3
      <4> QED BY <3>1, <4>2, <4>3
    <3>2. CASE LiveGate /\ ~live.cleared /\ gate' = live.run
      <4>1. live.pc # "none" /\ arch' = arch
        BY <3>2 DEF LiveGate
      <4>2. live.run \in Runs /\ arch[live.run].status = "printing" /\ arch[live.run].marker # "none"
        BY <2>0, <2>4, <3>2, <4>1 DEF LiveMarked
      <4>3. arch[live.run].marker = "accepted"
        BY <2>0, <4>2 DEF PrintingMarks
      <4>4. live'.pc = "finalize" /\ live'.cleared = live.cleared
        BY <2>3, <3>2, LiveGateMoves
      <4> QED BY <3>2, <4>1, <4>3, <4>4
    <3>3. ASSUME NEW s \in Sweepers, SweepGate(s), gate' = sweep[s].run PROVE FALSE
      BY <2>0, <3>3 DEF SweepGate, SweepsClosed, Terminal
    <3> QED BY <2>2, <3>1, <3>2, <3>3 DEF GateCase
  <2>9. TidyClosed'
    <3> SUFFICES ASSUME live'.pc = "tidy"
                 PROVE  /\ arch'[live'.run].status \in Terminal /\ arch'[live'.run].marker = "db_finalized"
                        /\ ~(\E i \in Items : link'[i] = live'.run /\ row'[i] = "printing")
      BY DEF TidyClosed, RowPrints
    <3>1. CASE live' = live
      <4>1. live.run \in Runs /\ arch[live.run].status \in Terminal /\ arch[live.run].marker = "db_finalized"
            /\ ~RowPrints(live.run)
        BY <2>0, <2>4, <3>1 DEF TidyClosed
      <4>2. SameTold(live.run)
        BY <2>1, <4>1, ClosedStays
      <4>3. ~(\E i \in Items : link'[i] = live.run /\ row'[i] = "printing")
        BY <2>1, <4>1 DEF RowFades, RowPrints
      <4> QED BY <3>1, <4>1, <4>2, <4>3 DEF SameTold
    <3>2. CASE live' # live
      <4>1. ~Accept
        BY <2>3, AcceptWrites
      <4>2. LiveFinalize /\ SameLive /\ live' # NoLive /\ live.pc # "none"
        BY <3>2, <4>1, LivePcs, NoLiveFields
      <4>3. /\ live.outcome \in Terminal /\ link[live.row] = live.run /\ row' = [row EXCEPT ![live.row] = live.outcome]
            /\ arch'[live.run].status = live.outcome /\ arch'[live.run].marker = "db_finalized"
        BY <2>3, <2>4, <4>2, EndsWrites
      <4>4. live.row \in Items /\ row'[live.row] # "printing"
        BY <2>0, <4>2, <4>3 DEF LiveRow, RowOK, Terminal
      <4>5. link' = link
        BY <4>2 DEF LiveFinalize
      <4>6. ~(\E i \in Items : link'[i] = live.run /\ row'[i] = "printing")
        BY <2>0, <4>2, <4>4, <4>5 DEF LiveLink
      <4> QED BY <4>2, <4>3, <4>6 DEF SameLive
    <3> QED BY <3>1, <3>2
  <2>10. TidyUngated'
    <3> SUFFICES ASSUME live'.pc = "tidy", live'.cleared PROVE gate' # live'.run
      BY DEF TidyUngated
    <3>1. CASE live' = live
      <4>1. gate # live.run /\ arch[live.run].marker = "db_finalized" /\ live.run # NoRun /\ ~LiveGate
        BY <2>0, <2>4, <3>1 DEF TidyUngated, TidyClosed, LiveGate
      <4>2. ASSUME NEW s \in Sweepers, SweepGate(s) PROVE sweep[s].run # live.run
        BY <2>0, <4>1, <4>2 DEF SweepUnmarked, SweepGate
      <4> QED BY <2>2, <3>1, <4>1, <4>2 DEF GateCase
    <3>2. CASE live' # live
      <4>1. ~Accept
        BY <2>3, AcceptWrites
      <4>2. /\ LiveFinalize /\ SameLive /\ live' # NoLive /\ live.pc = "finalize"
            /\ live'.cleared = live.cleared
        BY <3>2, <4>1, LivePcs, NoLiveFields
      <4>3. arch[live.run].status = "printing"
        BY <2>3, <4>2, EndsWrites
      <4>4. gate' = gate
        BY <4>2 DEF LiveFinalize
      <4>5. gate # live.run
        BY <2>0, <2>4, <4>2, <4>3 DEF GateHeld
      <4> QED BY <4>2, <4>4, <4>5 DEF SameLive
    <3> QED BY <3>1, <3>2
  <2>11. TidyRow'
    <3> SUFFICES ASSUME live'.pc = "tidy", live'.outcome = "completed", live'.cleared \/ ~RequirePlateClear
                 PROVE  row'[live'.row] \in {"completed", "gone"} /\ link'[live'.row] = live'.run
      BY DEF TidyRow
    <3>1. CASE live' = live
      <4>1. row[live.row] \in {"completed", "gone"} /\ link[live.row] = live.run /\ live.row \in Items
        BY <2>0, <3>1 DEF TidyRow, LiveRow
      <4>2. gate # live.run
        BY <2>0, <2>4, <3>1 DEF TidyUngated, GateOff
      <4>3. row'[live.row] \in {"completed", "gone"} /\ link'[live.row] = link[live.row]
        BY <2>1, <4>1, <4>2 DEF RowFades
      <4> QED BY <3>1, <4>1, <4>3
    <3>2. CASE live' # live
      <4>1. ~Accept
        BY <2>3, AcceptWrites
      <4>2. LiveFinalize /\ SameLive /\ live' # NoLive /\ live.pc # "none"
        BY <3>2, <4>1, LivePcs, NoLiveFields
      <4>3. link[live.row] = live.run /\ row' = [row EXCEPT ![live.row] = live.outcome] /\ live.outcome = "completed"
        BY <2>3, <4>2, EndsWrites DEF SameLive
      <4>4. live.row \in Items /\ row'[live.row] = "completed"
        BY <2>0, <4>2, <4>3 DEF LiveRow, RowOK
      <4>5. link' = link
        BY <4>2 DEF LiveFinalize
      <4> QED BY <4>2, <4>3, <4>4, <4>5 DEF SameLive
    <3> QED BY <3>1, <3>2
  <2>12. SweepUnmarked'
    <3> SUFFICES ASSUME NEW s \in Sweepers, sweep'[s].pc \in {"gate", "row"}
                 PROVE  arch'[sweep'[s].run].marker # "db_finalized"
      BY DEF SweepUnmarked
    <3>0. SweepCase(s)
      BY SweepFrame
    <3>1. CASE sweep'[s] = sweep[s]
      <4>1. /\ sweep[s].run \in Runs /\ arch[sweep[s].run].status \in Terminal
            /\ arch[sweep[s].run].marker # "db_finalized"
        BY <2>0, <2>3, <3>1 DEF Known, SweepsClosed, SweepUnmarked
      <4>2. SameTold(sweep[s].run) \/ arch'[sweep[s].run].marker = "recovered_uncertain"
        BY <2>1, <4>1, ClosedStays
      <4> QED BY <3>1, <4>1, <4>2 DEF SameTold
    <3>2. CASE SweepGate(s)
      <4>1. sweep'[s].run = sweep[s].run /\ sweep[s].pc = "gate" /\ arch' = arch
        BY <2>3, <3>2, GateMoves DEF SweepGate
      <4> QED BY <2>0, <4>1 DEF SweepUnmarked
    <3>3. ASSUME NEW r \in Runs, SweepClose(s, r) PROVE arch'[sweep'[s].run].marker # "db_finalized"
      <4>1. sweep'[s].run = r /\ arch[r].status = "printing" /\ arch'[r].marker = arch[r].marker
        BY <2>3, <3>3, CloseMoves, ClosingWrites
      <4> QED BY <2>0, <4>1 DEF PrintingMarks
    <3>4. CASE sweep'[s] = NoSweep
      BY <3>4 DEF NoSweep
    <3>5. CASE SweepBegin(s) \/ SweepRepair(s) \/ SweepRow(s) \/ \E r \in Runs : SweepRecover(s, r)
      BY <2>3, <3>5, BeginMoves, RepairMoves, RowMoves, RecoverMoves
    <3> QED BY <3>0, <3>1, <3>2, <3>3, <3>4, <3>5 DEF SweepCase
  <2> QED BY <2>5, <2>6, <2>7, <2>8, <2>9, <2>10, <2>11, <2>12 DEF GateInv
<1> QED BY <1>1, <1>2

-----------------------------------------------------------------------------
(* How a resolution moves. *)
LEMMA TaskRuns ==
    ASSUME OnceInv, SwapInv, [Next]_vars, NEW t \in Tasks, task'[t].pc # "none"
    PROVE  \/ task[t].pc # "none" /\ task'[t].run = task[t].run
           \/ \E s \in Sweepers : SweepEnd(s) /\ task'[t].run \in Handed(s) /\ task'[t].pc = "read"
<1>0. TaskCase(t) /\ SwapTypes /\ SweepOK /\ ArchOK /\ TaskOwns /\ task[t] \in TaskRec
  BY TaskFrame, Parts
<1>1. CASE task'[t] = task[t]
  BY <1>1
<1>2. CASE task'[t] = NoTask
  BY <1>2 DEF NoTask
<1>3. ASSUME NEW s \in Sweepers, SweepEnd(s)
      PROVE  task'[t] = task[t] \/ (task'[t].run \in Handed(s) /\ task'[t].pc = "read")
  BY <1>0, <1>3, EndWrites
<1>4. CASE ResolveRead(t)
  BY <1>0, <1>4, ReadWrites
<1>5. CASE ResolveClaim(t)
  BY <1>0, <1>2, <1>5, ResolveClaimWrites
<1>6. CASE ResolveSend(t) \/ ResolveError(t)
  <2>1. \E pc \in {"hold", "sent"} : task' = [task EXCEPT ![t] = [task[t] EXCEPT !.pc = pc]]
    BY <1>6 DEF ResolveSend, ResolveError, SetTask
  <2>2. task'[t].run = task[t].run
    BY <1>0, <2>1 DEF SwapTypes, TaskRec
  <2> QED BY <1>6, <2>2 DEF ResolveSend, ResolveError
<1>7. ASSUME NEW ok \in BOOLEAN, ResolveAnswer(t, ok) PROVE task[t].pc # "none" /\ task'[t].run = task[t].run
  <2>1. task' = [task EXCEPT ![t] = [task[t] EXCEPT !.pc = "settle", !.swapped = ok]]
    BY <1>7 DEF ResolveAnswer
  <2>2. task'[t] = [task[t] EXCEPT !.pc = "settle", !.swapped = ok]
    BY <1>0, <2>1, TaskFields
  <2>3. task'[t].run = task[t].run
    BY <1>0, <2>2 DEF TaskRec
  <2> QED BY <1>7, <2>3 DEF ResolveAnswer
<1>8. CASE ResolveSettle(t) \/ ResolveHold(t)
  <2>1. task'[t] = NoTask
    BY <1>0, <1>8 DEF ResolveSettle, ResolveHold, Settle, SwapTypes
  <2> QED BY <1>2, <2>1
<1> QED BY <1>0, <1>1, <1>2, <1>3, <1>4, <1>5, <1>6, <1>7, <1>8 DEF TaskCase, Resolve

LEMMA TaskSends ==
    ASSUME OnceInv, SwapInv, [Next]_vars, NEW t \in Tasks, task'[t].pc \in {"send", "sent"}
    PROVE  /\ task'[t].run = task[t].run
           /\ \/ task[t].pc \in {"send", "sent"}
              \/ HoldsItsPrinter(task[t].run, "completed") /\ task[t].run \in Runs
<1>0. TaskCase(t) /\ SwapTypes /\ SweepOK /\ ArchOK /\ TaskOwns /\ task[t] \in TaskRec
  BY TaskFrame, Parts
<1>1. CASE task'[t] = task[t]
  BY <1>1
<1>2. CASE task'[t] = NoTask
  BY <1>2 DEF NoTask
<1>3. ASSUME NEW s \in Sweepers, SweepEnd(s) PROVE task'[t] = task[t]
  BY <1>0, <1>3, EndWrites
<1>4. CASE ResolveRead(t)
  BY <1>0, <1>4, ReadWrites
<1>5. CASE ResolveClaim(t)
  <2>1. task[t].pc = "claim" /\ task[t].run \in Runs /\ (task'[t] = NoTask \/ task'[t].run = task[t].run)
    BY <1>0, <1>5, ResolveClaimWrites
  <2>2. CASE ClaimIsFree(task[t].run, FALSE) /\ HoldsItsPrinter(task[t].run, "completed")
    BY <1>2, <2>1, <2>2
  <2>3. CASE ~(ClaimIsFree(task[t].run, FALSE) /\ HoldsItsPrinter(task[t].run, "completed"))
    <3>1. task' = [task EXCEPT ![t] = NoTask] \/ task' = [task EXCEPT ![t] = [task[t] EXCEPT !.pc = "hold"]]
      BY <1>5, <2>3 DEF ResolveClaim, SetTask
    <3>2. task'[t] = NoTask \/ task'[t] = [task[t] EXCEPT !.pc = "hold"]
      BY <1>0, <3>1, TaskFields
    <3>3. CASE task'[t] = [task[t] EXCEPT !.pc = "hold"]
      BY <1>0, <3>3 DEF TaskRec
    <3> QED BY <1>2, <3>2, <3>3
  <2> QED BY <2>2, <2>3
<1>6. CASE ResolveSend(t)
  <2>1. task' = [task EXCEPT ![t] = [task[t] EXCEPT !.pc = "sent"]]
    BY <1>6 DEF ResolveSend, SetTask
  <2>2. task'[t].run = task[t].run
    BY <1>0, <2>1 DEF SwapTypes, TaskRec
  <2> QED BY <1>6, <2>2 DEF ResolveSend
<1>7. CASE ResolveError(t)
  <2>1. task' = [task EXCEPT ![t] = [task[t] EXCEPT !.pc = "hold"]]
    BY <1>7 DEF ResolveError, SetTask
  <2>2. task'[t].pc = "hold"
    BY <1>0, <2>1 DEF SwapTypes, TaskRec
  <2> QED BY <2>2
<1>8. ASSUME NEW ok \in BOOLEAN, ResolveAnswer(t, ok) PROVE FALSE
  <2>1. task' = [task EXCEPT ![t] = [task[t] EXCEPT !.pc = "settle", !.swapped = ok]]
    BY <1>8 DEF ResolveAnswer
  <2>2. task'[t] = [task[t] EXCEPT !.pc = "settle", !.swapped = ok]
    BY <1>0, <2>1, TaskFields
  <2>3. task'[t].pc = "settle"
    BY <1>0, <2>2 DEF TaskRec
  <2> QED BY <2>3
<1>9. CASE ResolveSettle(t) \/ ResolveHold(t)
  <2>1. task'[t] = NoTask
    BY <1>0, <1>9 DEF ResolveSettle, ResolveHold, Settle, SwapTypes
  <2> QED BY <1>2, <2>1
<1> QED BY <1>0, <1>1, <1>2, <1>3, <1>4, <1>5, <1>6, <1>7, <1>8, <1>9 DEF TaskCase, Resolve

-----------------------------------------------------------------------------
(* The lane, when every print starts after the sweeps and the resolutions   *)
(* of the earlier ones: a print that no completion has taken holds it, and  *)
(* a run that a sweep has in hand, or that may have swapped, is the last.   *)

FreshHold == \A r \in Runs : Fresh(r) => HoldsLane(r)
DevFresh == dev.state = "printing" => Fresh(dev.run)

(* What a sweep is about to close or has just closed. *)
InHand(s, r) == r \in sweep[s].orphans \/ (sweep[s].pc \in {"gate", "row"} /\ r = sweep[s].run)

SweepSees ==
    \A s \in Sweepers :
        sweep[s].pc # "none" /\ dev.state = "printing" => sweep[s].state = "printing" /\ sweep[s].file = dev.run
SweepLeaves ==
    \A s \in Sweepers :
        sweep[s].pc # "none" /\ sweep[s].state = "printing" =>
            /\ sweep[s].pc \in {"repair", "close"} /\ sweep[s].closed = {}
            /\ \A r \in Runs : Fresh(r) \/ r \in sweep[s].orphans => r = sweep[s].file
HandHolds ==
    \A s \in Sweepers, r \in Runs :
        sweep[s].pc # "none" /\ InHand(s, r) =>
            /\ OwnsEffect(r)
            /\ \A i \in Items : link[i] = r /\ row[i] = "printing" /\ lane.status = "printing" => lane.current = i

(* A swap of this run was answered, or is being sent. *)
CanSwap(r) ==
    \/ arch[r].claim = "finished"
    \/ live.pc \in {"send", "sent"} /\ live.run = r
    \/ \E t \in Tasks : task[t].pc \in {"send", "sent"} /\ task[t].run = r

SwapHolds == \A r \in Runs : RowPrints(r) /\ CanSwap(r) => HoldsLane(r)
TaskHolds == \A t \in Tasks : task[t].pc # "none" /\ CanSwap(task[t].run) => OwnsEffect(task[t].run)
ClosedHolds ==
    \A s \in Sweepers : sweep[s].pc # "none" => \A r \in sweep[s].closed : CanSwap(r) => OwnsEffect(r)
TaskClosed == \A t \in Tasks : task[t].pc \in {"send", "sent"} => ~RowPrints(task[t].run)
TaskRests == \A t \in Tasks : task[t].pc # "none" => dev.state # "printing"
LiveUnanswered ==
    live.pc \in {"decide", "claim", "hold"} /\ RowPrints(live.run) => arch[live.run].claim # "finished"

LaneInv ==
    /\ FreshHold /\ DevFresh /\ SweepSees /\ SweepLeaves /\ HandHolds
    /\ SwapHolds /\ TaskHolds /\ ClosedHolds /\ TaskClosed /\ TaskRests /\ LiveUnanswered

Ground == OnceInv /\ SwapInv /\ RowsInv /\ MarkInv /\ AwayInv /\ GateInv
Calm == \A i \in Items : ~Start(i)

LEMMA GroundParts ==
    ASSUME Ground
    PROVE  /\ OnceInv /\ SwapInv /\ RowsInv /\ MarkInv /\ AwayInv /\ GateInv
           /\ RowOK /\ RowInv /\ LinkInjective /\ LinkMade /\ RowAgreesWithRun
           /\ OrderInv /\ MadeInOrder /\ CurrentPrints /\ LaneIsLast /\ DevIsLast
           /\ SweepsClosed /\ LiveRow /\ LiveMarked /\ CheckpointsMarked /\ PrintingMarks /\ ClaimsMarked
           /\ SwapsTrue /\ AnswersTrue /\ SettlesTrue /\ ClearedTrue /\ PlateLeft
           /\ LiveLink /\ TidyRow /\ TidyClosed /\ GateMade
  BY DEF Ground, RowsInv, RestOK, RowInv, OrderInv, MarkInv, AwayInv, GateInv

LEMMA LaneParts ==
    ASSUME LaneInv
    PROVE  /\ FreshHold /\ DevFresh /\ SweepSees /\ SweepLeaves /\ HandHolds
           /\ SwapHolds /\ TaskHolds /\ ClosedHolds /\ TaskClosed /\ TaskRests /\ LiveUnanswered
  BY DEF LaneInv

LEMMA CalmFacts ==
    ASSUME Ground, [Next]_vars, Calm
    PROVE  /\ \A q \in Runs : ArchFades(q) /\ StoryCase(q) /\ ClaimCase(q)
           /\ \A i \in Items : RowFades(i)
           /\ NoStart /\ LaneCase /\ GateCase /\ LiveCase /\ (Accept \/ LiveStays)
           /\ \A q \in Runs : OwnsEffect(q)' <=> OwnsEffect(q)
           /\ lane'.status = "printing" => lane' = lane
           /\ dev'.state = "printing" => dev' = dev
           /\ (\E o \in Terminal : PrintEnds(o)) \/ PrinterRests
<1>0. OnceInv /\ SwapInv /\ RowOK /\ LiveRow /\ SweepsClosed
  BY GroundParts
<1>1. (\A q \in Runs : ArchFades(q) /\ StoryCase(q) /\ ClaimCase(q)) /\ (\A i \in Items : RowFades(i))
  BY <1>0, ArchsFade, StoryFrame, ClaimFrame, RowsFade DEF Calm, StartOr
<1>2. NoStart /\ LaneCase
  BY <1>0, StepFrame, LaneFrame DEF Calm, StartOr, StartOrNot
<1>3. GateCase /\ LiveCase /\ (Accept \/ LiveStays)
  BY <1>0, GateFrame, LiveTurns, LiveFrame
<1>4. \A q \in Runs : OwnsEffect(q)' <=> OwnsEffect(q)
  BY <1>2 DEF NoStart, OwnsEffect, Made
<1>5. (lane'.status = "printing" => lane' = lane) /\ (dev'.state = "printing" => dev' = dev)
  BY <1>2 DEF NoStart, Freed, Halted
<1>6. (\E o \in Terminal : PrintEnds(o)) \/ PrinterRests
  BY <1>0, PrinterFrame DEF Calm, StartOr
<1> QED BY <1>1, <1>2, <1>3, <1>4, <1>5, <1>6

(* A run that holds the lane is the last, and no other holds it. *)
LEMMA HolderIsLast ==
    ASSUME Ground, NEW q \in Runs, HoldsLane(q)
    PROVE  OwnsEffect(q) /\ Made(q) /\ \A r \in Runs : HoldsLane(r) \/ (OwnsEffect(r) /\ Made(r)) => r = q
<1>1. PICK i \in Items : lane.status = "printing" /\ lane.current = i /\ link[i] = q /\ row[i] = "printing"
  BY DEF HoldsLane
<1>2. OwnsEffect(q) /\ Made(q)
  BY <1>1, GroundParts, RunsAreNumbers DEF LaneIsLast, LinkMade, Made
<1>3. \A r \in Runs : HoldsLane(r) => r = q
  BY <1>1 DEF HoldsLane
<1>4. \A r \in Runs : OwnsEffect(r) /\ Made(r) => r = q
  BY <1>2, LastRun
<1> QED BY <1>2, <1>3, <1>4

LEMMA StartLane ==
    ASSUME Ground, LaneInv, NEW i \in Items, Start(i), SweptFirst
    PROVE  LaneInv'
<1>0. OnceInv /\ SwapInv /\ OrderInv /\ RowOK
  BY GroundParts
<1>1. PICK r \in Runs :
         /\ arch[r].status = "none" /\ (live.pc # "none" => live.run # r)
         /\ \A q \in Runs \ {r} : arch'[q] = arch[q]
         /\ arch'[r].status = "printing" /\ arch'[r].marker = "none" /\ arch'[r].claim = "none"
         /\ row' = [row EXCEPT ![i] = "printing"] /\ link' = [link EXCEPT ![i] = r]
         /\ lane.status = "idle" /\ lane' = [status |-> "printing", current |-> i]
         /\ dev' = [state |-> "printing", run |-> r]
         /\ UNCHANGED <<live, sweep, task>>
  BY <1>0, StartFacts
<1>2. (\A s \in Sweepers : sweep[s].pc = "none") /\ (\A t \in Tasks : task[t].pc = "none")
  BY DEF SweptFirst
<1>3. \A q \in Runs : ~HoldsLane(q) /\ ~Fresh(q) /\ ~(RowPrints(q) /\ CanSwap(q))
  BY <1>1, LaneParts DEF HoldsLane, FreshHold, SwapHolds
<1>4. HoldsLane(r)' /\ Fresh(r)'
  BY <1>0, <1>1 DEF HoldsLane, Fresh, RowOK
<1>5. ASSUME NEW q \in Runs, q # r
      PROVE  /\ Fresh(q)' <=> Fresh(q)
             /\ RowPrints(q)' => RowPrints(q)
             /\ CanSwap(q)' => CanSwap(q)
  <2>1. arch'[q] = arch[q]
    BY <1>1, <1>5
  <2>2. RowPrints(q)' => RowPrints(q)
    BY <1>0, <1>1, <1>5 DEF RowPrints, RowOK
  <2> QED BY <1>1, <2>1, <2>2 DEF Fresh, CanSwap
<1>6. FreshHold' /\ DevFresh'
  BY <1>1, <1>3, <1>4, <1>5 DEF FreshHold, DevFresh, Fresh
<1>7. SweepSees' /\ SweepLeaves' /\ HandHolds' /\ ClosedHolds'
  BY <1>1, <1>2 DEF SweepSees, SweepLeaves, HandHolds, ClosedHolds
<1>8. TaskHolds' /\ TaskClosed' /\ TaskRests'
  BY <1>1, <1>2 DEF TaskHolds, TaskClosed, TaskRests
<1>9. SwapHolds'
  BY <1>3, <1>4, <1>5 DEF SwapHolds
<1>10. LiveUnanswered'
  <2> SUFFICES ASSUME live.pc \in {"decide", "claim", "hold"}, RowPrints(live.run)'
               PROVE  arch'[live.run].claim # "finished"
    BY <1>1 DEF LiveUnanswered, RowPrints
  <2>1. live.run \in Runs /\ live.run # r
    BY <1>1, Parts, <1>0 DEF LiveTruth
  <2>2. RowPrints(live.run)
    BY <1>0, <1>1, <2>1 DEF RowPrints, RowOK
  <2> QED BY <1>1, <2>1, <2>2, LaneParts DEF LiveUnanswered
<1> QED BY <1>6, <1>7, <1>8, <1>9, <1>10 DEF LaneInv


(* A print that still has its row keeps the lane, but for the hold of its own *)
(* completion.                                                              *)
LEMMA LaneKept ==
    ASSUME Ground, LaneInv, [Next]_vars, Calm, NEW q \in Runs, HoldsLane(q), RowPrints(q)'
    PROVE  HoldsLane(q)' \/ (q = live.run /\ live.pc # "none" /\ (LiveHold \/ LiveAnswer(FALSE)))
<1>0. /\ OnceInv /\ SwapInv /\ RowOK /\ LinkInjective /\ NoRun \notin Runs /\ NoItem \notin Items
      /\ (\A i \in Items : RowFades(i)) /\ LaneCase
  BY GroundParts, CalmFacts, RunsAreNumbers, ConstantsAssumption
<1>1. PICK i \in Items : link[i] = q /\ row[i] = "printing" /\ link'[i] = q /\ row'[i] = "printing"
  BY <1>0, PrintsFade
<1>2. lane.status = "printing" /\ lane.current = i
  BY <1>0, <1>1 DEF HoldsLane, LinkInjective
<1>3. CASE lane' = lane
  BY <1>1, <1>2, <1>3 DEF HoldsLane
<1>4. CASE LaneHeldBack
  <2>1. live.pc # "none" /\ OwnsEffect(live.run)
    BY <1>4 DEF LaneHeldBack, LiveHold, LiveAnswer
  <2>2. live.run \in Runs /\ Made(live.run)
    BY <1>0, <2>1, Parts DEF LiveTruth, ArchTruth, Known, Made, Terminal
  <2>3. live.run = q
    BY <2>1, <2>2, HolderIsLast
  <2> QED BY <1>4, <2>1, <2>3 DEF LaneHeldBack
<1>5. CASE LaneFinalized \/ LaneRepaired \/ \E s \in Sweepers, r \in Runs : LaneRecovered(s, r)
  BY <1>1, <1>2, <1>5 DEF LaneFinalized, LaneRepaired, LaneRecovered
<1>6. ASSUME NEW s \in Sweepers, LaneSwept(s) PROVE FALSE
  <2>1. PICK k \in Items : link[k] = sweep[s].run /\ row[k] = "printing" /\ row'[k] # "printing"
    BY <1>6 DEF LaneSwept
  <2>2. sweep[s].pc = "row" /\ sweep[s].run \in Runs
    BY <1>0, <1>6, Parts DEF LaneSwept, SweepRow, Known
  <2>3. InHand(s, sweep[s].run)
    BY <2>2 DEF InHand
  <2>4. lane.current = k
    BY <1>2, <2>1, <2>2, <2>3, LaneParts DEF HandHolds
  <2> QED BY <1>1, <1>2, <2>1, <2>4
<1>7. ASSUME NEW t \in Tasks, LaneSettled(t) PROVE FALSE
  BY <1>0, <1>1, <1>2, <1>7 DEF LaneSettled, SettleIsOurs
<1>8. CASE Resume
  BY <1>2, <1>8 DEF Resume, Halted
<1> QED BY <1>0, <1>3, <1>4, <1>5, <1>6, <1>7, <1>8 DEF LaneCase

(* A print no completion has taken is closed by no completion. *)
LEMMA FreshIsOut ==
    ASSUME Ground, NEW q \in Runs, Fresh(q)
    PROVE  arch[q].marker = "none" /\ ~(live.pc # "none" /\ live.run = q) /\ Made(q)
  BY GroundParts DEF Fresh, PrintingMarks, LiveMarked, Made

LEMMA FreshWas ==
    ASSUME Ground, NEW q \in Runs, ArchFades(q), Fresh(q)'
    PROVE  Fresh(q)
<1>1. arch'[q].status = "printing" /\ arch'[q].marker # "accepted"
  BY DEF Fresh
<1>2. arch[q].status = "printing" /\ arch'[q].marker = arch[q].marker
  BY <1>1 DEF ArchFades
<1> QED BY <1>1, <1>2 DEF Fresh

(* A row prints on while its archive does. *)
LEMMA RowStays ==
    ASSUME Ground, RowInv', [Next]_vars, Calm, NEW q \in Runs, arch'[q].status = "printing", RowPrints(q)
    PROVE  RowPrints(q)'
<1>0. /\ OnceInv /\ SwapInv /\ RowOK /\ LiveRow /\ TidyRow /\ SweepsClosed /\ NoRun \notin Runs
      /\ (\A i \in Items : RowFades(i)) /\ ArchFades(q)
  BY GroundParts, CalmFacts, RunsAreNumbers
<1>1. PICK i \in Items : link[i] = q /\ row[i] = "printing"
  BY DEF RowPrints
<1>2. link'[i] = q
  BY <1>0, <1>1 DEF RowFades
<1>3. row'[i] \notin Terminal
  BY <1>0, <1>2 DEF RowInv, RowAgreesWithRun, Terminal
<1>4. ~(LiveTidy /\ i = live.row /\ live.outcome = "completed" /\ (live.cleared \/ ~RequirePlateClear))
  BY <1>0, <1>1 DEF LiveTidy, TidyRow
<1>5. ASSUME NEW s \in Sweepers, SweepRow(s), link[i] = sweep[s].run PROVE FALSE
  <2>1. arch[q].status \in Terminal
    BY <1>0, <1>1, <1>5 DEF SweepRow, SweepsClosed
  <2> QED BY <1>0, <2>1 DEF ArchFades, Terminal
<1>6. row'[i] = "printing"
  BY <1>0, <1>1, <1>3, <1>4, <1>5 DEF RowFades
<1> QED BY <1>2, <1>6 DEF RowPrints

LEMMA FreshHoldKept ==
    ASSUME Ground, LaneInv, RowInv', [Next]_vars, Calm
    PROVE  FreshHold'
<1> SUFFICES ASSUME NEW q \in Runs, Fresh(q)' PROVE HoldsLane(q)'
  BY DEF FreshHold
<1>1. Fresh(q) /\ HoldsLane(q) /\ RowPrints(q)
  BY CalmFacts, FreshWas, LaneParts DEF FreshHold, HoldsLane, RowPrints
<1>2. RowPrints(q)'
  BY <1>1, RowStays DEF Fresh
<1> QED BY <1>1, <1>2, LaneKept, FreshIsOut

LEMMA DevFreshKept ==
    ASSUME Ground, LaneInv, [Next]_vars, Calm
    PROVE  DevFresh'
<1> SUFFICES ASSUME dev'.state = "printing" PROVE arch'[dev'.run].status = "printing" /\ arch'[dev'.run].marker # "accepted"
  BY DEF DevFresh, Fresh
<1>0. OnceInv /\ SwapInv /\ dev' = dev /\ dev.state = "printing"
  BY GroundParts, CalmFacts
<1>1. PICK q \in Runs : q = dev.run
  BY <1>0, Parts DEF DevTruth
<1>2. Fresh(q) /\ ended[q] = "none" /\ StoryCase(q)
  BY <1>0, <1>1, Parts, LaneParts, CalmFacts DEF DevFresh, DevTruth
<1>3. ~(Accept /\ q = report.run)
  BY <1>0, <1>2, Parts DEF Accept, ReportTruth, Known, OtherOK, Terminal
<1>4. ~(LiveFinalize /\ q = live.run)
  BY <1>0, <1>2, Parts DEF LiveFinalize, LiveTruth, Known, Terminal
<1>5. ASSUME NEW s \in Sweepers PROVE ~SweepRecover(s, q)
  BY <1>0, <1>2, Parts DEF SweepRecover, SweepTruth, Known, Terminal
<1>6. ASSUME NEW s \in Sweepers, SweepClose(s, q) PROVE FALSE
  <2>1. sweep[s].pc = "close" /\ Verdict(s, q) # "leave"
    BY <1>6 DEF SweepClose
  <2>2. sweep[s].state = "printing" /\ sweep[s].file = q
    BY <1>0, <1>1, <2>1, LaneParts DEF SweepSees
  <2>3. Verdict(s, q) = "leave"
    BY <2>2 DEF Verdict
  <2> QED BY <2>1, <2>3
<1>7. SameTold(q)
  BY <1>2, <1>3, <1>4, <1>5, <1>6 DEF StoryCase
<1> QED BY <1>0, <1>1, <1>2, <1>7 DEF Fresh, SameTold

LEMMA SweepSeesKept ==
    ASSUME Ground, LaneInv, [Next]_vars, Calm
    PROVE  SweepSees'
<1> SUFFICES ASSUME NEW s \in Sweepers, sweep'[s].pc # "none", dev'.state = "printing"
             PROVE  sweep'[s].state = "printing" /\ sweep'[s].file = dev'.run
  BY DEF SweepSees
<1>0. OnceInv /\ SwapInv /\ dev' = dev /\ dev.state = "printing"
  BY GroundParts, CalmFacts
<1>1. SweepCase(s) /\ SweepOK
  BY <1>0, SweepFrame, Parts
<1>2. CASE sweep'[s] = sweep[s]
  BY <1>0, <1>2, LaneParts DEF SweepSees
<1>3. CASE sweep'[s] = NoSweep
  BY <1>3 DEF NoSweep
<1>4. CASE SweepBegin(s)
  BY <1>0, <1>1, <1>4, BeginMoves
<1>5. ASSUME SameFound(s), sweep[s].pc # "none" PROVE sweep'[s].state = "printing" /\ sweep'[s].file = dev'.run
  BY <1>0, <1>5, LaneParts DEF SweepSees, SameFound
<1>6. CASE SweepRepair(s) \/ SweepGate(s) \/ SweepRow(s) \/ \E r \in Runs : SweepRecover(s, r) \/ SweepClose(s, r)
  <2>1. SameFound(s) /\ sweep[s].pc # "none"
    BY <1>1, <1>6, RepairMoves, GateMoves, RowMoves, RecoverMoves, CloseMoves
  <2> QED BY <1>5, <2>1
<1> QED BY <1>1, <1>2, <1>3, <1>4, <1>6 DEF SweepCase

LEMMA SweepLeavesKept ==
    ASSUME Ground, LaneInv, [Next]_vars, Calm
    PROVE  SweepLeaves'
<1> SUFFICES ASSUME NEW s \in Sweepers, sweep'[s].pc # "none", sweep'[s].state = "printing"
             PROVE  /\ sweep'[s].pc \in {"repair", "close"} /\ sweep'[s].closed = {}
                    /\ \A r \in Runs : Fresh(r)' \/ r \in sweep'[s].orphans => r = sweep'[s].file
  BY DEF SweepLeaves
<1>0. OnceInv /\ SwapInv /\ SweepLeaves
  BY GroundParts, LaneParts
<1>1. SweepCase(s) /\ SweepOK /\ ArchOK /\ SweepTruth
  BY <1>0, SweepFrame, Parts
<1>2. \A r \in Runs : Fresh(r)' => Fresh(r)
  BY CalmFacts, FreshWas
<1>3. CASE sweep'[s] = sweep[s]
  BY <1>0, <1>2, <1>3 DEF SweepLeaves
<1>4. CASE sweep'[s] = NoSweep
  BY <1>4 DEF NoSweep
<1>5. CASE SweepBegin(s)
  <2>1. /\ sweep'[s].pc = "repair" /\ sweep'[s].file = dev.run /\ dev.state = "printing"
        /\ sweep'[s].orphans = {} /\ sweep'[s].closed = {}
    BY <1>1, <1>5, BeginMoves
  <2>2. dev.run \in Runs /\ Fresh(dev.run)
    BY <1>0, <2>1, Parts, LaneParts DEF DevTruth, DevFresh
  <2>3. \A r \in Runs : Fresh(r) => HoldsLane(r)
    BY LaneParts DEF FreshHold
  <2>4. \A r \in Runs : Fresh(r) => r = dev.run
    BY <2>2, <2>3, HolderIsLast
  <2> QED BY <1>2, <2>1, <2>4
<1>6. CASE SweepRepair(s)
  <2>1. /\ sweep'[s].pc = "close" /\ sweep[s].pc = "repair" /\ SameFound(s) /\ sweep'[s].closed = sweep[s].closed
        /\ \A r \in sweep'[s].orphans : r \in Printing /\ arch[r].marker # "accepted"
    BY <1>1, <1>6, RepairMoves
  <2>2. \A r \in sweep'[s].orphans : r \in Runs /\ Fresh(r)
    BY <2>1 DEF Printing, Fresh
  <2>3. /\ sweep[s].closed = {} /\ sweep'[s].file = sweep[s].file
        /\ \A r \in Runs : Fresh(r) => r = sweep[s].file
    BY <1>0, <2>1 DEF SweepLeaves, SameFound
  <2> QED BY <1>2, <2>1, <2>2, <2>3
<1>7. ASSUME NEW r \in Runs, SweepRecover(s, r) PROVE FALSE
  BY <1>1, <1>7, RecoverMoves DEF SameFound
<1>8. ASSUME NEW r \in Runs, SweepClose(s, r) PROVE FALSE
  <2>1. sweep[s].pc = "close" /\ sweep[s].state = "printing" /\ r \in sweep[s].orphans
    BY <1>1, <1>8, CloseMoves DEF SameFound
  <2>2. r = sweep[s].file
    BY <1>0, <2>1 DEF SweepLeaves
  <2>3. Verdict(s, r) = "leave"
    BY <2>1, <2>2 DEF Verdict
  <2> QED BY <1>8, <2>3 DEF SweepClose
<1>9. CASE SweepGate(s) \/ SweepRow(s)
  <2>1. sweep[s].pc \in {"gate", "row"} /\ sweep[s].state = "printing"
    BY <1>1, <1>9, GateMoves, RowMoves DEF SameFound
  <2> QED BY <1>0, <2>1 DEF SweepLeaves
<1> QED BY <1>1, <1>3, <1>4, <1>5, <1>6, <1>7, <1>8, <1>9 DEF SweepCase

LEMMA HandHoldsKept ==
    ASSUME Ground, LaneInv, [Next]_vars, Calm
    PROVE  HandHolds'
<1> DEFINE OnLane(q) == /\ OwnsEffect(q)
                        /\ \A i \in Items : link[i] = q /\ row[i] = "printing" /\ lane.status = "printing" => lane.current = i
<1> SUFFICES ASSUME NEW s \in Sweepers, NEW q \in Runs, sweep'[s].pc # "none", InHand(s, q)'
             PROVE  OnLane(q)'
  BY DEF HandHolds
<1>0. OnceInv /\ SwapInv /\ HandHolds /\ LinkInjective /\ NoRun \notin Runs
  BY GroundParts, LaneParts, RunsAreNumbers
<1>1. SweepCase(s) /\ SweepOK
  BY <1>0, SweepFrame, Parts
<1>2. OnLane(q) => OnLane(q)'
  <2>1. \A i \in Items : row'[i] = "printing" => row[i] = "printing" /\ link'[i] = link[i]
    BY CalmFacts DEF RowFades
  <2>2. (lane'.status = "printing" => lane' = lane) /\ (OwnsEffect(q)' <=> OwnsEffect(q))
    BY CalmFacts
  <2> QED BY <2>1, <2>2
<1>3. sweep[s].pc # "none" /\ InHand(s, q) => OnLane(q)
  BY <1>0 DEF HandHolds
<1>4. CASE sweep'[s] = sweep[s]
  BY <1>2, <1>3, <1>4 DEF InHand
<1>5. CASE sweep'[s] = NoSweep \/ SweepBegin(s)
  BY <1>1, <1>5, BeginMoves DEF NoSweep, InHand
<1>6. CASE SweepRepair(s)
  <2>1. q \in Printing /\ arch[q].marker # "accepted"
    BY <1>1, <1>6, RepairMoves DEF InHand
  <2>2. HoldsLane(q)
    BY <2>1, LaneParts DEF FreshHold, Fresh, Printing
  <2>3. OnLane(q)
    BY <1>0, <2>2, HolderIsLast DEF HoldsLane, LinkInjective
  <2> QED BY <1>2, <2>3
<1>7. CASE SweepGate(s) \/ SweepRow(s) \/ \E r \in Runs : SweepRecover(s, r) \/ SweepClose(s, r)
  <2>1. sweep[s].pc # "none" /\ InHand(s, q)
    BY <1>1, <1>7, GateMoves, RowMoves, RecoverMoves, CloseMoves DEF InHand
  <2> QED BY <1>2, <1>3, <2>1
<1> QED BY <1>1, <1>4, <1>5, <1>6, <1>7 DEF SweepCase

(* A swap is claimed only by a run that has the lane, or has closed its row. *)
LEMMA CanSwapComes ==
    ASSUME Ground, LaneInv, [Next]_vars, Calm, NEW q \in Runs, CanSwap(q)'
    PROVE  CanSwap(q) \/ (OwnsEffect(q) /\ (HoldsLane(q) \/ ~RowPrints(q)))
<1>0. /\ OnceInv /\ SwapInv /\ RowOK /\ LinkInjective /\ LaneIsLast /\ NoRun \notin Runs
      /\ ClaimCase(q) /\ LiveCase
  BY GroundParts, CalmFacts, RunsAreNumbers
<1>1. LiveOK /\ LiveOwns /\ TaskOwns /\ OneOwner /\ ArchOK /\ OtherOK /\ Known
  BY <1>0, Parts
<1>2. CASE arch'[q].claim = "finished"
  <2>1. CASE arch[q].claim = "finished"
    BY <2>1 DEF CanSwap
  <2>2. CASE arch[q].claim # "finished"
    <3>1. \E ok \in BOOLEAN : \/ LiveAnswer(ok) /\ q = live.run
                              \/ \E t \in Tasks : ResolveAnswer(t, ok) /\ q = task[t].run
      BY <1>0, <1>2, <2>2 DEF ClaimCase
    <3>2. ASSUME NEW ok \in BOOLEAN, LiveAnswer(ok), q = live.run PROVE CanSwap(q)
      BY <1>1, <3>2, LiveAnswerMoves DEF CanSwap
    <3>3. ASSUME NEW ok \in BOOLEAN, NEW t \in Tasks, ResolveAnswer(t, ok), q = task[t].run PROVE CanSwap(q)
      BY <3>3 DEF ResolveAnswer, CanSwap
    <3> QED BY <3>1, <3>2, <3>3
  <2> QED BY <2>1, <2>2
<1>3. CASE live'.pc \in {"send", "sent"} /\ live'.run = q
  <2>1. CASE live' = live
    BY <1>3, <2>1 DEF CanSwap
  <2>2. CASE live' # live
    <3>1. ~Accept /\ live' # NoLive
      BY <1>1, <1>3, AcceptWrites, NoLiveFields
    <3>2. ~LiveDecide /\ ~LiveError /\ ~LiveHold /\ ~LiveGate
      BY <1>1, <1>3, DecideMoves, ErrorMoves, HoldMoves, LiveGateMoves
    <3>3. ASSUME NEW ok \in BOOLEAN PROVE ~LiveAnswer(ok)
      BY <1>1, <1>3, <3>3, LiveAnswerMoves
    <3>4. ~LiveFinalize /\ ~LiveTidy
      <4>1. ~LiveTidy
        BY <1>3, NoLiveFields DEF LiveTidy
      <4>2. ASSUME LiveFinalize PROVE live'.pc = "tidy"
        <5>1. live.pc = "finalize" /\ live' = [live EXCEPT !.pc = "tidy"]
          BY <1>1, <3>1, <4>2, EndsWrites
        <5> QED BY <1>1, <5>1, TidyFields
      <4> QED BY <1>3, <4>1, <4>2
    <3>5. CASE LiveSend
      BY <1>1, <1>3, <3>5, SendMoves DEF SameLive, CanSwap
    <3>6. CASE LiveClaim
      <4>1. live'.pc = "send" /\ live.run = q /\ HoldsItsPrinter(q, "printing") /\ OwnsEffect(q)
        BY <1>1, <1>3, <3>6, ClaimMoves DEF SameLive
      <4>2. HoldsLane(q)
        BY <4>1 DEF HoldsItsPrinter, RowOf, HoldsLane
      <4> QED BY <4>1, <4>2
    <3> QED BY <1>0, <2>2, <3>1, <3>2, <3>3, <3>4, <3>5, <3>6 DEF LiveCase, Live
  <2> QED BY <2>1, <2>2
<1>4. ASSUME NEW t \in Tasks, task'[t].pc \in {"send", "sent"}, task'[t].run = q
      PROVE  CanSwap(q) \/ (OwnsEffect(q) /\ ~RowPrints(q))
  <2>1. CASE task[t].pc \in {"send", "sent"}
    BY <1>0, <1>4, <2>1, TaskSends DEF CanSwap
  <2>2. CASE task[t].pc \notin {"send", "sent"}
    <3>1. HoldsItsPrinter(q, "completed")
      BY <1>0, <1>4, <2>2, TaskSends
    <3>2. PICK i \in Items : link[i] = q /\ row[i] = "completed" /\ lane.current = i
      BY <3>1 DEF HoldsItsPrinter, RowOf
    <3>3. OwnsEffect(q)
      BY <1>0, <3>2 DEF LaneIsLast
    <3>4. ~RowPrints(q)
      BY <1>0, <3>2 DEF RowPrints, LinkInjective
    <3> QED BY <3>3, <3>4
  <2> QED BY <2>1, <2>2
<1> QED BY <1>2, <1>3, <1>4 DEF CanSwap

LEMMA SwapHoldsKept ==
    ASSUME Ground, LaneInv, [Next]_vars, Calm
    PROVE  SwapHolds'
<1> SUFFICES ASSUME NEW q \in Runs, RowPrints(q)', CanSwap(q)' PROVE HoldsLane(q)'
  BY DEF SwapHolds
<1>0. OnceInv /\ SwapInv /\ \A i \in Items : RowFades(i)
  BY GroundParts, CalmFacts
<1>1. RowPrints(q)
  BY <1>0, PrintsFade
<1>2. HoldsLane(q)
  BY <1>1, CanSwapComes, LaneParts DEF SwapHolds
<1>3. ASSUME q = live.run, live.pc # "none", LiveAnswer(FALSE) PROVE FALSE
  <2>1. /\ live.pc \in {"send", "sent"} /\ live'.pc = "gate"
    BY <1>0, <1>3, Parts, LiveAnswerMoves
  <2>2. arch[q].claim = "attempted" /\ \A t \in Tasks : task[t].pc \in {"send", "sent"} => task[t].run # q
    BY <1>0, <1>3, <2>1, Parts DEF LiveOwns, Owned, TaskOwns, OneOwner
  <2>3. task' = task
    BY <1>3 DEF LiveAnswer
  <2>4. arch'[q].claim # "finished"
    <3>1. arch' = [arch EXCEPT ![q] = Finished(@, FALSE)] /\ arch \in [Runs -> ArchRec] /\ arch[q] \in ArchRec
      BY <1>0, <1>3, Parts DEF LiveAnswer, ArchOK
    <3>2. arch'[q] = Finished(arch[q], FALSE)
      BY <3>1
    <3>3. arch'[q].claim = "failed"
      BY <3>1, <3>2 DEF Finished, ArchRec
    <3> QED BY <3>3
  <2>5. ~CanSwap(q)'
    BY <2>1, <2>2, <2>3, <2>4 DEF CanSwap
  <2> QED BY <2>5
<1>4. ASSUME q = live.run, live.pc # "none", LiveHold PROVE FALSE
  <2>1. live.pc = "hold" /\ live'.pc = "gate" /\ task' = task /\ ClaimCase(q)
    BY <1>0, <1>4, Parts, HoldMoves, CalmFacts DEF LiveHold
  <2>2. arch[q].claim # "finished"
    BY <1>1, <1>4, <2>1, LaneParts DEF LiveUnanswered
  <2>3. \A t \in Tasks : task[t].pc \in {"send", "sent"} => task[t].run # q
    BY <1>1, LaneParts DEF TaskClosed
  <2>4. arch'[q].claim # "finished"
    <3>1. arch' = [arch EXCEPT ![live.run].held = TRUE] /\ ArchOK
      BY <1>0, <1>4, Parts DEF LiveHold
    <3> QED BY <2>2, <3>1, HeldWrites
  <2>5. ~CanSwap(q)'
    BY <2>1, <2>3, <2>4 DEF CanSwap
  <2> QED BY <2>5
<1> QED BY <1>0, <1>2, <1>3, <1>4, LaneKept

LEMMA TaskHoldsKept ==
    ASSUME Ground, LaneInv, [Next]_vars, Calm
    PROVE  TaskHolds'
<1>0. OnceInv /\ SwapInv /\ LaneIsLast /\ NoRun \notin Runs
  BY GroundParts, RunsAreNumbers
<1>1. ASSUME NEW t \in Tasks, NEW q \in Runs, task'[t].pc # "none", q = task'[t].run, CanSwap(q)'
      PROVE  OwnsEffect(q)'
  <2>1. CanSwap(q) \/ OwnsEffect(q)
    BY <1>1, CanSwapComes
  <2>2. OwnsEffect(q)' <=> OwnsEffect(q)
    BY CalmFacts
  <2>3. CASE task[t].pc # "none" /\ task[t].run = q
    BY <2>1, <2>2, <2>3, LaneParts DEF TaskHolds
  <2>4. ASSUME NEW s \in Sweepers, SweepEnd(s), q \in Handed(s) PROVE OwnsEffect(q)
    <3>1. CASE q \in sweep[s].closed
      <4>1. sweep[s].pc = "close"
        BY <1>0, <2>4, Parts, EndMoves
      <4> QED BY <2>1, <3>1, <4>1, LaneParts DEF ClosedHolds
    <3>2. CASE q \in Stranded(s)
      BY <1>0, <3>2 DEF Stranded, RowOf, LaneIsLast
    <3> QED BY <2>4, <3>1, <3>2 DEF Handed
  <2> QED BY <1>0, <1>1, <2>2, <2>3, <2>4, TaskRuns
<1>2. \A t \in Tasks : task'[t].pc # "none" => task'[t].run \in Runs
  <2> SUFFICES ASSUME NEW t \in Tasks, task'[t].pc # "none" PROVE task'[t].run \in Runs
    OBVIOUS
  <2>1. ASSUME NEW s \in Sweepers, SweepEnd(s) PROVE Handed(s) \subseteq Runs
    BY <1>0, <2>1, Parts, EndWrites
  <2> QED BY <1>0, <2>1, TaskRuns, Parts DEF TaskOwns
<1>3. \A t \in Tasks, q \in Runs : task'[t].pc # "none" /\ q = task'[t].run /\ CanSwap(q)' => OwnsEffect(q)'
  BY <1>1
<1> QED BY <1>2, <1>3 DEF TaskHolds, CanSwap, OwnsEffect

LEMMA ClosedHoldsKept ==
    ASSUME Ground, LaneInv, [Next]_vars, Calm
    PROVE  ClosedHolds'
<1> SUFFICES ASSUME NEW s \in Sweepers, NEW q, sweep'[s].pc # "none", q \in sweep'[s].closed, CanSwap(q)'
             PROVE  OwnsEffect(q)'
  BY DEF ClosedHolds
<1>0. OnceInv /\ SwapInv
  BY GroundParts
<1>1. SweepCase(s) /\ SweepOK /\ ArchOK /\ Known /\ sweep[s] \in SweepRec
  BY <1>0, SweepFrame, Parts
<1>2. CASE q \in Runs /\ sweep[s].pc # "none" /\ q \in sweep[s].closed
  <2>1. CanSwap(q) \/ OwnsEffect(q)
    BY <1>2, CanSwapComes
  <2>2. OwnsEffect(q)
    BY <1>2, <2>1, LaneParts DEF ClosedHolds
  <2> QED BY <1>2, <2>2, CalmFacts
<1>3. ASSUME sweep[s].pc # "none", q \in sweep[s].closed PROVE OwnsEffect(q)'
  BY <1>1, <1>2, <1>3 DEF SweepRec
<1>4. CASE sweep'[s] = sweep[s]
  BY <1>3, <1>4
<1>5. CASE sweep'[s] = NoSweep \/ SweepBegin(s)
  BY <1>1, <1>5, BeginMoves DEF NoSweep
<1>6. CASE SweepRepair(s) \/ SweepGate(s) \/ \E r \in Runs : SweepClose(s, r)
  <2>1. sweep[s].pc # "none" /\ q \in sweep[s].closed
    BY <1>1, <1>6, RepairMoves, GateMoves, CloseMoves
  <2> QED BY <1>3, <2>1
<1>7. CASE SweepRow(s)
  <2>1. sweep[s].pc = "row" /\ (q \in sweep[s].closed \/ q = sweep[s].run) /\ sweep[s].run \in Runs
    BY <1>1, <1>7, RowMoves DEF Known
  <2>2. OwnsEffect(sweep[s].run)
    BY <2>1, LaneParts DEF HandHolds, InHand
  <2> QED BY <1>3, <2>1, <2>2, CalmFacts
<1>8. ASSUME NEW r \in Runs, SweepRecover(s, r) PROVE OwnsEffect(q)'
  <2>1. sweep[s].pc = "close" /\ (q \in sweep[s].closed \/ q = r)
    BY <1>1, <1>8, RecoverMoves
  <2>2. RowPrints(r)
    BY <1>1, <1>8, RecoverWrites DEF RowPrints
  <2>3. ASSUME q = r PROVE OwnsEffect(q)
    <3>1. CanSwap(q) \/ OwnsEffect(q)
      BY <2>3, CanSwapComes
    <3>2. CanSwap(q) => HoldsLane(q)
      BY <2>2, <2>3, LaneParts DEF SwapHolds
    <3> QED BY <2>3, <3>1, <3>2, HolderIsLast
  <2> QED BY <1>3, <2>1, <2>3, CalmFacts
<1> QED BY <1>1, <1>4, <1>5, <1>6, <1>7, <1>8 DEF SweepCase

LEMMA TaskClosedKept ==
    ASSUME Ground, LaneInv, [Next]_vars, Calm
    PROVE  TaskClosed'
<1>0. OnceInv /\ SwapInv /\ LinkInjective /\ NoRun \notin Runs /\ \A i \in Items : RowFades(i)
  BY GroundParts, CalmFacts, RunsAreNumbers
<1>1. ASSUME NEW t \in Tasks, NEW q, task'[t].pc \in {"send", "sent"}, q = task'[t].run PROVE ~RowPrints(q)'
  <2>1. CASE task[t].pc \in {"send", "sent"}
    <3>1. ~RowPrints(q)
      BY <1>0, <1>1, <2>1, TaskSends, LaneParts DEF TaskClosed
    <3> QED BY <1>0, <3>1, PrintsFade
  <2>2. CASE task[t].pc \notin {"send", "sent"}
    <3>1. HoldsItsPrinter(q, "completed") /\ q \in Runs
      BY <1>0, <1>1, <2>2, TaskSends
    <3>2. ~RowPrints(q)
      BY <1>0, <3>1 DEF HoldsItsPrinter, RowOf, RowPrints, LinkInjective
    <3> QED BY <1>0, <3>2, PrintsFade
  <2> QED BY <2>1, <2>2
<1>2. \A t \in Tasks : \A q \in {task'[t].run} : task'[t].pc \in {"send", "sent"} => ~RowPrints(q)'
  BY <1>1
<1> QED BY <1>2 DEF TaskClosed, RowPrints

LEMMA TaskRestsKept ==
    ASSUME Ground, LaneInv, [Next]_vars, Calm
    PROVE  TaskRests'
<1> SUFFICES ASSUME NEW t \in Tasks, task'[t].pc # "none", dev'.state = "printing" PROVE FALSE
  BY DEF TaskRests
<1>0. OnceInv /\ SwapInv /\ dev.state = "printing"
  BY GroundParts, CalmFacts
<1>1. task[t].pc = "none"
  BY <1>0, LaneParts DEF TaskRests
<1>2. PICK s \in Sweepers : SweepEnd(s) /\ task'[t].run \in Handed(s)
  BY <1>0, <1>1, TaskRuns
<1>3. sweep[s].pc = "close" /\ sweep[s].state = "printing"
  BY <1>0, <1>2, Parts, EndMoves, LaneParts DEF SweepSees
<1>4. sweep[s].closed = {}
  BY <1>3, LaneParts DEF SweepLeaves
<1>5. row[lane.current] = "completed"
  BY <1>2, <1>4 DEF Handed, Stranded, RowOf
<1>6. dev.run \in Runs /\ Fresh(dev.run)
  BY <1>0, Parts, LaneParts DEF DevTruth, DevFresh
<1>7. HoldsLane(dev.run)
  BY <1>6, LaneParts DEF FreshHold
<1> QED BY <1>5, <1>7 DEF HoldsLane

LEMMA LiveUnansweredKept ==
    ASSUME Ground, LaneInv, [Next]_vars, Calm
    PROVE  LiveUnanswered'
<1>1. ASSUME NEW q \in Runs, q = live'.run, live'.pc \in {"decide", "claim", "hold"}, RowPrints(q)',
             arch'[q].claim = "finished"
      PROVE  FALSE
  <2>0. OnceInv /\ SwapInv /\ ClaimsMarked /\ ClaimCase(q) /\ (\A i \in Items : RowFades(i))
    BY GroundParts, CalmFacts
  <2>1. LiveOK /\ ArchOK /\ OtherOK /\ Known /\ LiveOwns
    BY <2>0, Parts
  <2>2. RowPrints(q)
    BY <1>1, <2>0, PrintsFade
  <2>3. ASSUME NEW t \in Tasks, NEW ok \in BOOLEAN, ResolveAnswer(t, ok), q = task[t].run PROVE FALSE
    BY <2>2, <2>3, LaneParts DEF ResolveAnswer, TaskClosed
  <2>4. ASSUME NEW ok \in BOOLEAN, LiveAnswer(ok) PROVE FALSE
    BY <1>1, <2>1, <2>4, LiveAnswerMoves
  <2>5. arch[q].claim = "finished"
    BY <1>1, <2>0, <2>3, <2>4 DEF ClaimCase
  <2>6. CASE Accept
    <3>1. q = report.run /\ Fresh(q)
      BY <1>1, <2>1, <2>6, AcceptWrites DEF Fresh
    <3>2. arch[q].claim = "none"
      BY <2>0, <3>1, FreshIsOut DEF Fresh, ClaimsMarked
    <3> QED BY <2>5, <3>2
  <2>7. CASE ~Accept
    <3>1. live.pc \in {"decide", "claim", "hold", "send", "sent"} /\ live.run = q
      BY <1>1, <2>0, <2>7, LivePcs DEF SameLive
    <3>2. live.pc \notin {"send", "sent"}
      BY <2>1, <2>5, <3>1 DEF LiveOwns, Owned
    <3> QED BY <2>2, <2>5, <3>1, <3>2, LaneParts DEF LiveUnanswered
  <2> QED BY <2>6, <2>7
<1>2. live'.pc # "none" => live'.run \in Runs
  <2>1. OnceInv /\ SwapInv /\ OtherOK /\ ArchOK /\ Known /\ LiveTruth
    BY GroundParts, Parts
  <2> QED BY <2>1, LiveFrame, AcceptWrites DEF LiveStays, LiveTruth
<1>3. \A q \in Runs : q = live'.run /\ live'.pc \in {"decide", "claim", "hold"} /\ RowPrints(q)' => arch'[q].claim # "finished"
  BY <1>1
<1> QED BY <1>2, <1>3 DEF LiveUnanswered, RowPrints

LEMMA LaneHolds ==
    ASSUME Ground, LaneInv, RowInv', [Next]_vars, SweptFirst
    PROVE  LaneInv'
<1>1. ASSUME NEW i \in Items, Start(i) PROVE LaneInv'
  BY <1>1, StartLane
<1>2. CASE Calm
  BY <1>2, FreshHoldKept, DevFreshKept, SweepSeesKept, SweepLeavesKept, HandHoldsKept, SwapHoldsKept,
     TaskHoldsKept, ClosedHoldsKept, TaskClosedKept, TaskRestsKept, LiveUnansweredKept DEF LaneInv
<1> QED BY <1>1, <1>2 DEF Calm

-----------------------------------------------------------------------------
(* The plate.  Whoever is about to set the lane idle has armed the gate, or *)
(* knows that the part is away.                                             *)

LiveCleared ==
    /\ RequirePlateClear /\ live.pc = "finalize"
    /\ HoldsLane(live.run) /\ arch[live.run].status = "printing"
    => gate # NoRun \/ ~onPlate

SweepCleared ==
    \A s \in Sweepers :
        /\ RequirePlateClear /\ sweep[s].pc = "row"
        /\ HoldsLane(sweep[s].run) /\ arch[sweep[s].run].status = "completed" /\ ~arch[sweep[s].run].owes
        => gate # NoRun \/ ~onPlate

PlateInv == NoDispatchOverPlate /\ LiveCleared /\ SweepCleared

(* An open gate over a part was open before, and nobody armed it. *)
LEMMA GateWasOpen ==
    ASSUME Ground, [Next]_vars, Calm, gate' = NoRun, onPlate'
    PROVE  /\ gate = NoRun
           /\ RequirePlateClear /\ LiveGate => live.cleared \/ ~OwnsEffect(live.run)
           /\ \A s \in Sweepers : RequirePlateClear /\ SweepGate(s) => SwapOwed(sweep[s].run)
<1>0. OnceInv /\ SwapInv /\ GateCase /\ NoRun \notin Runs
  BY GroundParts, CalmFacts, RunsAreNumbers
<1>1. LiveTruth /\ Known
  BY <1>0, Parts
<1>2. ASSUME LiveGate PROVE live.run \in Runs
  BY <1>1, <1>2 DEF LiveGate, LiveTruth
<1>3. ASSUME NEW s \in Sweepers, SweepGate(s) PROVE sweep[s].run \in Runs
  BY <1>1, <1>3 DEF SweepGate, Known
<1>4. gate = NoRun
  BY <1>0, <1>2, <1>3 DEF GateCase
<1>5. RequirePlateClear /\ LiveGate => live.cleared \/ ~OwnsEffect(live.run)
  BY <1>0, <1>2 DEF LiveGate
<1>6. ASSUME NEW s \in Sweepers, RequirePlateClear, SweepGate(s) PROVE SwapOwed(sweep[s].run)
  BY <1>0, <1>3, <1>6 DEF SweepGate
<1> QED BY <1>4, <1>5, <1>6

(* Without a start, whoever has the lane had it. *)
LEMMA LaneWasHeld ==
    ASSUME Ground, [Next]_vars, Calm, NEW q, HoldsLane(q)'
    PROVE  HoldsLane(q)
<1>1. PICK i \in Items : lane'.status = "printing" /\ lane'.current = i /\ link'[i] = q /\ row'[i] = "printing"
  BY DEF HoldsLane
<1>2. lane' = lane /\ link[i] = q /\ row[i] = "printing"
  BY <1>1, CalmFacts DEF RowFades
<1> QED BY <1>1, <1>2 DEF HoldsLane

LEMMA PlateOfStart ==
    ASSUME Ground, LaneInv, PlateInv, NEW i \in Items, Start(i), SweptFirst
    PROVE  PlateInv'
<1>0. OnceInv /\ SwapInv /\ OrderInv /\ RowOK
  BY GroundParts
<1>1. PICK r \in Runs :
         /\ live.pc # "none" => live.run # r
         /\ link' = [link EXCEPT ![i] = r] /\ lane' = [status |-> "printing", current |-> i]
         /\ UNCHANGED <<live, sweep>>
  BY <1>0, StartFacts
<1>2. \A s \in Sweepers : sweep[s].pc = "none"
  BY DEF SweptFirst
<1>3. NoDispatchOverPlate' /\ SweepCleared'
  BY <1>1, <1>2 DEF NoDispatchOverPlate, SweepCleared
<1>4. LiveCleared'
  BY <1>0, <1>1 DEF LiveCleared, HoldsLane, RowOK
<1> QED BY <1>3, <1>4 DEF PlateInv

LEMMA PlateOfEnd ==
    ASSUME Ground, LaneInv, PlateInv, NEW o \in Terminal, PrintEnds(o)
    PROVE  PlateInv'
<1>0. OnceInv /\ SwapInv
  BY GroundParts
<1>1. /\ dev.state = "printing" /\ UNCHANGED <<row, link, lane, arch, gate, live, sweep>>
  BY DEF PrintEnds, db, actors
<1>2. dev.run \in Runs /\ Fresh(dev.run)
  BY <1>0, <1>1, Parts, LaneParts DEF DevTruth, DevFresh
<1>3. HoldsLane(dev.run)
  BY <1>2, LaneParts DEF FreshHold
<1>4. NoDispatchOverPlate'
  BY <1>1, <1>3 DEF NoDispatchOverPlate, HoldsLane
<1>5. \A q : HoldsLane(q) => q = dev.run
  BY <1>3 DEF HoldsLane
<1>6. LiveCleared'
  <2>1. ~(live.pc # "none" /\ live.run = dev.run)
    BY <1>2, FreshIsOut
  <2> QED BY <1>1, <1>5, <2>1 DEF LiveCleared, HoldsLane
<1>7. SweepCleared'
  <2>1. arch[dev.run].status # "completed"
    BY <1>2 DEF Fresh
  <2> QED BY <1>1, <1>5, <2>1 DEF SweepCleared, HoldsLane
<1> QED BY <1>4, <1>6, <1>7 DEF PlateInv

LEMMA LaneToIdle ==
    ASSUME Ground, LaneInv, PlateInv, [Next]_vars, Calm, PrinterRests
    PROVE  NoDispatchOverPlate'
<1> SUFFICES ASSUME RequirePlateClear, lane'.status = "idle", gate' = NoRun, onPlate' PROVE FALSE
  BY DEF NoDispatchOverPlate
<1>0. /\ OnceInv /\ SwapInv /\ LiveRow /\ onPlate /\ LaneCase /\ gate = NoRun
      /\ NoDispatchOverPlate /\ LiveCleared /\ SweepCleared
  BY GroundParts, CalmFacts, GateWasOpen DEF PrinterRests, PlateInv
<1>1. lane' # lane
  BY <1>0 DEF NoDispatchOverPlate
<1>2. CASE LaneHeldBack \/ LaneRepaired \/ \E s \in Sweepers, r \in Runs : LaneRecovered(s, r)
  BY <1>2 DEF LaneHeldBack, LaneRepaired, LaneRecovered
<1>3. CASE Resume
  BY <1>3 DEF Resume
<1>4. CASE LaneFinalized
  <2>1. live.pc = "finalize" /\ live.row \in Items
    BY <1>0, <1>4 DEF LaneFinalized, LiveFinalize, LiveRow
  <2>2. HoldsLane(live.run) /\ arch[live.run].status = "printing"
    BY <1>4, <2>1 DEF LaneFinalized, HoldsLane
  <2> QED BY <1>0, <2>1, <2>2 DEF LiveCleared
<1>5. ASSUME NEW s \in Sweepers, LaneSwept(s) PROVE FALSE
  <2>1. /\ sweep[s].pc = "row" /\ lane.status = "printing" /\ arch[sweep[s].run].status = "completed"
        /\ ~arch[sweep[s].run].owes /\ sweep[s].run \in Runs
    BY <1>0, <1>5, Parts DEF LaneSwept, SweepRow, SwapOwed, Known
  <2>2. PICK i \in Items : link[i] = sweep[s].run /\ row[i] = "printing"
    BY <1>5 DEF LaneSwept
  <2>3. lane.current = i
    BY <2>1, <2>2, LaneParts DEF HandHolds, InHand
  <2>4. HoldsLane(sweep[s].run)
    BY <2>1, <2>2, <2>3 DEF HoldsLane
  <2> QED BY <1>0, <2>1, <2>4 DEF SweepCleared
<1>6. ASSUME NEW t \in Tasks, LaneSettled(t) PROVE FALSE
  <2>1. task[t].pc = "settle" /\ task[t].swapped
    BY <1>6 DEF LaneSettled, ResolveSettle
  <2>2. task[t].run \in Runs /\ arch[task[t].run].claim = "finished"
    BY <1>0, <2>1, Parts, GroundParts DEF SettlesTrue, TaskOwns
  <2>3. Away(task[t].run)
    BY <2>2, GroundParts DEF AnswersTrue, Away
  <2>4. OwnsEffect(task[t].run)
    BY <2>1, <2>2, LaneParts DEF TaskHolds, CanSwap
  <2> QED BY <1>0, <2>2, <2>3, <2>4, GroundParts DEF PlateLeft
<1> QED BY <1>0, <1>1, <1>2, <1>3, <1>4, <1>5, <1>6 DEF LaneCase

LEMMA LiveClearedKept ==
    ASSUME Ground, LaneInv, PlateInv, [Next]_vars, Calm, PrinterRests
    PROVE  LiveCleared'
<1>0. OnceInv /\ SwapInv /\ LiveCleared
  BY GroundParts DEF PlateInv
<1>1. ASSUME NEW q \in Runs, q = live'.run, RequirePlateClear, live'.pc = "finalize", HoldsLane(q)',
             arch'[q].status = "printing", gate' = NoRun, onPlate'
      PROVE  FALSE
  <2>1. onPlate /\ gate = NoRun /\ HoldsLane(q)
    BY <1>1, GateWasOpen, LaneWasHeld DEF PrinterRests
  <2>2. arch[q].status = "printing"
    BY <1>1, CalmFacts DEF ArchFades
  <2>3. live' # live
    BY <1>0, <1>1, <2>1, <2>2 DEF LiveCleared
  <2>4. ~Accept
    BY <1>0, <1>1, Parts, AcceptWrites
  <2>5. LiveGate /\ live.run = q /\ live.pc # "none"
    BY <1>0, <1>1, <2>3, <2>4, LivePcs DEF SameLive
  <2>6. OwnsEffect(q)
    BY <2>1, HolderIsLast
  <2>7. live.cleared
    BY <1>1, <2>5, <2>6, GateWasOpen
  <2> QED BY <2>1, <2>5, <2>6, <2>7, GroundParts DEF ClearedTrue, PlateLeft
<1>2. live'.pc # "none" => live'.run \in Runs
  <2>1. OtherOK /\ ArchOK /\ Known /\ LiveTruth
    BY <1>0, Parts
  <2> QED BY <1>0, <2>1, LiveFrame, AcceptWrites DEF LiveStays, LiveTruth
<1>3. \A q \in Runs : /\ q = live'.run /\ RequirePlateClear /\ live'.pc = "finalize" /\ HoldsLane(q)'
                      /\ arch'[q].status = "printing"
                      => gate' # NoRun \/ ~onPlate'
  BY <1>1
<1> QED BY <1>2, <1>3 DEF LiveCleared, HoldsLane

(* A closed run whose row prints on in the lane loses its swap to nobody    *)
(* while the part is on the plate.                                          *)
LEMMA OwedStays ==
    ASSUME Ground, LaneInv, [Next]_vars, Calm, PrinterRests, NEW q \in Runs,
           arch[q].status \in Terminal, HoldsLane(q), HoldsLane(q)', onPlate'
    PROVE  arch'[q].status = arch[q].status /\ arch'[q].owes = arch[q].owes
<1>0. /\ OnceInv /\ SwapInv /\ LinkInjective /\ LiveLink /\ LiveRow /\ RowOK /\ NoRun \notin Runs
      /\ StoryCase(q) /\ ClaimCase(q) /\ onPlate
  BY GroundParts, CalmFacts, RunsAreNumbers DEF PrinterRests
<1>1. ArchOK /\ LiveOK /\ OtherOK /\ Known /\ SweepOK /\ SweepTruth /\ LiveTruth
  BY <1>0, Parts
<1>2. arch[q].status # "printing" /\ OwnsEffect(q)
  BY HolderIsLast DEF Terminal
<1>3. arch'[q].status = arch[q].status
  <2>1. ASSUME NEW s \in Sweepers, SweepRecover(s, q) PROVE FALSE
    <3>1. PICK i \in Items : row[i] = "printing" /\ link[i] = q /\ row' = [row EXCEPT ![i] = arch[q].outcome]
                             /\ arch[q].outcome \in Terminal
      BY <1>1, <2>1, RecoverWrites
    <3>2. row'[i] # "printing" /\ link' = link
      BY <1>0, <2>1, <3>1 DEF SweepRecover, RowOK, Terminal
    <3> QED BY <1>0, <3>1, <3>2 DEF HoldsLane, LinkInjective
  <2>2. ASSUME NEW s \in Sweepers PROVE ~SweepClose(s, q)
    BY <1>2 DEF SweepClose
  <2>3. ~(Accept /\ q = report.run)
    BY <1>2 DEF Accept
  <2> QED BY <1>0, <1>2, <2>1, <2>2, <2>3 DEF StoryCase, SameTold
<1>4. ASSUME NEW ok \in BOOLEAN, LiveAnswer(ok), q = live.run PROVE FALSE
  <2>1. live.pc \in {"send", "sent"} /\ (ok => q \in moved)
    BY <1>1, <1>4, LiveAnswerMoves
  <2>2. ~ok
    BY <1>0, <1>2, <2>1, GroundParts DEF PlateLeft, Away
  <2>3. lane' = Halt("paused", live.row)
    BY <1>2, <1>4, <2>2 DEF LiveAnswer
  <2>4. lane.current = live.row
    BY <1>0, <1>4, <2>1 DEF LiveLink, HoldsLane
  <2>5. lane'.status = "paused"
    BY <2>3, <2>4 DEF Halt
  <2> QED BY <2>5 DEF HoldsLane
<1>5. ASSUME NEW t \in Tasks, NEW ok \in BOOLEAN, ResolveAnswer(t, ok), q = task[t].run PROVE FALSE
  <2>1. RowPrints(q)
    BY DEF HoldsLane, RowPrints
  <2> QED BY <1>5, <2>1, LaneParts DEF ResolveAnswer, TaskClosed
<1>6. arch'[q].owes = arch[q].owes
  BY <1>0, <1>4, <1>5 DEF ClaimCase
<1> QED BY <1>3, <1>6

LEMMA SweepClearedKept ==
    ASSUME Ground, LaneInv, PlateInv, [Next]_vars, Calm, PrinterRests
    PROVE  SweepCleared'
<1>0. OnceInv /\ SwapInv /\ SweepCleared /\ SweepsClosed
  BY GroundParts DEF PlateInv
<1>1. ASSUME NEW s \in Sweepers, NEW q \in Runs, q = sweep'[s].run, RequirePlateClear, sweep'[s].pc = "row",
             HoldsLane(q)', arch'[q].status = "completed", ~arch'[q].owes, gate' = NoRun, onPlate'
      PROVE  FALSE
  <2>1. onPlate /\ gate = NoRun /\ HoldsLane(q)
    BY <1>1, GateWasOpen, LaneWasHeld DEF PrinterRests
  <2>2. SweepCase(s) /\ SweepOK
    BY <1>0, SweepFrame, Parts
  <2>3. CASE sweep'[s] = sweep[s]
    <3>1. sweep[s].pc = "row" /\ sweep[s].run = q /\ arch[q].status \in Terminal
      BY <1>0, <1>1, <2>3 DEF SweepsClosed
    <3>2. arch[q].status = "completed" /\ ~arch[q].owes
      BY <1>1, <2>1, <3>1, OwedStays
    <3> QED BY <1>0, <1>1, <2>1, <3>1, <3>2 DEF SweepCleared
  <2>4. CASE SweepGate(s)
    <3>1. sweep[s].run = q /\ arch' = arch
      BY <1>1, <2>2, <2>4, GateMoves DEF SweepGate
    <3>2. SwapOwed(q)
      BY <1>1, <2>4, <3>1, GateWasOpen
    <3> QED BY <1>1, <3>1, <3>2 DEF SwapOwed
  <2>5. CASE sweep'[s] = NoSweep
    BY <1>1, <2>5 DEF NoSweep
  <2>6. CASE SweepBegin(s) \/ SweepRepair(s) \/ SweepRow(s) \/ \E r \in Runs : SweepRecover(s, r) \/ SweepClose(s, r)
    BY <1>1, <2>2, <2>6, BeginMoves, RepairMoves, RowMoves, RecoverMoves, CloseMoves
  <2> QED BY <2>2, <2>3, <2>4, <2>5, <2>6 DEF SweepCase
<1>2. \A s \in Sweepers : sweep'[s].pc = "row" => sweep'[s].run \in Runs
  <2>1. Known'
    BY <1>0, KnownHolds DEF OnceInv
  <2> QED BY <2>1 DEF Known
<1>3. \A s \in Sweepers, q \in Runs :
         /\ q = sweep'[s].run /\ RequirePlateClear /\ sweep'[s].pc = "row"
         /\ HoldsLane(q)' /\ arch'[q].status = "completed" /\ ~arch'[q].owes
         => gate' # NoRun \/ ~onPlate'
  BY <1>1
<1> QED BY <1>2, <1>3 DEF SweepCleared, HoldsLane

LEMMA PlateHolds ==
    ASSUME Ground, LaneInv, PlateInv, [Next]_vars, SweptFirst
    PROVE  PlateInv'
<1>1. ASSUME NEW i \in Items, Start(i) PROVE PlateInv'
  BY <1>1, PlateOfStart
<1>2. CASE Calm
  <2>1. ASSUME NEW o \in Terminal, PrintEnds(o) PROVE PlateInv'
    BY <2>1, PlateOfEnd
  <2>2. CASE PrinterRests
    BY <1>2, <2>2, LaneToIdle, LiveClearedKept, SweepClearedKept DEF PlateInv
  <2> QED BY <1>2, <2>1, <2>2, CalmFacts
<1> QED BY <1>1, <1>2 DEF Calm

-----------------------------------------------------------------------------
(* The invariants of every behaviour, and of those whose prints start after *)
(* the sweeps.                                                              *)

LEMMA GroundInit == Init => MarkInv /\ AwayInv /\ GateInv
<1> SUFFICES ASSUME Init PROVE MarkInv /\ AwayInv /\ GateInv
  OBVIOUS
<1>1. /\ live.pc = "none" /\ command = {} /\ moved = {} /\ gate = NoRun
      /\ \A s \in Sweepers : sweep[s].pc = "none" /\ sweep[s].checkpoints = {}
      /\ \A t \in Tasks : task[t].pc = "none"
      /\ \A r \in Runs : ended[r] = "none" /\ arch[r].status = "none" /\ arch[r].claim = "none"
  BY DEF Init, NoLive, NoSweep, NoTask, NoArchive
<1>2. MarkInv
  BY <1>1 DEF MarkInv, LiveMarked, CheckpointsMarked, PrintingMarks, ClaimsMarked
<1>3. AwayInv
  BY <1>1 DEF AwayInv, SwapsTrue, AnswersTrue, SettlesTrue, ClearedTrue, PlateLeft, Away
<1>4. GateInv
  BY <1>1 DEF GateInv, LiveLink, GateOff, GateMade, GateHeld, TidyClosed, TidyUngated, TidyRow, SweepUnmarked
<1> QED BY <1>2, <1>3, <1>4

LEMMA GroundHolds == Spec => []Ground
<1>1. OnceInv /\ SwapInv /\ RowsInv /\ MarkInv /\ AwayInv /\ GateInv /\ [Next]_vars => MarkInv' /\ AwayInv' /\ GateInv'
  BY MarksHold, AwayHolds, GatesHold
<1>2. OnceInv /\ SwapInv /\ RowsInv /\ MarkInv /\ AwayInv /\ GateInv => Ground
  BY DEF Ground
<1> QED BY <1>1, <1>2, GroundInit, OnceInvHolds, SwapInvHolds, RowsInvHolds, PTL DEF Spec

LEMMA PlateInit == Init => LaneInv /\ PlateInv
<1> SUFFICES ASSUME Init PROVE LaneInv /\ PlateInv
  OBVIOUS
<1>1. /\ live.pc = "none" /\ dev.state = "idle" /\ ~onPlate
      /\ \A s \in Sweepers : sweep[s].pc = "none"
      /\ \A t \in Tasks : task[t].pc = "none"
      /\ \A r \in Runs : arch[r].status = "none" /\ arch[r].claim = "none"
  BY DEF Init, NoLive, NoSweep, NoTask, NoArchive
<1>2. FreshHold /\ DevFresh /\ SweepSees /\ SweepLeaves /\ HandHolds /\ ClosedHolds
  BY <1>1 DEF FreshHold, Fresh, DevFresh, SweepSees, SweepLeaves, HandHolds, ClosedHolds
<1>3. SwapHolds /\ TaskHolds /\ TaskClosed /\ TaskRests /\ LiveUnanswered
  BY <1>1 DEF SwapHolds, CanSwap, TaskHolds, TaskClosed, TaskRests, LiveUnanswered
<1>4. PlateInv
  BY <1>1 DEF PlateInv, NoDispatchOverPlate, LiveCleared, SweepCleared
<1> QED BY <1>2, <1>3, <1>4 DEF LaneInv

LEMMA StillIsSwept == ASSUME Ground, [SweptFirst]_vars PROVE SweptFirst
<1>1. ASSUME NEW i \in Items, Start(i), UNCHANGED vars PROVE FALSE
  <2>1. row[i] = "pending" /\ row' = [row EXCEPT ![i] = "printing"] /\ row' = row
    BY <1>1 DEF Start, vars, db
  <2>2. row'[i] = "printing"
    BY <2>1, GroundParts DEF RowOK
  <2> QED BY <2>1, <2>2
<1> QED BY <1>1 DEF SweptFirst

LEMMA PlateInvHolds == Spec /\ SweptStarts => [](LaneInv /\ PlateInv)
<1>1. Ground /\ Ground' /\ LaneInv /\ PlateInv /\ [Next]_vars /\ [SweptFirst]_vars => LaneInv' /\ PlateInv'
  <2> SUFFICES ASSUME Ground, Ground', LaneInv, PlateInv, [Next]_vars, [SweptFirst]_vars
               PROVE  LaneInv' /\ PlateInv'
    OBVIOUS
  <2>1. SweptFirst
    BY StillIsSwept
  <2>2. RowInv'
    BY DEF Ground, RowsInv
  <2> QED BY <2>1, <2>2, LaneHolds, PlateHolds
<1> QED BY <1>1, PlateInit, GroundHolds, PTL DEF Spec, SweptStarts

(* When every print starts after the sweeps and the resolutions of the      *)
(* earlier ones, the queue is never offered with the last part on the bed:  *)
(* the completion callback, a sweep, a resolution or a person sets the lane *)
(* idle only with the gate armed or the part away.                          *)
THEOREM PlateIsSafe == Spec /\ SweptStarts => []NoDispatchOverPlate
<1>1. PlateInv => NoDispatchOverPlate
  BY DEF PlateInv
<1> QED BY <1>1, PlateInvHolds, PTL

(* And no swap command is sent to a printer that prints.                    *)
THEOREM SwapsAreBetweenPrints == Spec /\ SweptStarts => SwapsBetweenPrints
<1>1. Ground /\ LaneInv /\ [Next]_vars => [\A r \in Runs : commands'[r] # commands[r] => dev.state # "printing"]_vars
  <2> SUFFICES ASSUME Ground, LaneInv, [Next]_vars, NEW r \in Runs, commands'[r] # commands[r], dev.state = "printing"
               PROVE  FALSE
    OBVIOUS
  <2>1. OnceInv /\ SwapInv /\ DevIsLast
    BY GroundParts
  <2>2. dev.run \in Runs /\ Fresh(dev.run) /\ OwnsEffect(dev.run)
    BY <2>1, Parts, LaneParts DEF DevTruth, DevFresh, DevIsLast
  <2>3. CASE LiveSend
    <3>1. live.pc # "none" /\ OwnsEffect(live.run) /\ live.run \in Runs /\ arch[live.run].claim = "attempted"
      BY <2>1, <2>3, Parts DEF LiveSend, LiveTruth, LiveOwns, Owned
    <3>2. Made(live.run)
      BY <2>1, <3>1, Parts DEF LiveTruth, ArchTruth, Known, Made, Terminal
    <3>3. live.run = dev.run
      BY <2>2, <3>1, <3>2, FreshIsOut, LastRun
    <3> QED BY <2>2, <3>1, <3>3, FreshIsOut
  <2>4. ASSUME NEW t \in Tasks PROVE ~ResolveSend(t)
    BY LaneParts DEF ResolveSend, TaskRests
  <2> QED BY <2>1, <2>3, <2>4, CommandFrame DEF CommandCase
<1> QED BY <1>1, GroundHolds, PlateInvHolds, PTL DEF Spec, SwapsBetweenPrints
=============================================================================
