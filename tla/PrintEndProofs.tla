---------------------------- MODULE PrintEndProofs ----------------------------
(***************************************************************************)
(* The effects of a print's end run once, and its table swaps implement     *)
(* TableSwap, for any number of prints, sweeps, resolutions and faults.     *)
(***************************************************************************)
EXTENDS PrintEnd, TLAPS

ArchRec ==
    [status : {"none", "printing"} \cup Terminal, owes : BOOLEAN, baked : Facts \cup {"no"},
     claim : {"none", "owed", "attempted"} \cup Answered,
     marker : {"none", "accepted", "db_finalized", "recovered_uncertain"},
     outcome : {"none"} \cup Terminal, uncertain : {"no", "outcome", "effects"}, held : BOOLEAN]

LiveRec ==
    [pc : {"none", "decide", "claim", "send", "sent", "hold", "gate", "finalize", "tidy"},
     run : Runs \cup {NoRun}, row : Items \cup {NoItem}, outcome : {"none"} \cup Terminal,
     proven : BOOLEAN, cleared : BOOLEAN, held : BOOLEAN]

SweepRec ==
    [pc : {"none", "repair", "close", "gate", "row"},
     state : {"idle", "printing", "finished", "failed"}, file : Runs \cup {NoRun},
     old : SUBSET Runs, orphans : SUBSET Runs, checkpoints : SUBSET Runs,
     run : Runs \cup {NoRun}, closed : SUBSET Runs]

ArchOK  == arch \in [Runs -> ArchRec]
LiveOK  == live \in LiveRec
SweepOK == sweep \in [Sweepers -> SweepRec]
OtherOK ==
    /\ proven \in BOOLEAN
    /\ accepted \in [Runs -> Nat]
    /\ dev \in [state : {"idle", "printing", "finished", "failed"}, run : Runs \cup {NoRun}]
    /\ report \in [run : Runs \cup {NoRun}, outcome : {"none"} \cup Terminal]

Types == ArchOK /\ LiveOK /\ SweepOK /\ OtherOK

(* An outcome is known wherever one is about to be written. *)
Known ==
    /\ report.run # NoRun => report.outcome \in Terminal
    /\ live.pc # "none" => live.outcome \in Terminal
    /\ \A r \in Runs : arch[r].marker = "accepted" => arch[r].outcome \in Terminal /\ arch[r].status # "none"
    /\ \A s \in Sweepers : \A r \in sweep[s].checkpoints :
           arch[r].outcome \in Terminal /\ arch[r].status # "none"
    /\ \A s \in Sweepers : sweep[s].pc \in {"gate", "row"} => sweep[s].run \in Runs

(* Whose effects ran is either closed or marked as accepted. *)
Once ==
    \A r \in Runs : /\ accepted[r] <= 1
                    /\ accepted[r] # 0 => \/ arch[r].status \in Terminal
                                          \/ arch[r].status = "printing" /\ arch[r].marker = "accepted"

OnceInv == Types /\ Known /\ Once

(* One archive at a time is written. *)
LEMMA ArchUpdate ==
    ASSUME ArchOK, NEW r, NEW a, r \in Runs => a \in ArchRec, arch' = [arch EXCEPT ![r] = a]
    PROVE  ArchOK'
  BY DEF ArchOK

LEMMA FinishedArch == ASSUME NEW a \in ArchRec, NEW ok \in BOOLEAN PROVE Finished(a, ok) \in ArchRec
<1>1. (a.held /\ ~ok) \in BOOLEAN
  OBVIOUS
<1>2. (IF ok THEN "finished" ELSE "failed") \in Answered
  BY DEF Answered
<1> QED BY <1>1, <1>2 DEF Finished, ArchRec

LEMMA ArchFields ==
    ASSUME NEW a \in ArchRec, NEW outcome \in Terminal
    PROVE  /\ [a EXCEPT !.held = TRUE] \in ArchRec
           /\ [a EXCEPT !.claim = "attempted"] \in ArchRec
           /\ [a EXCEPT !.marker = "accepted", !.outcome = outcome] \in ArchRec
           /\ [a EXCEPT !.status = outcome, !.marker = "db_finalized"] \in ArchRec
           /\ [a EXCEPT !.status = outcome, !.marker = "recovered_uncertain", !.uncertain = "effects"] \in ArchRec
<1>1. [a EXCEPT !.held = TRUE] \in ArchRec
  BY DEF ArchRec
<1>2. [a EXCEPT !.claim = "attempted"] \in ArchRec
  BY DEF ArchRec
<1>3. [a EXCEPT !.marker = "accepted", !.outcome = outcome] \in ArchRec
  BY DEF ArchRec
<1>4. [a EXCEPT !.status = outcome, !.marker = "db_finalized"] \in ArchRec
  BY DEF ArchRec
<1>5. [a EXCEPT !.status = outcome, !.marker = "recovered_uncertain", !.uncertain = "effects"] \in ArchRec
  BY DEF ArchRec
<1> QED BY <1>1, <1>2, <1>3, <1>4, <1>5

LEMMA ClosedArch ==
    ASSUME NEW a \in ArchRec, NEW status \in Terminal, NEW doubt \in {"no", "outcome", "effects"},
           NEW claim \in {"none", "owed", "attempted"} \cup Answered
    PROVE  [a EXCEPT !.status = status, !.uncertain = doubt, !.claim = claim] \in ArchRec
  BY DEF ArchRec

LEMMA NewArch ==
    ASSUME NEW owes \in BOOLEAN, NEW fact \in Facts
    PROVE  [NoArchive EXCEPT !.status = "printing", !.owes = owes, !.baked = fact] \in ArchRec
  BY DEF ArchRec, NoArchive

LEMMA SweepStateKnown ==
    ASSUME SweepOK, NEW s \in Sweepers PROVE sweep[s].state \in {"idle", "printing", "finished", "failed"}
  BY DEF SweepOK, SweepRec

LEMMA SweepUpdate ==
    ASSUME SweepOK, NEW s \in Sweepers, NEW a \in SweepRec, sweep' = [sweep EXCEPT ![s] = a]
    PROVE  SweepOK'
  BY DEF SweepOK

LEMMA SweepFields ==
    ASSUME NEW a \in SweepRec, NEW X \in SUBSET Runs, NEW Y \in SUBSET Runs
    PROVE  /\ [a EXCEPT !.pc = "close", !.orphans = X, !.checkpoints = Y] \in SweepRec
           /\ [a EXCEPT !.pc = "close", !.run = NoRun, !.closed = X] \in SweepRec
  BY DEF SweepRec

LEMMA ClaimKeeps ==
    ASSUME ArchOK, NEW r, arch' = arch \/ arch' = [arch EXCEPT ![r].claim = "attempted"], NEW q \in Runs
    PROVE  arch'[q].marker = arch[q].marker /\ arch'[q].outcome = arch[q].outcome /\ arch'[q].status = arch[q].status
<1>1. CASE arch' = arch
  BY <1>1
<1>2. CASE arch' = [arch EXCEPT ![r].claim = "attempted"] /\ q = r
  <2>1. arch'[q] = [arch[q] EXCEPT !.claim = "attempted"]
    BY <1>2 DEF ArchOK
  <2>2. arch[q] \in ArchRec
    BY DEF ArchOK
  <2> QED BY <2>1, <2>2 DEF ArchRec
<1>3. CASE arch' = [arch EXCEPT ![r].claim = "attempted"] /\ q # r
  <2>1. arch'[q] = arch[q]
    BY <1>3 DEF ArchOK
  <2> QED BY <2>1
<1> QED BY <1>1, <1>2, <1>3

LEMMA RepairFields ==
    ASSUME SweepOK, NEW s \in Sweepers, NEW X, NEW Y,
           sweep' = [sweep EXCEPT ![s] = [sweep[s] EXCEPT !.pc = "close", !.orphans = X, !.checkpoints = Y]]
    PROVE  /\ \A q \in Sweepers \ {s} : sweep'[q] = sweep[q]
           /\ sweep'[s].checkpoints = Y /\ sweep'[s].pc = "close"
<1>1. sweep[s] \in SweepRec
  BY DEF SweepOK
<1>2. sweep'[s] = [sweep[s] EXCEPT !.pc = "close", !.orphans = X, !.checkpoints = Y]
  BY DEF SweepOK
<1>3. \A q \in Sweepers \ {s} : sweep'[q] = sweep[q]
  BY DEF SweepOK
<1>4. sweep'[s].pc = "close"
  BY <1>1, <1>2, SMTT(30), ZenonT(30) DEF SweepRec
<1>5. sweep'[s].checkpoints = Y
  <2> DEFINE a == sweep[s]
  <2>1. a = [f \in DOMAIN a |-> a[f]] /\ "checkpoints" \in DOMAIN a
    BY <1>1 DEF SweepRec
  <2> HIDE DEF a
  <2>2. [a EXCEPT !.pc = "close", !.orphans = X, !.checkpoints = Y].checkpoints = Y
    BY <2>1
  <2> QED BY <1>2, <2>2 DEF a
<1> QED BY <1>3, <1>4, <1>5

LEMMA ArchHolds == Types /\ Known /\ [Next]_vars => ArchOK'
<1> SUFFICES ASSUME Types, Known, [Next]_vars PROVE ArchOK'
  OBVIOUS
<1> USE DEF Types, ArchOK
<1>1. ASSUME NEW i \in Items, Start(i) PROVE ArchOK'
  <2>1. PICK r \in Runs, owes \in BOOLEAN, fact \in Facts :
            arch' = [arch EXCEPT ![r] = [NoArchive EXCEPT !.status = "printing", !.owes = owes, !.baked = fact]]
    BY <1>1 DEF Start
  <2> QED BY <2>1, NewArch, ArchUpdate
<1>2. ASSUME NEW outcome \in Terminal, PrintEnds(outcome) PROVE ArchOK'
  BY <1>2 DEF PrintEnds, NoReport, db, ram, net, actors, device, past
<1>3. ASSUME PrinterForgets PROVE ArchOK'
  BY <1>3 DEF PrinterForgets, db, ram, net, actors, device, past
<1>4. ASSUME NEW r \in Runs, PrinterSwaps(r) PROVE ArchOK'
  BY <1>4 DEF PrinterSwaps, db, ram, net, actors, device, past
<1>5. ASSUME Accept PROVE ArchOK'
  <2> DEFINE r0 == report.run
             a0 == [arch[r0] EXCEPT !.marker = "accepted", !.outcome = report.outcome]
  <2>1. arch' = [arch EXCEPT ![r0] = a0]
    BY <1>5 DEF Accept
  <2>2. r0 \in Runs => a0 \in ArchRec
    BY <1>5, ArchFields DEF Accept, Known
  <2> QED BY <2>1, <2>2, ArchUpdate
<1>6. ASSUME LiveDecide PROVE ArchOK'
  BY <1>6 DEF LiveDecide, db, ram, net, actors, device, past
<1>7. ASSUME LiveClaim PROVE ArchOK'
  <2> DEFINE r0 == live.run
             a0 == [arch[r0] EXCEPT !.claim = "attempted"]
  <2>1. arch' = [arch EXCEPT ![r0] = a0] \/ arch' = arch
    BY <1>7 DEF LiveClaim
  <2>2. r0 \in Runs => a0 \in ArchRec
    BY ArchFields DEF Terminal
  <2>3. CASE arch' = [arch EXCEPT ![r0] = a0]
    BY <2>2, <2>3, ArchUpdate
  <2>4. CASE arch' = arch
    BY <2>4
  <2> QED BY <2>1, <2>3, <2>4
<1>8. ASSUME LiveSend PROVE ArchOK'
  BY <1>8 DEF LiveSend, db, ram, net, actors, device, past
<1>9. ASSUME NEW ok \in BOOLEAN, LiveAnswer(ok) PROVE ArchOK'
  <2> DEFINE r0 == live.run
             a0 == Finished(arch[r0], ok)
  <2>1. arch' = [arch EXCEPT ![r0] = a0]
    BY <1>9 DEF LiveAnswer
  <2>2. r0 \in Runs => a0 \in ArchRec
    BY FinishedArch
  <2> QED BY <2>1, <2>2, ArchUpdate
<1>10. ASSUME LiveError PROVE ArchOK'
  BY <1>10 DEF LiveError, db, ram, net, actors, device, past
<1>11. ASSUME LiveHold PROVE ArchOK'
  <2> DEFINE r0 == live.run
             a0 == [arch[r0] EXCEPT !.held = TRUE]
  <2>1. arch' = [arch EXCEPT ![r0] = a0]
    BY <1>11 DEF LiveHold
  <2>2. r0 \in Runs => a0 \in ArchRec
    BY ArchFields DEF Terminal
  <2> QED BY <2>1, <2>2, ArchUpdate
<1>12. ASSUME LiveGate PROVE ArchOK'
  BY <1>12 DEF LiveGate, db, ram, net, actors, device, past
<1>13. ASSUME LiveFinalize PROVE ArchOK'
  <2> DEFINE r0 == live.run
             a0 == [arch[r0] EXCEPT !.status = live.outcome, !.marker = "db_finalized"]
  <2>1. arch' = [arch EXCEPT ![r0] = a0] \/ arch' = arch
    BY <1>13 DEF LiveFinalize
  <2>2. r0 \in Runs => a0 \in ArchRec
    BY <1>13, ArchFields DEF Known, LiveFinalize
  <2>3. CASE arch' = [arch EXCEPT ![r0] = a0]
    BY <2>2, <2>3, ArchUpdate
  <2>4. CASE arch' = arch
    BY <2>4
  <2> QED BY <2>1, <2>3, <2>4
<1>14. ASSUME LiveTidy PROVE ArchOK'
  BY <1>14 DEF LiveTidy, NoLive, db, ram, net, actors, device, past
<1>15. ASSUME NEW s \in Sweepers, SweepBegin(s) PROVE ArchOK'
  BY <1>15 DEF SweepBegin, NoSweep, Printing, db, ram, net, actors, device, past
<1>16. ASSUME NEW s \in Sweepers, SweepRepair(s) PROVE ArchOK'
  BY <1>16 DEF SweepRepair, Printing, db, ram, net, actors, device, past
<1>17. ASSUME NEW s \in Sweepers, NEW r \in Runs, SweepRecover(s, r) PROVE ArchOK'
  <2> DEFINE r0 == r
             a0 == [arch[r0] EXCEPT !.status = arch[r0].outcome, !.marker = "recovered_uncertain", !.uncertain = "effects"]
  <2>1. arch' = [arch EXCEPT ![r0] = a0]
    BY <1>17 DEF SweepRecover
  <2>2. r0 \in Runs => a0 \in ArchRec
    BY <1>17, ArchFields DEF SweepRecover, Known
  <2> QED BY <2>1, <2>2, ArchUpdate
<1>18. ASSUME NEW s \in Sweepers, NEW r \in Runs, SweepClose(s, r) PROVE ArchOK'
  <2> DEFINE verdict == Verdict(s, r)
             status == IF verdict = "uncertain" THEN "cancelled" ELSE verdict
             doubt == IF verdict = "uncertain" THEN "outcome" ELSE arch[r].uncertain
             claim == IF status = "completed" /\ arch[r].owes /\ arch[r].marker = "none" /\ arch[r].claim = "none"
                      THEN "owed" ELSE arch[r].claim
  <2>1. arch' = [arch EXCEPT ![r] = [arch[r] EXCEPT !.status = status, !.uncertain = doubt, !.claim = claim]]
    BY <1>18 DEF SweepClose
  <2>2. status \in Terminal
    BY <1>18, SweepStateKnown DEF SweepClose, Verdict, Terminal
  <2>3. doubt \in {"no", "outcome", "effects"} /\ claim \in {"none", "owed", "attempted"} \cup Answered
    BY DEF ArchRec
  <2>4. arch[r] \in ArchRec
    OBVIOUS
  <2> HIDE DEF status, doubt, claim
  <2> QED BY <2>1, <2>2, <2>3, <2>4, ClosedArch, ArchUpdate
<1>19. ASSUME NEW s \in Sweepers, SweepGate(s) PROVE ArchOK'
  BY <1>19 DEF SweepGate, db, ram, net, actors, device, past
<1>20. ASSUME NEW s \in Sweepers, SweepRow(s) PROVE ArchOK'
  BY <1>20 DEF SweepRow, db, ram, net, actors, device, past
<1>21. ASSUME NEW s \in Sweepers, SweepEnd(s) PROVE ArchOK'
  BY <1>21 DEF SweepEnd, NoSweep, db, ram, net, actors, device, past
<1>22. ASSUME NEW t \in Tasks, ResolveRead(t) PROVE ArchOK'
  BY <1>22 DEF ResolveRead, db, ram, net, actors, device, past
<1>23. ASSUME NEW t \in Tasks, ResolveClaim(t) PROVE ArchOK'
  <2> DEFINE r0 == task[t].run
             a0 == [arch[r0] EXCEPT !.claim = "attempted"]
  <2>1. arch' = [arch EXCEPT ![r0] = a0] \/ arch' = arch
    BY <1>23 DEF ResolveClaim
  <2>2. r0 \in Runs => a0 \in ArchRec
    BY ArchFields DEF Terminal
  <2>3. CASE arch' = [arch EXCEPT ![r0] = a0]
    BY <2>2, <2>3, ArchUpdate
  <2>4. CASE arch' = arch
    BY <2>4
  <2> QED BY <2>1, <2>3, <2>4
<1>24. ASSUME NEW t \in Tasks, ResolveSend(t) PROVE ArchOK'
  BY <1>24 DEF ResolveSend, db, ram, net, actors, device, past
<1>25. ASSUME NEW t \in Tasks, NEW ok \in BOOLEAN, ResolveAnswer(t, ok) PROVE ArchOK'
  <2> DEFINE r0 == task[t].run
             a0 == Finished(arch[r0], ok)
  <2>1. arch' = [arch EXCEPT ![r0] = a0]
    BY <1>25 DEF ResolveAnswer
  <2>2. r0 \in Runs => a0 \in ArchRec
    BY FinishedArch
  <2> QED BY <2>1, <2>2, ArchUpdate
<1>26. ASSUME NEW t \in Tasks, ResolveError(t) PROVE ArchOK'
  BY <1>26 DEF ResolveError, db, ram, net, actors, device, past
<1>27. ASSUME NEW t \in Tasks, ResolveSettle(t) PROVE ArchOK'
  BY <1>27 DEF ResolveSettle, db, ram, net, actors, device, past
<1>28. ASSUME NEW t \in Tasks, ResolveHold(t) PROVE ArchOK'
  <2> DEFINE r0 == task[t].run
             a0 == [arch[r0] EXCEPT !.held = TRUE]
  <2>1. arch' = [arch EXCEPT ![r0] = a0]
    BY <1>28 DEF ResolveHold
  <2>2. r0 \in Runs => a0 \in ArchRec
    BY ArchFields DEF Terminal
  <2> QED BY <2>1, <2>2, ArchUpdate
<1>29. ASSUME NEW r \in Runs, NEW action \in {"clear", "repeat"}, AnswerPlate(r, action) PROVE ArchOK'
  BY <1>29 DEF AnswerPlate, db, ram, net, actors, device, past
<1>30. ASSUME Resume PROVE ArchOK'
  BY <1>30 DEF Resume, db, ram, net, actors, device, past
<1>31. ASSUME Drop PROVE ArchOK'
  BY <1>31 DEF Drop, NoReport, db, ram, net, actors, device, past
<1>32. ASSUME Connect PROVE ArchOK'
  BY <1>32 DEF Connect, db, ram, net, actors, device, past
<1>33. ASSUME Crash PROVE ArchOK'
  BY <1>33 DEF Crash, NoLive, NoSweep, NoReport, db, ram, net, actors, device, past
<1>34. ASSUME Restart PROVE ArchOK'
  BY <1>34 DEF Restart, db, ram, net, actors, device, past
<1>35. CASE UNCHANGED vars
  BY <1>35 DEF vars, db, ram, net, actors, device, past
<1> HIDE DEF Types, ArchOK
<1> QED
  BY <1>1, <1>2, <1>3, <1>4, <1>5, <1>6, <1>7, <1>8, <1>9, <1>10, <1>11, <1>12, <1>13, <1>14, <1>15, <1>16, <1>17, <1>18,
     <1>19, <1>20, <1>21, <1>22, <1>23, <1>24, <1>25, <1>26, <1>27, <1>28, <1>29, <1>30, <1>31, <1>32, <1>33, <1>34, <1>35
     DEF Next, Printer, Live, Operator, Sweep, Resolve

LEMMA LiveHolds == Types /\ Known /\ [Next]_vars => LiveOK'
<1> SUFFICES ASSUME Types, Known, [Next]_vars PROVE LiveOK'
  OBVIOUS
<1> USE DEF Types, LiveOK, LiveRec, OtherOK, NoRun
<1>1. ASSUME NEW i \in Items, Start(i) PROVE LiveOK'
  BY <1>1 DEF Start, NoArchive, db, ram, net, actors, device, past
<1>2. ASSUME NEW outcome \in Terminal, PrintEnds(outcome) PROVE LiveOK'
  BY <1>2 DEF PrintEnds, NoReport, db, ram, net, actors, device, past
<1>3. ASSUME PrinterForgets PROVE LiveOK'
  BY <1>3 DEF PrinterForgets, db, ram, net, actors, device, past
<1>4. ASSUME NEW r \in Runs, PrinterSwaps(r) PROVE LiveOK'
  BY <1>4 DEF PrinterSwaps, db, ram, net, actors, device, past
<1>5. ASSUME Accept PROVE LiveOK'
  <2>1. PICK i \in Items : live' = [pc |-> "decide", run |-> report.run, row |-> i, outcome |-> report.outcome,
                                     proven |-> proven, cleared |-> FALSE, held |-> FALSE]
    BY <1>5 DEF Accept, RowOf
  <2> QED BY <2>1
<1>6. ASSUME LiveDecide PROVE LiveOK'
  BY <1>6, SMTT(30), ZenonT(30) DEF LiveDecide, db, ram, net, actors, device, past
<1>7. ASSUME LiveClaim PROVE LiveOK'
  BY <1>7 DEF LiveClaim, ClaimIsFree, NothingSent, db, ram, net, actors, device, past
<1>8. ASSUME LiveSend PROVE LiveOK'
  BY <1>8 DEF LiveSend, db, ram, net, actors, device, past
<1>9. ASSUME NEW ok \in BOOLEAN, LiveAnswer(ok) PROVE LiveOK'
  BY <1>9 DEF LiveAnswer, Finished, db, ram, net, actors, device, past
<1>10. ASSUME LiveError PROVE LiveOK'
  BY <1>10 DEF LiveError, db, ram, net, actors, device, past
<1>11. ASSUME LiveHold PROVE LiveOK'
  BY <1>11 DEF LiveHold, db, ram, net, actors, device, past
<1>12. ASSUME LiveGate PROVE LiveOK'
  BY <1>12 DEF LiveGate, db, ram, net, actors, device, past
<1>13. ASSUME LiveFinalize PROVE LiveOK'
  <2>1. live' = NoLive \/ live' = [live EXCEPT !.pc = "tidy"]
    BY <1>13 DEF LiveFinalize
  <2>2. CASE live' = NoLive
    BY <2>2 DEF NoLive
  <2>3. CASE live' = [live EXCEPT !.pc = "tidy"]
    BY <2>3
  <2> QED BY <2>1, <2>2, <2>3
<1>14. ASSUME LiveTidy PROVE LiveOK'
  BY <1>14 DEF LiveTidy, NoLive, db, ram, net, actors, device, past
<1>15. ASSUME NEW s \in Sweepers, SweepBegin(s) PROVE LiveOK'
  BY <1>15 DEF SweepBegin, NoSweep, Printing, db, ram, net, actors, device, past
<1>16. ASSUME NEW s \in Sweepers, SweepRepair(s) PROVE LiveOK'
  BY <1>16 DEF SweepRepair, Printing, db, ram, net, actors, device, past
<1>17. ASSUME NEW s \in Sweepers, NEW r \in Runs, SweepRecover(s, r) PROVE LiveOK'
  BY <1>17 DEF SweepRecover, db, ram, net, actors, device, past
<1>18. ASSUME NEW s \in Sweepers, NEW r \in Runs, SweepClose(s, r) PROVE LiveOK'
  BY <1>18 DEF SweepClose, Verdict, db, ram, net, actors, device, past
<1>19. ASSUME NEW s \in Sweepers, SweepGate(s) PROVE LiveOK'
  BY <1>19 DEF SweepGate, db, ram, net, actors, device, past
<1>20. ASSUME NEW s \in Sweepers, SweepRow(s) PROVE LiveOK'
  BY <1>20 DEF SweepRow, db, ram, net, actors, device, past
<1>21. ASSUME NEW s \in Sweepers, SweepEnd(s) PROVE LiveOK'
  BY <1>21 DEF SweepEnd, NoSweep, db, ram, net, actors, device, past
<1>22. ASSUME NEW t \in Tasks, ResolveRead(t) PROVE LiveOK'
  BY <1>22 DEF ResolveRead, db, ram, net, actors, device, past
<1>23. ASSUME NEW t \in Tasks, ResolveClaim(t) PROVE LiveOK'
  BY <1>23 DEF ResolveClaim, db, ram, net, actors, device, past
<1>24. ASSUME NEW t \in Tasks, ResolveSend(t) PROVE LiveOK'
  BY <1>24 DEF ResolveSend, db, ram, net, actors, device, past
<1>25. ASSUME NEW t \in Tasks, NEW ok \in BOOLEAN, ResolveAnswer(t, ok) PROVE LiveOK'
  BY <1>25 DEF ResolveAnswer, Finished, db, ram, net, actors, device, past
<1>26. ASSUME NEW t \in Tasks, ResolveError(t) PROVE LiveOK'
  BY <1>26 DEF ResolveError, db, ram, net, actors, device, past
<1>27. ASSUME NEW t \in Tasks, ResolveSettle(t) PROVE LiveOK'
  BY <1>27 DEF ResolveSettle, db, ram, net, actors, device, past
<1>28. ASSUME NEW t \in Tasks, ResolveHold(t) PROVE LiveOK'
  BY <1>28 DEF ResolveHold, db, ram, net, actors, device, past
<1>29. ASSUME NEW r \in Runs, NEW action \in {"clear", "repeat"}, AnswerPlate(r, action) PROVE LiveOK'
  BY <1>29 DEF AnswerPlate, db, ram, net, actors, device, past
<1>30. ASSUME Resume PROVE LiveOK'
  BY <1>30 DEF Resume, db, ram, net, actors, device, past
<1>31. ASSUME Drop PROVE LiveOK'
  BY <1>31 DEF Drop, NoReport, db, ram, net, actors, device, past
<1>32. ASSUME Connect PROVE LiveOK'
  BY <1>32 DEF Connect, db, ram, net, actors, device, past
<1>33. ASSUME Crash PROVE LiveOK'
  BY <1>33 DEF Crash, NoLive, NoSweep, NoReport, db, ram, net, actors, device, past
<1>34. ASSUME Restart PROVE LiveOK'
  BY <1>34 DEF Restart, db, ram, net, actors, device, past
<1>35. CASE UNCHANGED vars
  BY <1>35 DEF vars, db, ram, net, actors, device, past
<1> HIDE DEF Types, LiveOK, LiveRec, OtherOK, NoRun
<1> QED
  BY <1>1, <1>2, <1>3, <1>4, <1>5, <1>6, <1>7, <1>8, <1>9, <1>10, <1>11, <1>12, <1>13, <1>14, <1>15, <1>16, <1>17, <1>18,
     <1>19, <1>20, <1>21, <1>22, <1>23, <1>24, <1>25, <1>26, <1>27, <1>28, <1>29, <1>30, <1>31, <1>32, <1>33, <1>34, <1>35
     DEF Next, Printer, Live, Operator, Sweep, Resolve

LEMMA SweepHolds == Types /\ Known /\ [Next]_vars => SweepOK'
<1> SUFFICES ASSUME Types, Known, [Next]_vars PROVE SweepOK'
  OBVIOUS
<1> USE DEF Types, SweepOK, SweepRec, OtherOK, NoRun
<1>1. ASSUME NEW i \in Items, Start(i) PROVE SweepOK'
  BY <1>1 DEF Start, NoArchive, db, ram, net, actors, device, past
<1>2. ASSUME NEW outcome \in Terminal, PrintEnds(outcome) PROVE SweepOK'
  BY <1>2 DEF PrintEnds, NoReport, db, ram, net, actors, device, past
<1>3. ASSUME PrinterForgets PROVE SweepOK'
  BY <1>3 DEF PrinterForgets, db, ram, net, actors, device, past
<1>4. ASSUME NEW r \in Runs, PrinterSwaps(r) PROVE SweepOK'
  BY <1>4 DEF PrinterSwaps, db, ram, net, actors, device, past
<1>5. ASSUME Accept PROVE SweepOK'
  BY <1>5 DEF Accept, db, ram, net, actors, device, past
<1>6. ASSUME LiveDecide PROVE SweepOK'
  BY <1>6 DEF LiveDecide, db, ram, net, actors, device, past
<1>7. ASSUME LiveClaim PROVE SweepOK'
  BY <1>7 DEF LiveClaim, ClaimIsFree, NothingSent, db, ram, net, actors, device, past
<1>8. ASSUME LiveSend PROVE SweepOK'
  BY <1>8 DEF LiveSend, db, ram, net, actors, device, past
<1>9. ASSUME NEW ok \in BOOLEAN, LiveAnswer(ok) PROVE SweepOK'
  BY <1>9 DEF LiveAnswer, Finished, db, ram, net, actors, device, past
<1>10. ASSUME LiveError PROVE SweepOK'
  BY <1>10 DEF LiveError, db, ram, net, actors, device, past
<1>11. ASSUME LiveHold PROVE SweepOK'
  BY <1>11 DEF LiveHold, db, ram, net, actors, device, past
<1>12. ASSUME LiveGate PROVE SweepOK'
  BY <1>12 DEF LiveGate, db, ram, net, actors, device, past
<1>13. ASSUME LiveFinalize PROVE SweepOK'
  BY <1>13 DEF LiveFinalize, NoLive, db, ram, net, actors, device, past
<1>14. ASSUME LiveTidy PROVE SweepOK'
  BY <1>14 DEF LiveTidy, NoLive, db, ram, net, actors, device, past
<1>15. ASSUME NEW s \in Sweepers, SweepBegin(s) PROVE SweepOK'
  BY <1>15 DEF SweepBegin, NoSweep, Printing, db, ram, net, actors, device, past
<1>16. ASSUME NEW s \in Sweepers, SweepRepair(s) PROVE SweepOK'
  <2> DEFINE X == {r \in Printing : arch[r].marker # "accepted"}
             Y == {r \in Printing : arch[r].marker = "accepted"}
  <2>1. sweep' = [sweep EXCEPT ![s] = [sweep[s] EXCEPT !.pc = "close", !.orphans = X, !.checkpoints = Y]]
    BY <1>16 DEF SweepRepair
  <2>2. X \in SUBSET Runs /\ Y \in SUBSET Runs /\ sweep[s] \in SweepRec
    BY DEF Printing
  <2> HIDE DEF X, Y
  <2> QED BY <2>1, <2>2, SweepFields, SweepUpdate
<1>17. ASSUME NEW s \in Sweepers, NEW r \in Runs, SweepRecover(s, r) PROVE SweepOK'
  BY <1>17 DEF SweepRecover, db, ram, net, actors, device, past
<1>18. ASSUME NEW s \in Sweepers, NEW r \in Runs, SweepClose(s, r) PROVE SweepOK'
  BY <1>18 DEF SweepClose, Verdict, db, ram, net, actors, device, past
<1>19. ASSUME NEW s \in Sweepers, SweepGate(s) PROVE SweepOK'
  BY <1>19 DEF SweepGate, db, ram, net, actors, device, past
<1>20. ASSUME NEW s \in Sweepers, SweepRow(s) PROVE SweepOK'
  <2> DEFINE closed == sweep[s].closed \cup {sweep[s].run}
  <2>1. sweep' = [sweep EXCEPT ![s] = [sweep[s] EXCEPT !.pc = "close", !.run = NoRun, !.closed = closed]]
    BY <1>20 DEF SweepRow
  <2>2. sweep[s].run \in Runs
    BY <1>20 DEF SweepRow, Known
  <2>3. closed \in SUBSET Runs /\ sweep[s] \in SweepRec
    BY <2>2
  <2> HIDE DEF closed
  <2> QED BY <2>1, <2>3, SweepFields, SweepUpdate
<1>21. ASSUME NEW s \in Sweepers, SweepEnd(s) PROVE SweepOK'
  BY <1>21 DEF SweepEnd, NoSweep, db, ram, net, actors, device, past
<1>22. ASSUME NEW t \in Tasks, ResolveRead(t) PROVE SweepOK'
  BY <1>22 DEF ResolveRead, db, ram, net, actors, device, past
<1>23. ASSUME NEW t \in Tasks, ResolveClaim(t) PROVE SweepOK'
  BY <1>23 DEF ResolveClaim, db, ram, net, actors, device, past
<1>24. ASSUME NEW t \in Tasks, ResolveSend(t) PROVE SweepOK'
  BY <1>24 DEF ResolveSend, db, ram, net, actors, device, past
<1>25. ASSUME NEW t \in Tasks, NEW ok \in BOOLEAN, ResolveAnswer(t, ok) PROVE SweepOK'
  BY <1>25 DEF ResolveAnswer, Finished, db, ram, net, actors, device, past
<1>26. ASSUME NEW t \in Tasks, ResolveError(t) PROVE SweepOK'
  BY <1>26 DEF ResolveError, db, ram, net, actors, device, past
<1>27. ASSUME NEW t \in Tasks, ResolveSettle(t) PROVE SweepOK'
  BY <1>27 DEF ResolveSettle, db, ram, net, actors, device, past
<1>28. ASSUME NEW t \in Tasks, ResolveHold(t) PROVE SweepOK'
  BY <1>28 DEF ResolveHold, db, ram, net, actors, device, past
<1>29. ASSUME NEW r \in Runs, NEW action \in {"clear", "repeat"}, AnswerPlate(r, action) PROVE SweepOK'
  BY <1>29 DEF AnswerPlate, db, ram, net, actors, device, past
<1>30. ASSUME Resume PROVE SweepOK'
  BY <1>30 DEF Resume, db, ram, net, actors, device, past
<1>31. ASSUME Drop PROVE SweepOK'
  BY <1>31 DEF Drop, NoReport, db, ram, net, actors, device, past
<1>32. ASSUME Connect PROVE SweepOK'
  BY <1>32 DEF Connect, db, ram, net, actors, device, past
<1>33. ASSUME Crash PROVE SweepOK'
  BY <1>33 DEF Crash, NoLive, NoSweep, NoReport, db, ram, net, actors, device, past
<1>34. ASSUME Restart PROVE SweepOK'
  BY <1>34 DEF Restart, db, ram, net, actors, device, past
<1>35. CASE UNCHANGED vars
  BY <1>35 DEF vars, db, ram, net, actors, device, past
<1> HIDE DEF Types, SweepOK, SweepRec, OtherOK, NoRun
<1> QED
  BY <1>1, <1>2, <1>3, <1>4, <1>5, <1>6, <1>7, <1>8, <1>9, <1>10, <1>11, <1>12, <1>13, <1>14, <1>15, <1>16, <1>17, <1>18,
     <1>19, <1>20, <1>21, <1>22, <1>23, <1>24, <1>25, <1>26, <1>27, <1>28, <1>29, <1>30, <1>31, <1>32, <1>33, <1>34, <1>35
     DEF Next, Printer, Live, Operator, Sweep, Resolve

LEMMA OtherHolds == Types /\ Known /\ [Next]_vars => OtherOK'
<1> SUFFICES ASSUME Types, Known, [Next]_vars PROVE OtherOK'
  OBVIOUS
<1> USE BoundsAssumption DEF Types, OtherOK, NoRun, Runs
<1>1. ASSUME NEW i \in Items, Start(i) PROVE OtherOK'
  BY <1>1 DEF Start, NoArchive, db, ram, net, actors, device, past
<1>2. ASSUME NEW outcome \in Terminal, PrintEnds(outcome) PROVE OtherOK'
  BY <1>2 DEF PrintEnds, NoReport, db, ram, net, actors, device, past
<1>3. ASSUME PrinterForgets PROVE OtherOK'
  BY <1>3 DEF PrinterForgets, db, ram, net, actors, device, past
<1>4. ASSUME NEW r \in Runs, PrinterSwaps(r) PROVE OtherOK'
  BY <1>4 DEF PrinterSwaps, db, ram, net, actors, device, past
<1>5. ASSUME Accept PROVE OtherOK'
  BY <1>5 DEF Accept, db, ram, net, actors, device, past
<1>6. ASSUME LiveDecide PROVE OtherOK'
  BY <1>6 DEF LiveDecide, db, ram, net, actors, device, past
<1>7. ASSUME LiveClaim PROVE OtherOK'
  BY <1>7 DEF LiveClaim, ClaimIsFree, NothingSent, db, ram, net, actors, device, past
<1>8. ASSUME LiveSend PROVE OtherOK'
  BY <1>8 DEF LiveSend, db, ram, net, actors, device, past
<1>9. ASSUME NEW ok \in BOOLEAN, LiveAnswer(ok) PROVE OtherOK'
  BY <1>9 DEF LiveAnswer, Finished, db, ram, net, actors, device, past
<1>10. ASSUME LiveError PROVE OtherOK'
  BY <1>10 DEF LiveError, db, ram, net, actors, device, past
<1>11. ASSUME LiveHold PROVE OtherOK'
  BY <1>11 DEF LiveHold, db, ram, net, actors, device, past
<1>12. ASSUME LiveGate PROVE OtherOK'
  BY <1>12 DEF LiveGate, db, ram, net, actors, device, past
<1>13. ASSUME LiveFinalize PROVE OtherOK'
  BY <1>13 DEF LiveFinalize, NoLive, db, ram, net, actors, device, past
<1>14. ASSUME LiveTidy PROVE OtherOK'
  BY <1>14 DEF LiveTidy, NoLive, db, ram, net, actors, device, past
<1>15. ASSUME NEW s \in Sweepers, SweepBegin(s) PROVE OtherOK'
  BY <1>15 DEF SweepBegin, NoSweep, Printing, db, ram, net, actors, device, past
<1>16. ASSUME NEW s \in Sweepers, SweepRepair(s) PROVE OtherOK'
  BY <1>16 DEF SweepRepair, Printing, db, ram, net, actors, device, past
<1>17. ASSUME NEW s \in Sweepers, NEW r \in Runs, SweepRecover(s, r) PROVE OtherOK'
  BY <1>17 DEF SweepRecover, db, ram, net, actors, device, past
<1>18. ASSUME NEW s \in Sweepers, NEW r \in Runs, SweepClose(s, r) PROVE OtherOK'
  BY <1>18 DEF SweepClose, Verdict, db, ram, net, actors, device, past
<1>19. ASSUME NEW s \in Sweepers, SweepGate(s) PROVE OtherOK'
  BY <1>19 DEF SweepGate, db, ram, net, actors, device, past
<1>20. ASSUME NEW s \in Sweepers, SweepRow(s) PROVE OtherOK'
  BY <1>20 DEF SweepRow, db, ram, net, actors, device, past
<1>21. ASSUME NEW s \in Sweepers, SweepEnd(s) PROVE OtherOK'
  BY <1>21 DEF SweepEnd, NoSweep, db, ram, net, actors, device, past
<1>22. ASSUME NEW t \in Tasks, ResolveRead(t) PROVE OtherOK'
  BY <1>22 DEF ResolveRead, db, ram, net, actors, device, past
<1>23. ASSUME NEW t \in Tasks, ResolveClaim(t) PROVE OtherOK'
  BY <1>23 DEF ResolveClaim, db, ram, net, actors, device, past
<1>24. ASSUME NEW t \in Tasks, ResolveSend(t) PROVE OtherOK'
  BY <1>24 DEF ResolveSend, db, ram, net, actors, device, past
<1>25. ASSUME NEW t \in Tasks, NEW ok \in BOOLEAN, ResolveAnswer(t, ok) PROVE OtherOK'
  BY <1>25 DEF ResolveAnswer, Finished, db, ram, net, actors, device, past
<1>26. ASSUME NEW t \in Tasks, ResolveError(t) PROVE OtherOK'
  BY <1>26 DEF ResolveError, db, ram, net, actors, device, past
<1>27. ASSUME NEW t \in Tasks, ResolveSettle(t) PROVE OtherOK'
  BY <1>27 DEF ResolveSettle, db, ram, net, actors, device, past
<1>28. ASSUME NEW t \in Tasks, ResolveHold(t) PROVE OtherOK'
  BY <1>28 DEF ResolveHold, db, ram, net, actors, device, past
<1>29. ASSUME NEW r \in Runs, NEW action \in {"clear", "repeat"}, AnswerPlate(r, action) PROVE OtherOK'
  BY <1>29 DEF AnswerPlate, db, ram, net, actors, device, past
<1>30. ASSUME Resume PROVE OtherOK'
  BY <1>30 DEF Resume, db, ram, net, actors, device, past
<1>31. ASSUME Drop PROVE OtherOK'
  BY <1>31 DEF Drop, NoReport, db, ram, net, actors, device, past
<1>32. ASSUME Connect PROVE OtherOK'
  BY <1>32 DEF Connect, db, ram, net, actors, device, past
<1>33. ASSUME Crash PROVE OtherOK'
  BY <1>33 DEF Crash, NoLive, NoSweep, NoReport, db, ram, net, actors, device, past
<1>34. ASSUME Restart PROVE OtherOK'
  BY <1>34 DEF Restart, db, ram, net, actors, device, past
<1>35. CASE UNCHANGED vars
  BY <1>35 DEF vars, db, ram, net, actors, device, past
<1> HIDE DEF Types, OtherOK, NoRun, Runs
<1> QED
  BY <1>1, <1>2, <1>3, <1>4, <1>5, <1>6, <1>7, <1>8, <1>9, <1>10, <1>11, <1>12, <1>13, <1>14, <1>15, <1>16, <1>17, <1>18,
     <1>19, <1>20, <1>21, <1>22, <1>23, <1>24, <1>25, <1>26, <1>27, <1>28, <1>29, <1>30, <1>31, <1>32, <1>33, <1>34, <1>35
     DEF Next, Printer, Live, Operator, Sweep, Resolve

(* Only one sweep moved: what is known is what it knows now. *)
LEMMA KnownOfOneSweep ==
    ASSUME Known, NEW s \in Sweepers, arch' = arch, live' = live, report' = report,
           \A q \in Sweepers \ {s} : sweep'[q] = sweep[q],
           \A r \in sweep'[s].checkpoints : arch[r].outcome \in Terminal /\ arch[r].status # "none",
           sweep'[s].pc \notin {"gate", "row"}
    PROVE  Known'
<1>1. \A q \in Sweepers : \A r \in sweep'[q].checkpoints : arch[r].outcome \in Terminal /\ arch[r].status # "none"
  <2> TAKE q \in Sweepers
  <2>1. CASE q = s
    BY <2>1
  <2>2. CASE q # s
    BY <2>2 DEF Known
  <2> QED BY <2>1, <2>2
<1>2. \A q \in Sweepers : sweep'[q].pc \in {"gate", "row"} => sweep'[q].run \in Runs
  <2> TAKE q \in Sweepers
  <2>1. CASE q = s
    BY <2>1
  <2>2. CASE q # s
    BY <2>2 DEF Known
  <2> QED BY <2>1, <2>2
<1> QED BY <1>1, <1>2 DEF Known

(* Only the claim of a swap moved: what is known of a run stays known. *)
LEMMA KnownOfClaim ==
    ASSUME Known, SweepOK, report' = report, sweep' = sweep,
           live'.pc # "none" => live'.outcome \in Terminal,
           \A q \in Runs : arch'[q].marker = arch[q].marker /\ arch'[q].outcome = arch[q].outcome
                             /\ arch'[q].status = arch[q].status
    PROVE  Known'
<1>1. \A r \in Runs : arch'[r].marker = "accepted" => arch'[r].outcome \in Terminal /\ arch'[r].status # "none"
  BY DEF Known
<1>2. \A s \in Sweepers : \A r \in sweep'[s].checkpoints :
          arch'[r].outcome \in Terminal /\ arch'[r].status # "none"
  <2> TAKE s \in Sweepers
  <2>1. sweep[s].checkpoints \subseteq Runs
    BY DEF SweepOK, SweepRec
  <2> QED BY <2>1 DEF Known
<1> QED BY <1>1, <1>2 DEF Known

LEMMA KnownHolds == Types /\ Known /\ [Next]_vars => Known'
<1> SUFFICES ASSUME Types, Known, [Next]_vars PROVE Known'
  OBVIOUS
<1> USE BoundsAssumption DEF Types, ArchOK, ArchRec, LiveOK, LiveRec, SweepOK, SweepRec, OtherOK, Known, Terminal, Answered, NoRun, Runs
<1>1. ASSUME NEW i \in Items, Start(i) PROVE Known'
  BY <1>1 DEF Start, NoArchive, db, ram, net, actors, device, past
<1>2. ASSUME NEW outcome \in Terminal, PrintEnds(outcome) PROVE Known'
  BY <1>2 DEF PrintEnds, NoReport, db, ram, net, actors, device, past
<1>3. ASSUME PrinterForgets PROVE Known'
  BY <1>3 DEF PrinterForgets, db, ram, net, actors, device, past
<1>4. ASSUME NEW r \in Runs, PrinterSwaps(r) PROVE Known'
  BY <1>4 DEF PrinterSwaps, db, ram, net, actors, device, past
<1>5. ASSUME Accept PROVE Known'
  BY <1>5, SMTT(30), ZenonT(30) DEF Accept, db, ram, net, actors, device, past
<1>6. ASSUME LiveDecide PROVE Known'
  BY <1>6 DEF LiveDecide, db, ram, net, actors, device, past
<1>7. ASSUME LiveClaim PROVE Known'
  <2>1. \A q \in Runs : arch'[q].marker = arch[q].marker /\ arch'[q].outcome = arch[q].outcome
                          /\ arch'[q].status = arch[q].status
    <3>1. arch' = arch \/ arch' = [arch EXCEPT ![live.run].claim = "attempted"]
      BY <1>7 DEF LiveClaim
    <3> QED BY <3>1, ClaimKeeps
  <2>2. report' = report /\ sweep' = sweep
    BY <1>7 DEF LiveClaim, past, device
  <2>3. SweepOK /\ (live'.pc # "none" => live'.outcome \in Terminal)
    BY <1>7 DEF LiveClaim
  <2> HIDE DEF SweepOK, Types, Known, Runs, NoRun, ArchRec, SweepRec, ArchOK, LiveOK, OtherOK, Terminal
  <2> QED BY <2>1, <2>2, <2>3, KnownOfClaim
<1>8. ASSUME LiveSend PROVE Known'
  BY <1>8 DEF LiveSend, db, ram, net, actors, device, past
<1>9. ASSUME NEW ok \in BOOLEAN, LiveAnswer(ok) PROVE Known'
  BY <1>9 DEF LiveAnswer, Finished, db, ram, net, actors, device, past
<1>10. ASSUME LiveError PROVE Known'
  BY <1>10 DEF LiveError, db, ram, net, actors, device, past
<1>11. ASSUME LiveHold PROVE Known'
  BY <1>11 DEF LiveHold, db, ram, net, actors, device, past
<1>12. ASSUME LiveGate PROVE Known'
  BY <1>12 DEF LiveGate, db, ram, net, actors, device, past
<1>13. ASSUME LiveFinalize PROVE Known'
  <2>1. UNCHANGED <<report, sweep>>
    BY <1>13 DEF LiveFinalize, device
  <2>2. live.outcome \in Terminal
    BY <1>13 DEF LiveFinalize
  <2>3. \A q \in Runs : \/ arch'[q] = arch[q]
                         \/ /\ arch'[q].status = live.outcome /\ arch'[q].marker = "db_finalized"
                            /\ arch'[q].outcome = arch[q].outcome
    BY <1>13 DEF LiveFinalize
  <2>4. live'.pc # "none" => live'.outcome \in Terminal
    BY <1>13, <2>2 DEF LiveFinalize, NoLive
  <2> QED BY <2>1, <2>2, <2>3, <2>4
<1>14. ASSUME LiveTidy PROVE Known'
  BY <1>14 DEF LiveTidy, NoLive, db, ram, net, actors, device, past
<1>15. ASSUME NEW s \in Sweepers, SweepBegin(s) PROVE Known'
  BY <1>15 DEF SweepBegin, NoSweep, Printing, db, ram, net, actors, device, past
<1>16. ASSUME NEW s \in Sweepers, SweepRepair(s) PROVE Known'
  <2> DEFINE X == {r \in Printing : arch[r].marker # "accepted"}
             Y == {r \in Printing : arch[r].marker = "accepted"}
  <2>1. sweep' = [sweep EXCEPT ![s] = [sweep[s] EXCEPT !.pc = "close", !.orphans = X, !.checkpoints = Y]]
    BY <1>16 DEF SweepRepair
  <2>2. UNCHANGED <<arch, live, report>>
    BY <1>16 DEF SweepRepair, device
  <2>3. \A r \in Y : arch[r].outcome \in Terminal /\ arch[r].status # "none"
    BY DEF Printing
  <2> HIDE DEF X, Y, SweepOK, Types, Known, Runs, NoRun, ArchRec, SweepRec, ArchOK, LiveOK, OtherOK, Terminal
  <2>4. (\A q \in Sweepers \ {s} : sweep'[q] = sweep[q]) /\ sweep'[s].checkpoints = Y /\ sweep'[s].pc = "close"
    <3>1. SweepOK
      BY DEF Types
    <3> QED BY <2>1, <3>1, RepairFields, ZenonT(40)
  <2> QED BY <2>2, <2>3, <2>4, KnownOfOneSweep
<1>17. ASSUME NEW s \in Sweepers, NEW r \in Runs, SweepRecover(s, r) PROVE Known'
  BY <1>17, SMTT(30), ZenonT(30) DEF SweepRecover, db, ram, net, actors, device, past
<1>18. ASSUME NEW s \in Sweepers, NEW r \in Runs, SweepClose(s, r) PROVE Known'
  <2>1. /\ UNCHANGED <<report, live>>
        /\ sweep' = [sweep EXCEPT ![s].pc = "gate", ![s].run = r, ![s].orphans = @ \ {r}]
    BY <1>18 DEF SweepClose, device
  <2>2. \A q \in Runs : /\ arch'[q].marker = arch[q].marker /\ arch'[q].outcome = arch[q].outcome
                        /\ arch[q].status # "none" => arch'[q].status # "none"
    <3>1. Verdict(s, r) # "leave" => Verdict(s, r) \in {"failed", "completed", "uncertain"}
      BY DEF Verdict
    <3> QED BY <1>18, <3>1 DEF SweepClose
  <2>3. \A q \in Sweepers : /\ sweep'[q].checkpoints = sweep[q].checkpoints
                            /\ sweep'[q].pc \in {"gate", "row"} => sweep'[q].run \in Runs
    BY <2>1
  <2>4. \A q \in Sweepers : \A x \in sweep[q].checkpoints :
            arch'[x].outcome \in Terminal /\ arch'[x].status # "none"
    BY <2>2
  <2> QED BY <2>1, <2>2, <2>3, <2>4
<1>19. ASSUME NEW s \in Sweepers, SweepGate(s) PROVE Known'
  BY <1>19 DEF SweepGate, db, ram, net, actors, device, past
<1>20. ASSUME NEW s \in Sweepers, SweepRow(s) PROVE Known'
  BY <1>20 DEF SweepRow, db, ram, net, actors, device, past
<1>21. ASSUME NEW s \in Sweepers, SweepEnd(s) PROVE Known'
  <2>1. sweep' = [sweep EXCEPT ![s] = NoSweep] /\ UNCHANGED <<arch, live, report>>
    BY <1>21 DEF SweepEnd, db, device
  <2>2. /\ \A q \in Sweepers \ {s} : sweep'[q] = sweep[q]
        /\ sweep'[s].checkpoints = {} /\ sweep'[s].pc = "none"
    BY <2>1 DEF NoSweep
  <2> HIDE DEF SweepOK, Types, Known, Runs, NoRun, ArchRec, SweepRec, ArchOK, LiveOK, OtherOK, Terminal
  <2> QED BY <2>1, <2>2, KnownOfOneSweep
<1>22. ASSUME NEW t \in Tasks, ResolveRead(t) PROVE Known'
  BY <1>22 DEF ResolveRead, db, ram, net, actors, device, past
<1>23. ASSUME NEW t \in Tasks, ResolveClaim(t) PROVE Known'
  <2>1. \A q \in Runs : arch'[q].marker = arch[q].marker /\ arch'[q].outcome = arch[q].outcome
                          /\ arch'[q].status = arch[q].status
    <3>1. arch' = arch \/ arch' = [arch EXCEPT ![task[t].run].claim = "attempted"]
      BY <1>23 DEF ResolveClaim
    <3> QED BY <3>1, ClaimKeeps
  <2>2. report' = report /\ sweep' = sweep /\ live' = live
    BY <1>23 DEF ResolveClaim, device
  <2>3. SweepOK /\ (live'.pc # "none" => live'.outcome \in Terminal)
    BY <2>2
  <2> HIDE DEF SweepOK, Types, Known, Runs, NoRun, ArchRec, SweepRec, ArchOK, LiveOK, OtherOK, Terminal
  <2> QED BY <2>1, <2>2, <2>3, KnownOfClaim
<1>24. ASSUME NEW t \in Tasks, ResolveSend(t) PROVE Known'
  BY <1>24 DEF ResolveSend, db, ram, net, actors, device, past
<1>25. ASSUME NEW t \in Tasks, NEW ok \in BOOLEAN, ResolveAnswer(t, ok) PROVE Known'
  BY <1>25 DEF ResolveAnswer, Finished, db, ram, net, actors, device, past
<1>26. ASSUME NEW t \in Tasks, ResolveError(t) PROVE Known'
  BY <1>26 DEF ResolveError, db, ram, net, actors, device, past
<1>27. ASSUME NEW t \in Tasks, ResolveSettle(t) PROVE Known'
  BY <1>27 DEF ResolveSettle, db, ram, net, actors, device, past
<1>28. ASSUME NEW t \in Tasks, ResolveHold(t) PROVE Known'
  BY <1>28 DEF ResolveHold, db, ram, net, actors, device, past
<1>29. ASSUME NEW r \in Runs, NEW action \in {"clear", "repeat"}, AnswerPlate(r, action) PROVE Known'
  BY <1>29 DEF AnswerPlate, db, ram, net, actors, device, past
<1>30. ASSUME Resume PROVE Known'
  BY <1>30 DEF Resume, db, ram, net, actors, device, past
<1>31. ASSUME Drop PROVE Known'
  BY <1>31 DEF Drop, NoReport, db, ram, net, actors, device, past
<1>32. ASSUME Connect PROVE Known'
  BY <1>32 DEF Connect, db, ram, net, actors, device, past
<1>33. ASSUME Crash PROVE Known'
  BY <1>33 DEF Crash, NoLive, NoSweep, NoReport, db, ram, net, actors, device, past
<1>34. ASSUME Restart PROVE Known'
  BY <1>34 DEF Restart, db, ram, net, actors, device, past
<1>35. CASE UNCHANGED vars
  BY <1>35 DEF vars, db, ram, net, actors, device, past
<1> HIDE DEF Types, ArchOK, ArchRec, LiveOK, LiveRec, SweepOK, SweepRec, OtherOK, Known, Terminal, Answered, NoRun, Runs
<1> QED
  BY <1>1, <1>2, <1>3, <1>4, <1>5, <1>6, <1>7, <1>8, <1>9, <1>10, <1>11, <1>12, <1>13, <1>14, <1>15, <1>16, <1>17, <1>18,
     <1>19, <1>20, <1>21, <1>22, <1>23, <1>24, <1>25, <1>26, <1>27, <1>28, <1>29, <1>30, <1>31, <1>32, <1>33, <1>34, <1>35
     DEF Next, Printer, Live, Operator, Sweep, Resolve

LEMMA OnceHolds == Types /\ Known /\ Once /\ [Next]_vars => Once'
<1> SUFFICES ASSUME Types, Known, Once, [Next]_vars PROVE Once'
  OBVIOUS
<1> USE BoundsAssumption DEF Types, ArchOK, ArchRec, LiveOK, LiveRec, SweepOK, SweepRec, OtherOK, Known, Once, Terminal, Answered, NoRun, Runs
<1>1. ASSUME NEW i \in Items, Start(i) PROVE Once'
  BY <1>1 DEF Start, NoArchive, db, ram, net, actors, device, past
<1>2. ASSUME NEW outcome \in Terminal, PrintEnds(outcome) PROVE Once'
  BY <1>2 DEF PrintEnds, NoReport, db, ram, net, actors, device, past
<1>3. ASSUME PrinterForgets PROVE Once'
  BY <1>3 DEF PrinterForgets, db, ram, net, actors, device, past
<1>4. ASSUME NEW r \in Runs, PrinterSwaps(r) PROVE Once'
  BY <1>4 DEF PrinterSwaps, db, ram, net, actors, device, past
<1>5. ASSUME Accept PROVE Once'
  BY <1>5 DEF Accept, db, ram, net, actors, device, past
<1>6. ASSUME LiveDecide PROVE Once'
  BY <1>6 DEF LiveDecide, db, ram, net, actors, device, past
<1>7. ASSUME LiveClaim PROVE Once'
  <2>1. \A q \in Runs : arch'[q].marker = arch[q].marker /\ arch'[q].status = arch[q].status
    <3>1. arch' = arch \/ arch' = [arch EXCEPT ![live.run].claim = "attempted"]
      BY <1>7 DEF LiveClaim
    <3> QED BY <3>1, ClaimKeeps
  <2>2. UNCHANGED accepted
    BY <1>7 DEF LiveClaim, past
  <2> QED BY <2>1, <2>2
<1>8. ASSUME LiveSend PROVE Once'
  BY <1>8 DEF LiveSend, db, ram, net, actors, device, past
<1>9. ASSUME NEW ok \in BOOLEAN, LiveAnswer(ok) PROVE Once'
  BY <1>9 DEF LiveAnswer, Finished, db, ram, net, actors, device, past
<1>10. ASSUME LiveError PROVE Once'
  BY <1>10 DEF LiveError, db, ram, net, actors, device, past
<1>11. ASSUME LiveHold PROVE Once'
  BY <1>11 DEF LiveHold, db, ram, net, actors, device, past
<1>12. ASSUME LiveGate PROVE Once'
  BY <1>12 DEF LiveGate, db, ram, net, actors, device, past
<1>13. ASSUME LiveFinalize PROVE Once'
  <2>1. UNCHANGED accepted
    BY <1>13 DEF LiveFinalize, past
  <2>2. live.outcome \in Terminal
    BY <1>13 DEF LiveFinalize
  <2>3. \A q \in Runs : arch'[q] = arch[q] \/ arch'[q].status = live.outcome
    BY <1>13 DEF LiveFinalize
  <2> QED BY <2>1, <2>2, <2>3
<1>14. ASSUME LiveTidy PROVE Once'
  BY <1>14 DEF LiveTidy, NoLive, db, ram, net, actors, device, past
<1>15. ASSUME NEW s \in Sweepers, SweepBegin(s) PROVE Once'
  BY <1>15 DEF SweepBegin, NoSweep, Printing, db, ram, net, actors, device, past
<1>16. ASSUME NEW s \in Sweepers, SweepRepair(s) PROVE Once'
  BY <1>16 DEF SweepRepair, Printing, db, ram, net, actors, device, past
<1>17. ASSUME NEW s \in Sweepers, NEW r \in Runs, SweepRecover(s, r) PROVE Once'
  BY <1>17 DEF SweepRecover, db, ram, net, actors, device, past
<1>18. ASSUME NEW s \in Sweepers, NEW r \in Runs, SweepClose(s, r) PROVE Once'
  BY <1>18 DEF SweepClose, Verdict, db, ram, net, actors, device, past
<1>19. ASSUME NEW s \in Sweepers, SweepGate(s) PROVE Once'
  BY <1>19 DEF SweepGate, db, ram, net, actors, device, past
<1>20. ASSUME NEW s \in Sweepers, SweepRow(s) PROVE Once'
  BY <1>20 DEF SweepRow, db, ram, net, actors, device, past
<1>21. ASSUME NEW s \in Sweepers, SweepEnd(s) PROVE Once'
  BY <1>21 DEF SweepEnd, NoSweep, db, ram, net, actors, device, past
<1>22. ASSUME NEW t \in Tasks, ResolveRead(t) PROVE Once'
  BY <1>22 DEF ResolveRead, db, ram, net, actors, device, past
<1>23. ASSUME NEW t \in Tasks, ResolveClaim(t) PROVE Once'
  <2>1. \A q \in Runs : arch'[q].marker = arch[q].marker /\ arch'[q].status = arch[q].status
    <3>1. arch' = arch \/ arch' = [arch EXCEPT ![task[t].run].claim = "attempted"]
      BY <1>23 DEF ResolveClaim
    <3> QED BY <3>1, ClaimKeeps
  <2>2. UNCHANGED accepted
    BY <1>23 DEF ResolveClaim, past
  <2> QED BY <2>1, <2>2
<1>24. ASSUME NEW t \in Tasks, ResolveSend(t) PROVE Once'
  BY <1>24 DEF ResolveSend, db, ram, net, actors, device, past
<1>25. ASSUME NEW t \in Tasks, NEW ok \in BOOLEAN, ResolveAnswer(t, ok) PROVE Once'
  BY <1>25 DEF ResolveAnswer, Finished, db, ram, net, actors, device, past
<1>26. ASSUME NEW t \in Tasks, ResolveError(t) PROVE Once'
  BY <1>26 DEF ResolveError, db, ram, net, actors, device, past
<1>27. ASSUME NEW t \in Tasks, ResolveSettle(t) PROVE Once'
  BY <1>27 DEF ResolveSettle, db, ram, net, actors, device, past
<1>28. ASSUME NEW t \in Tasks, ResolveHold(t) PROVE Once'
  BY <1>28 DEF ResolveHold, db, ram, net, actors, device, past
<1>29. ASSUME NEW r \in Runs, NEW action \in {"clear", "repeat"}, AnswerPlate(r, action) PROVE Once'
  BY <1>29 DEF AnswerPlate, db, ram, net, actors, device, past
<1>30. ASSUME Resume PROVE Once'
  BY <1>30 DEF Resume, db, ram, net, actors, device, past
<1>31. ASSUME Drop PROVE Once'
  BY <1>31 DEF Drop, NoReport, db, ram, net, actors, device, past
<1>32. ASSUME Connect PROVE Once'
  BY <1>32 DEF Connect, db, ram, net, actors, device, past
<1>33. ASSUME Crash PROVE Once'
  BY <1>33 DEF Crash, NoLive, NoSweep, NoReport, db, ram, net, actors, device, past
<1>34. ASSUME Restart PROVE Once'
  BY <1>34 DEF Restart, db, ram, net, actors, device, past
<1>35. CASE UNCHANGED vars
  BY <1>35 DEF vars, db, ram, net, actors, device, past
<1> HIDE DEF Types, ArchOK, ArchRec, LiveOK, LiveRec, SweepOK, SweepRec, OtherOK, Known, Once, Terminal, Answered, NoRun, Runs
<1> QED
  BY <1>1, <1>2, <1>3, <1>4, <1>5, <1>6, <1>7, <1>8, <1>9, <1>10, <1>11, <1>12, <1>13, <1>14, <1>15, <1>16, <1>17, <1>18,
     <1>19, <1>20, <1>21, <1>22, <1>23, <1>24, <1>25, <1>26, <1>27, <1>28, <1>29, <1>30, <1>31, <1>32, <1>33, <1>34, <1>35
     DEF Next, Printer, Live, Operator, Sweep, Resolve

LEMMA OnceInvHolds == Spec => []OnceInv
<1>1. Init => OnceInv
  <2> SUFFICES ASSUME Init PROVE OnceInv
    OBVIOUS
  <2>1. ArchOK /\ Once /\ \A r \in Runs : arch[r].marker # "accepted"
    BY DEF Init, ArchOK, ArchRec, Once, NoArchive
  <2>2. LiveOK /\ live.pc = "none"
    BY DEF Init, LiveOK, LiveRec, NoLive
  <2>3. SweepOK /\ \A s \in Sweepers : sweep[s].pc = "none" /\ sweep[s].checkpoints = {}
    BY DEF Init, SweepOK, SweepRec, NoSweep
  <2>4. OtherOK /\ report.run = NoRun
    BY DEF Init, OtherOK, NoReport
  <2> QED BY <2>1, <2>2, <2>3, <2>4 DEF OnceInv, Types, Known
<1>2. OnceInv /\ [Next]_vars => OnceInv'
  BY ArchHolds, LiveHolds, SweepHolds, OtherHolds, KnownHolds, OnceHolds DEF OnceInv, Types
<1> QED BY <1>1, <1>2, PTL DEF Spec

(* The effects of a terminal report -- notifications, usage, statistics --  *)
(* run at most once per print, whatever reports are repeated, whatever      *)
(* crashes, and whoever else closes the run meanwhile.                      *)
THEOREM EffectsOnce == Spec => []EffectsRunOnce
<1>1. OnceInv => EffectsRunOnce
  BY DEF OnceInv, Once, EffectsRunOnce
<1> QED BY <1>1, OnceInvHolds, PTL

(***************************************************************************)
(* The server never calls a print completed that did not complete, and its  *)
(* table swaps implement TableSwap: one command at most, after a print that *)
(* ended well, with its intent written down first.                          *)
(***************************************************************************)

TaskRec ==
    [pc : {"none", "read", "claim", "send", "sent", "hold", "settle"}, run : Runs \cup {NoRun},
     row : Items \cup {NoItem}, claimed : BOOLEAN, swapped : BOOLEAN]

SwapTypes ==
    /\ task \in [Tasks -> TaskRec]
    /\ ended \in [Runs -> {"none"} \cup Terminal]
    /\ commands \in [Runs -> Nat]

(* Whatever is said of a run's outcome anywhere is what the printer did. *)
ArchTruth ==
    \A r \in Runs :
        /\ arch[r].status = "completed" => ended[r] = "completed"
        /\ arch[r].status = "none" => ended[r] = "none"
        /\ arch[r].marker = "accepted" => ended[r] = arch[r].outcome

ReportTruth == report.run \in Runs => ended[report.run] = report.outcome

LiveTruth == live.pc # "none" => live.run \in Runs /\ ended[live.run] = live.outcome

SweepTruth ==
    \A s \in Sweepers :
        /\ \A r \in sweep[s].checkpoints : ended[r] = arch[r].outcome
        /\ sweep[s].state \in {"finished", "idle"} /\ sweep[s].file \in Runs
              => ended[sweep[s].file] = "completed"

DevTruth ==
    /\ dev.state = "printing" => dev.run \in Runs /\ ended[dev.run] = "none" /\ arch[dev.run].status # "none"
    /\ dev.state = "finished" => dev.run \in Runs /\ ended[dev.run] = "completed"
    /\ dev.state = "idle" => dev.run \notin Runs

Truth == ArchTruth /\ ReportTruth /\ LiveTruth /\ SweepTruth /\ DevTruth

(* A claim is taken for a completed print only, and each claim taken by this *)
(* process belongs to one of its tasks until it is answered.                *)
Unsent == {"none", "owed"}
Owned(r) == arch[r].claim = "attempted" /\ r \in sending

ClaimTruth ==
    \A r \in Runs :
        /\ arch[r].claim \in Unsent => commands[r] = 0
        /\ arch[r].claim \notin Unsent => ended[r] = "completed"

LiveOwns ==
    /\ live.pc = "claim" => live.outcome = "completed"
    /\ live.pc \in {"send", "sent"} => Owned(live.run)
    /\ live.pc = "send" => commands[live.run] = 0

TaskOwns ==
    \A t \in Tasks :
        /\ task[t].pc # "none" => task[t].run \in Runs
        /\ task[t].pc = "claim" => ended[task[t].run] = "completed"
        /\ task[t].pc \in {"send", "sent"} => task[t].claimed /\ Owned(task[t].run)
        /\ task[t].pc = "send" => commands[task[t].run] = 0
        /\ task[t].claimed => task[t].run \in Runs /\ arch[task[t].run].claim \notin Unsent

OneOwner ==
    /\ \A t \in Tasks : live.pc \in {"send", "sent"} /\ task[t].claimed => task[t].run # live.run
    /\ \A t, u \in Tasks : t # u /\ task[t].claimed /\ task[u].claimed => task[t].run # task[u].run

SwapOwners == ClaimTruth /\ LiveOwns /\ TaskOwns /\ OneOwner

SwapInv == SwapTypes /\ Truth /\ SwapOwners

(* Only the claims of swaps move: what is said of a run's outcome stays. *)
Kept == \A q \in Runs : /\ arch'[q].status = arch[q].status /\ arch'[q].marker = arch[q].marker
                        /\ arch'[q].outcome = arch[q].outcome

LEMMA LiveClaimKeeps == ASSUME ArchOK, LiveClaim PROVE Kept
<1>1. arch' = arch \/ arch' = [arch EXCEPT ![live.run].claim = "attempted"]
  BY DEF LiveClaim
<1> QED BY <1>1, ClaimKeeps DEF Kept

LEMMA ResolveClaimKeeps == ASSUME ArchOK, NEW t \in Tasks, ResolveClaim(t) PROVE Kept
<1>1. arch' = arch \/ arch' = [arch EXCEPT ![task[t].run].claim = "attempted"]
  BY DEF ResolveClaim
<1> QED BY <1>1, ClaimKeeps DEF Kept

(* The completion writes its outcome into its own run and nowhere else. *)
LEMMA FinalizeWrites ==
    ASSUME ArchOK, LiveOK, Known, LiveFinalize
    PROVE  /\ live.outcome \in Terminal
           /\ \A q \in Runs : \/ arch'[q] = arch[q]
                              \/ /\ q = live.run /\ arch'[q].status = live.outcome /\ arch[q].status = "printing"
                                 /\ arch'[q].marker = "db_finalized" /\ arch'[q].outcome = arch[q].outcome
                                 /\ arch'[q].claim = arch[q].claim
<1>1. live.outcome \in Terminal
  BY DEF LiveFinalize, Known
<1>2. arch' = arch \/ (arch[live.run].status = "printing"
                        /\ arch' = [arch EXCEPT ![live.run].status = live.outcome, ![live.run].marker = "db_finalized"])
  BY DEF LiveFinalize
<1> QED BY <1>1, <1>2 DEF ArchOK, ArchRec

(* A sweep closes a run it was told about with what the printer said of it. *)
LEMMA CloseWrites ==
    ASSUME ArchOK, SweepOK, SweepTruth, NEW s \in Sweepers, NEW r \in Runs, SweepClose(s, r)
    PROVE  /\ \A q \in Runs \ {r} : arch'[q] = arch[q]
           /\ arch'[r].marker = arch[r].marker /\ arch'[r].outcome = arch[r].outcome
           /\ arch'[r].status \in Terminal /\ arch[r].status = "printing"
           /\ arch'[r].status = "completed" => ended[r] = "completed"
           /\ arch'[r].claim = arch[r].claim \/ (arch[r].claim = "none" /\ arch'[r].claim = "owed")
<1> DEFINE verdict == Verdict(s, r)
           status == IF verdict = "uncertain" THEN "cancelled" ELSE verdict
           doubt == IF verdict = "uncertain" THEN "outcome" ELSE arch[r].uncertain
           claim == IF status = "completed" /\ arch[r].owes /\ arch[r].marker = "none" /\ arch[r].claim = "none"
                    THEN "owed" ELSE arch[r].claim
<1>1. arch' = [arch EXCEPT ![r] = [arch[r] EXCEPT !.status = status, !.uncertain = doubt, !.claim = claim]]
  BY DEF SweepClose
<1>2. status \in Terminal
  BY SweepStateKnown DEF SweepClose, Verdict, Terminal
<1>3. status = "completed" => ended[r] = "completed"
  <2>1. Verdict(s, r) = "completed" => sweep[s].file = r /\ sweep[s].state \in {"finished", "idle"}
    BY SweepStateKnown DEF Verdict
  <2> QED BY <2>1 DEF SweepTruth
<1>4. claim = arch[r].claim \/ (arch[r].claim = "none" /\ claim = "owed")
  OBVIOUS
<1>5. arch[r].status = "printing"
  BY DEF SweepClose
<1>6. arch[r] \in ArchRec
  BY DEF ArchOK
<1> HIDE DEF status, doubt, claim
<1>7. /\ arch'[r] = [arch[r] EXCEPT !.status = status, !.uncertain = doubt, !.claim = claim]
      /\ \A q \in Runs \ {r} : arch'[q] = arch[q]
  BY <1>1 DEF ArchOK
<1>8. arch'[r].status = status /\ arch'[r].claim = claim /\ arch'[r].marker = arch[r].marker /\ arch'[r].outcome = arch[r].outcome
  BY <1>6, <1>7 DEF ArchRec
<1> QED BY <1>2, <1>3, <1>4, <1>5, <1>7, <1>8

LEMMA TaskUpdate ==
    ASSUME task \in [Tasks -> TaskRec], NEW t \in Tasks, NEW a \in TaskRec, task' = [task EXCEPT ![t] = a]
    PROVE  /\ task' \in [Tasks -> TaskRec]
           /\ task'[t] = a /\ \A u \in Tasks \ {t} : task'[u] = task[u]
  OBVIOUS

LEMMA NoTaskOK == NoTask \in TaskRec /\ NoTask.pc = "none" /\ NoTask.claimed = FALSE /\ NoTask.run = NoRun
  BY DEF NoTask, TaskRec

LEMMA CommandUpdate ==
    ASSUME commands \in [Runs -> Nat], NEW r, commands' = [commands EXCEPT ![r] = @ + 1]
    PROVE  commands' \in [Runs -> Nat]
<1>1. \A q \in Runs : commands'[q] = commands[q] \/ commands'[q] = commands[q] + 1
  OBVIOUS
<1>2. \A q \in Runs : commands'[q] \in Nat
  BY <1>1
<1> QED BY <1>2

(* What a resolution reads: a command only for a run the server calls completed. *)
LEMMA ReadWrites ==
    ASSUME SwapTypes, NEW t \in Tasks, ResolveRead(t)
    PROVE  /\ task' \in [Tasks -> TaskRec]
           /\ \A u \in Tasks \ {t} : task'[u] = task[u]
           /\ task[t].pc = "read" /\ task'[t].claimed = FALSE
           /\ task'[t].pc # "none" => /\ task'[t].run = task[t].run /\ task'[t].pc \in {"claim", "hold", "settle"}
                                      /\ task'[t].pc = "claim" => arch[task[t].run].status = "completed"
<1> DEFINE r == task[t].run
           rows == RowOf(r, "completed")
           i == IF rows = {} THEN NoItem ELSE CHOOSE j \in rows : TRUE
           done == arch[r].status # "completed" \/ r \in sending \/ (~arch[r].owes /\ arch[r].claim \notin Answered)
           next == IF done
                   THEN "none"
                   ELSE IF ~arch[r].owes THEN "settle"
                   ELSE IF \/ arch[r].uncertain # "no" \/ ~NothingSent(r)
                           \/ Holds(TRUE, i # NoItem /\ ~AnotherRunActive(r), r)
                   THEN "hold"
                   ELSE "claim"
           b == next = "settle" /\ arch[r].claim = "finished"
           a == IF next = "none" THEN NoTask
                ELSE [pc |-> next, run |-> r, row |-> i, claimed |-> FALSE, swapped |-> b]
<1>1. task' = [task EXCEPT ![t] = a] /\ task[t].pc = "read"
  BY DEF ResolveRead
<1>2. next \in {"none", "settle", "hold", "claim"}
  OBVIOUS
<1>3. next # "none" => arch[r].status = "completed"
  OBVIOUS
<1>4. i \in Items \cup {NoItem}
  <2>1. rows \subseteq Items
    BY DEF RowOf
  <2>2. CASE rows = {}
    BY <2>2
  <2>3. CASE rows # {}
    <3>1. (CHOOSE j \in rows : TRUE) \in rows
      BY <2>3
    <3> QED BY <2>1, <2>3, <3>1
  <2> QED BY <2>2, <2>3
<1>5. r \in Runs \cup {NoRun}
  BY DEF SwapTypes, TaskRec
<1> HIDE DEF next, i, r
<1>6. CASE next = "none"
  <2>1. a = NoTask
    BY <1>6
  <2>2. task \in [Tasks -> TaskRec]
    BY DEF SwapTypes
  <2> HIDE DEF a
  <2> QED BY <1>1, <2>1, <2>2, NoTaskOK, TaskUpdate
<1>7. CASE next # "none"
  <2>1. a = [pc |-> next, run |-> r, row |-> i, claimed |-> FALSE, swapped |-> b]
    BY <1>7
  <2> b \in BOOLEAN
    OBVIOUS
  <2> HIDE DEF b
  <2>2. a \in TaskRec /\ a.claimed = FALSE /\ a.run = r /\ a.pc = next
    <3> next \in {"none", "read", "claim", "send", "sent", "hold", "settle"}
      BY <1>2
    <3> HIDE DEF a
    <3> QED BY <2>1, <1>4, <1>5 DEF TaskRec
  <2>3. task \in [Tasks -> TaskRec]
    BY DEF SwapTypes
  <2> HIDE DEF a
  <2> QED BY <1>1, <1>2, <1>3, <1>7, <2>2, <2>3, TaskUpdate DEF r
<1> QED BY <1>6, <1>7

(* A sweep hands its runs to resolutions that had none. *)
Handed(s) == sweep[s].closed \cup Stranded(s)

LEMMA EndWrites ==
    ASSUME SwapTypes, SweepOK, NEW s \in Sweepers, SweepEnd(s)
    PROVE  /\ task' \in [Tasks -> TaskRec]
           /\ \A t \in Tasks : \/ task'[t] = task[t]
                               \/ (task'[t].pc = "read" /\ task'[t].run \in Handed(s) /\ task'[t].claimed = FALSE)
           /\ Handed(s) \subseteq Runs
<1> DEFINE open == {r \in sweep[s].closed \cup Stranded(s) : arch[r].owes \/ arch[r].claim \in Answered}
           idle == {t \in Tasks : task[t].pc = "none"}
           new(given, t) == CHOOSE r \in open : given[r] = t
<1>1. PICK given \in [open -> idle] :
          task' = [t \in Tasks |-> IF \E r \in open : given[r] = t
                                   THEN [NoTask EXCEPT !.pc = "read", !.run = new(given, t)]
                                   ELSE task[t]]
  BY DEF SweepEnd
<1>2. open \subseteq Handed(s) /\ Handed(s) \subseteq Runs
  BY DEF Handed, Stranded, SweepOK, SweepRec
<1> HIDE DEF open, idle
<1>3. \A t \in Tasks : (\E r \in open : given[r] = t) => new(given, t) \in open
  OBVIOUS
<1> HIDE DEF new
<1>4. \A r \in Runs : LET a == [NoTask EXCEPT !.pc = "read", !.run = r]
                      IN a \in TaskRec /\ a.pc = "read" /\ a.run = r /\ a.claimed = FALSE
  BY DEF NoTask, TaskRec
<1>5. ASSUME NEW t \in Tasks
      PROVE  /\ task'[t] \in TaskRec
             /\ \/ task'[t] = task[t]
                \/ (task'[t].pc = "read" /\ task'[t].run \in Handed(s) /\ task'[t].claimed = FALSE)
  <2>1. CASE \E r \in open : given[r] = t
    <3>1. task'[t] = [NoTask EXCEPT !.pc = "read", !.run = new(given, t)]
      BY <1>1, <2>1
    <3>2. new(given, t) \in Handed(s) /\ new(given, t) \in Runs
      BY <1>2, <1>3, <2>1
    <3> QED BY <1>4, <3>1, <3>2, SMTT(30), ZenonT(30)
  <2>2. CASE ~\E r \in open : given[r] = t
    <3>1. task'[t] = task[t]
      BY <1>1, <2>2
    <3> QED BY <3>1 DEF SwapTypes
  <2> QED BY <2>1, <2>2
<1>6. task' \in [Tasks -> TaskRec]
  BY <1>1, <1>5
<1> QED BY <1>2, <1>5, <1>6

(* Taking a claim: of nobody, or not at all. *)
LEMMA LiveClaimWrites ==
    ASSUME ArchOK, LiveOK, LiveTruth, LiveClaim
    PROVE  /\ live.pc = "claim" /\ live'.run = live.run /\ live'.outcome = live.outcome /\ live.run \in Runs
           /\ \/ UNCHANGED <<arch, sending>> /\ live'.pc \in {"gate", "hold"}
              \/ /\ arch[live.run].claim \in Unsent /\ arch'[live.run].claim = "attempted"
                 /\ \A q \in Runs \ {live.run} : arch'[q] = arch[q]
                 /\ sending' = sending \cup {live.run} /\ live'.pc = "send"
<1>1. live.pc = "claim" /\ live.run \in Runs
  BY DEF LiveClaim, LiveTruth
<1>2. live'.run = live.run /\ live'.outcome = live.outcome
  BY DEF LiveClaim, LiveOK, LiveRec
<1>3. \/ UNCHANGED <<arch, sending>> /\ live'.pc \in {"gate", "hold"}
      \/ /\ ClaimIsFree(live.run, TRUE) /\ arch' = [arch EXCEPT ![live.run].claim = "attempted"]
         /\ sending' = sending \cup {live.run} /\ live'.pc = "send"
  <2> DEFINE claimed == ClaimIsFree(live.run, TRUE) /\ HoldsItsPrinter(live.run, "printing")
  <2>1. CASE OwnsEffect(live.run) /\ claimed
    BY <2>1 DEF LiveClaim, LiveOK, LiveRec
  <2>2. CASE ~(OwnsEffect(live.run) /\ claimed)
    BY <2>2 DEF LiveClaim, LiveOK, LiveRec
  <2> QED BY <2>1, <2>2
<1>4. ClaimIsFree(live.run, TRUE) => arch[live.run].claim \in Unsent
  BY DEF ClaimIsFree, NothingSent, Unsent
<1>5. arch' = [arch EXCEPT ![live.run].claim = "attempted"]
        => arch'[live.run].claim = "attempted" /\ \A q \in Runs \ {live.run} : arch'[q] = arch[q]
  BY <1>1 DEF ArchOK, ArchRec
<1> QED BY <1>1, <1>2, <1>3, <1>4, <1>5

LEMMA ResolveClaimWrites ==
    ASSUME ArchOK, SwapTypes, TaskOwns, NEW t \in Tasks, ResolveClaim(t)
    PROVE  /\ task' \in [Tasks -> TaskRec]
           /\ \A u \in Tasks \ {t} : task'[u] = task[u]
           /\ task[t].pc = "claim" /\ task[t].run \in Runs
           /\ \/ /\ UNCHANGED <<arch, sending>>
                 /\ task'[t] = NoTask \/ (task'[t].pc = "hold" /\ task'[t].run = task[t].run /\ task'[t].claimed = task[t].claimed)
              \/ /\ arch[task[t].run].claim \in Unsent /\ arch'[task[t].run].claim = "attempted"
                 /\ \A q \in Runs \ {task[t].run} : arch'[q] = arch[q]
                 /\ sending' = sending \cup {task[t].run}
                 /\ task'[t].pc = "send" /\ task'[t].run = task[t].run /\ task'[t].claimed = TRUE
<1> DEFINE r == task[t].run
           takes == ClaimIsFree(r, FALSE) /\ HoldsItsPrinter(r, "completed")
<1>1. task[t].pc = "claim" /\ r \in Runs /\ task \in [Tasks -> TaskRec] /\ task[t] \in TaskRec
  BY DEF ResolveClaim, TaskOwns, SwapTypes
<1>2. CASE takes
  <2>1. /\ arch' = [arch EXCEPT ![r].claim = "attempted"] /\ sending' = sending \cup {r}
        /\ task' = [task EXCEPT ![t] = [task[t] EXCEPT !.pc = "send", !.claimed = TRUE]]
        /\ arch[r].claim \in Unsent
    BY <1>2 DEF ResolveClaim, ClaimIsFree, NothingSent, Unsent
  <2>2. arch'[r].claim = "attempted" /\ \A q \in Runs \ {r} : arch'[q] = arch[q]
    BY <1>1, <2>1 DEF ArchOK, ArchRec
  <2> DEFINE a == [task[t] EXCEPT !.pc = "send", !.claimed = TRUE]
  <2>3. a \in TaskRec /\ a.pc = "send" /\ a.run = task[t].run /\ a.claimed = TRUE
    BY <1>1 DEF TaskRec
  <2>4. task' = [task EXCEPT ![t] = a]
    BY <2>1
  <2> HIDE DEF a, takes
  <2>5. task' \in [Tasks -> TaskRec] /\ task'[t] = a /\ \A u \in Tasks \ {t} : task'[u] = task[u]
    BY <1>1, <2>3, <2>4, TaskUpdate
  <2> QED BY <1>1, <2>1, <2>2, <2>3, <2>5
<1>3. CASE ~takes
  <2>1. /\ UNCHANGED <<arch, sending>>
        /\ task' = [task EXCEPT ![t] = NoTask] \/ task' = [task EXCEPT ![t] = [task[t] EXCEPT !.pc = "hold"]]
    BY <1>3 DEF ResolveClaim, SetTask
  <2> DEFINE a == [task[t] EXCEPT !.pc = "hold"]
  <2>2. a \in TaskRec /\ a.pc = "hold" /\ a.run = task[t].run /\ a.claimed = task[t].claimed
    BY <1>1 DEF TaskRec
  <2>3. task' = [task EXCEPT ![t] = NoTask] \/ task' = [task EXCEPT ![t] = a]
    BY <2>1
  <2> HIDE DEF a, takes
  <2>4. CASE task' = [task EXCEPT ![t] = NoTask]
    <3>1. task' \in [Tasks -> TaskRec] /\ task'[t] = NoTask /\ \A u \in Tasks \ {t} : task'[u] = task[u]
      BY <1>1, <2>4, NoTaskOK, TaskUpdate
    <3> QED BY <1>1, <2>1, <3>1
  <2>5. CASE task' = [task EXCEPT ![t] = a]
    <3>1. task' \in [Tasks -> TaskRec] /\ task'[t] = a /\ \A u \in Tasks \ {t} : task'[u] = task[u]
      BY <1>1, <2>2, <2>5, TaskUpdate
    <3> QED BY <1>1, <2>1, <2>2, <3>1
  <2> QED BY <2>3, <2>4, <2>5
<1> QED BY <1>2, <1>3

LEMMA SwapTypesHold == OnceInv /\ SwapTypes /\ TaskOwns /\ [Next]_vars => SwapTypes'
<1> SUFFICES ASSUME OnceInv, SwapTypes, TaskOwns, [Next]_vars PROVE SwapTypes'
  OBVIOUS
<1> USE BoundsAssumption DEF OnceInv, Known, SwapTypes, TaskRec, TaskOwns, Types, ArchOK, ArchRec,
    LiveOK, LiveRec, SweepOK, SweepRec, OtherOK, Terminal, Answered, NoRun, Runs
<1>1. ASSUME NEW i \in Items, Start(i) PROVE SwapTypes'
  BY <1>1 DEF Start, NoArchive, db, ram, net, actors, device, past
<1>2. ASSUME NEW outcome \in Terminal, PrintEnds(outcome) PROVE SwapTypes'
  BY <1>2 DEF PrintEnds, NoReport, db, ram, net, actors, device, past
<1>3. ASSUME PrinterForgets PROVE SwapTypes'
  BY <1>3 DEF PrinterForgets, db, ram, net, actors, device, past
<1>4. ASSUME NEW r \in Runs, PrinterSwaps(r) PROVE SwapTypes'
  BY <1>4 DEF PrinterSwaps, db, ram, net, actors, device, past
<1>5. ASSUME Accept PROVE SwapTypes'
  BY <1>5 DEF Accept, db, ram, net, actors, device, past
<1>6. ASSUME LiveDecide PROVE SwapTypes'
  BY <1>6 DEF LiveDecide, db, ram, net, actors, device, past
<1>7. ASSUME LiveClaim PROVE SwapTypes'
  BY <1>7 DEF LiveClaim, ClaimIsFree, NothingSent, db, ram, net, actors, device, past
<1>8. ASSUME LiveSend PROVE SwapTypes'
  <2>1. commands \in [Runs -> Nat] /\ commands' = [commands EXCEPT ![live.run] = @ + 1] /\ UNCHANGED <<task, ended>>
    BY <1>8 DEF LiveSend, actors, past
  <2> HIDE DEF Runs, TaskRec, TaskOwns, Known, OnceInv, Types, ArchOK, ArchRec, LiveOK, LiveRec,
      SweepOK, SweepRec, OtherOK, Terminal, Answered, NoRun
  <2>2. commands' \in [Runs -> Nat]
    BY <2>1, CommandUpdate
  <2> QED BY <2>1, <2>2
<1>9. ASSUME NEW ok \in BOOLEAN, LiveAnswer(ok) PROVE SwapTypes'
  BY <1>9 DEF LiveAnswer, Finished, db, ram, net, actors, device, past
<1>10. ASSUME LiveError PROVE SwapTypes'
  BY <1>10 DEF LiveError, db, ram, net, actors, device, past
<1>11. ASSUME LiveHold PROVE SwapTypes'
  BY <1>11 DEF LiveHold, db, ram, net, actors, device, past
<1>12. ASSUME LiveGate PROVE SwapTypes'
  BY <1>12 DEF LiveGate, db, ram, net, actors, device, past
<1>13. ASSUME LiveFinalize PROVE SwapTypes'
  BY <1>13 DEF LiveFinalize, NoLive, db, ram, net, actors, device, past
<1>14. ASSUME LiveTidy PROVE SwapTypes'
  BY <1>14 DEF LiveTidy, NoLive, db, ram, net, actors, device, past
<1>15. ASSUME NEW s \in Sweepers, SweepBegin(s) PROVE SwapTypes'
  BY <1>15 DEF SweepBegin, NoSweep, Printing, db, ram, net, actors, device, past
<1>16. ASSUME NEW s \in Sweepers, SweepRepair(s) PROVE SwapTypes'
  BY <1>16 DEF SweepRepair, Printing, db, ram, net, actors, device, past
<1>17. ASSUME NEW s \in Sweepers, NEW r \in Runs, SweepRecover(s, r) PROVE SwapTypes'
  BY <1>17 DEF SweepRecover, db, ram, net, actors, device, past
<1>18. ASSUME NEW s \in Sweepers, NEW r \in Runs, SweepClose(s, r) PROVE SwapTypes'
  BY <1>18 DEF SweepClose, Verdict, db, ram, net, actors, device, past
<1>19. ASSUME NEW s \in Sweepers, SweepGate(s) PROVE SwapTypes'
  BY <1>19 DEF SweepGate, db, ram, net, actors, device, past
<1>20. ASSUME NEW s \in Sweepers, SweepRow(s) PROVE SwapTypes'
  BY <1>20 DEF SweepRow, db, ram, net, actors, device, past
<1>21. ASSUME NEW s \in Sweepers, SweepEnd(s) PROVE SwapTypes'
  <2>1. UNCHANGED <<ended, commands>>
    BY <1>21 DEF SweepEnd, past
  <2>2. SweepOK /\ SwapTypes
    OBVIOUS
  <2> HIDE DEF SwapTypes, TaskRec, TaskOwns, Known, OnceInv, Types, ArchOK, ArchRec, LiveOK,
      LiveRec, SweepOK, SweepRec, OtherOK, Terminal, Answered, NoRun, Runs
  <2>3. task' \in [Tasks -> TaskRec]
    BY <1>21, <2>2, EndWrites
  <2> QED BY <2>1, <2>2, <2>3 DEF SwapTypes
<1>22. ASSUME NEW t \in Tasks, ResolveRead(t) PROVE SwapTypes'
  <2>1. UNCHANGED <<ended, commands>>
    BY <1>22 DEF ResolveRead, past
  <2> HIDE DEF SwapTypes, TaskRec, TaskOwns, Known, OnceInv, Types, ArchOK, ArchRec, LiveOK,
      LiveRec, SweepOK, SweepRec, OtherOK, Terminal, Answered, NoRun, Runs
  <2>3. task' \in [Tasks -> TaskRec]
    BY <1>22, ReadWrites
  <2> QED BY <2>1, <2>3 DEF SwapTypes
<1>23. ASSUME NEW t \in Tasks, ResolveClaim(t) PROVE SwapTypes'
  <2>1. UNCHANGED <<ended, commands>>
    BY <1>23 DEF ResolveClaim, past
  <2>2. ArchOK /\ TaskOwns
    OBVIOUS
  <2> HIDE DEF SwapTypes, TaskRec, TaskOwns, Known, OnceInv, Types, ArchOK, ArchRec, LiveOK,
      LiveRec, SweepOK, SweepRec, OtherOK, Terminal, Answered, NoRun, Runs
  <2>3. task' \in [Tasks -> TaskRec]
    BY <1>23, <2>2, ResolveClaimWrites
  <2> QED BY <2>1, <2>3 DEF SwapTypes
<1>24. ASSUME NEW t \in Tasks, ResolveSend(t) PROVE SwapTypes'
  <2>1. /\ task' = [task EXCEPT ![t] = [task[t] EXCEPT !.pc = "sent"]] /\ UNCHANGED ended
        /\ commands' = [commands EXCEPT ![task[t].run] = @ + 1]
    BY <1>24 DEF ResolveSend, SetTask
  <2>2. task \in [Tasks -> TaskRec] /\ task[t] \in TaskRec /\ commands \in [Runs -> Nat]
    OBVIOUS
  <2> HIDE DEF TaskRec, TaskOwns, Known, OnceInv, Types, ArchOK, ArchRec, LiveOK, LiveRec, SweepOK,
      SweepRec, OtherOK, Terminal, Answered, NoRun, Runs
  <2> DEFINE a == [task[t] EXCEPT !.pc = "sent"]
  <2>5. a \in TaskRec
    BY <2>2 DEF TaskRec
  <2>6. task' = [task EXCEPT ![t] = a]
    BY <2>1
  <2> HIDE DEF a
  <2>3. task' \in [Tasks -> TaskRec]
    BY <2>2, <2>5, <2>6, TaskUpdate
  <2>4. commands' \in [Runs -> Nat]
    BY <2>1, <2>2, CommandUpdate
  <2> QED BY <2>1, <2>3, <2>4
<1>25. ASSUME NEW t \in Tasks, NEW ok \in BOOLEAN, ResolveAnswer(t, ok) PROVE SwapTypes'
  <2>1. /\ task' = [task EXCEPT ![t] = [task[t] EXCEPT !.pc = "settle", !.swapped = ok]]
        /\ UNCHANGED <<ended, commands>>
    BY <1>25, SMTT(30), ZenonT(30) DEF ResolveAnswer, past
  <2>2. task \in [Tasks -> TaskRec] /\ task[t] \in TaskRec
    OBVIOUS
  <2> HIDE DEF TaskRec, TaskOwns, Known, OnceInv, Types, ArchOK, ArchRec, LiveOK, LiveRec, SweepOK,
      SweepRec, OtherOK, Terminal, Answered, NoRun, Runs
  <2> DEFINE a == [task[t] EXCEPT !.pc = "settle", !.swapped = ok]
  <2>5. a \in TaskRec
    BY <1>25, <2>2 DEF TaskRec
  <2>6. task' = [task EXCEPT ![t] = a]
    BY <2>1
  <2> HIDE DEF a
  <2>3. task' \in [Tasks -> TaskRec]
    BY <2>2, <2>5, <2>6, TaskUpdate
  <2> QED BY <2>1, <2>3
<1>26. ASSUME NEW t \in Tasks, ResolveError(t) PROVE SwapTypes'
  <2>1. task' = [task EXCEPT ![t] = [task[t] EXCEPT !.pc = "hold"]] /\ UNCHANGED <<ended, commands>>
    BY <1>26 DEF ResolveError, SetTask, past
  <2>2. task \in [Tasks -> TaskRec] /\ task[t] \in TaskRec
    OBVIOUS
  <2> HIDE DEF TaskRec, TaskOwns, Known, OnceInv, Types, ArchOK, ArchRec, LiveOK, LiveRec, SweepOK,
      SweepRec, OtherOK, Terminal, Answered, NoRun, Runs
  <2> DEFINE a == [task[t] EXCEPT !.pc = "hold"]
  <2>5. a \in TaskRec
    BY <2>2 DEF TaskRec
  <2>6. task' = [task EXCEPT ![t] = a]
    BY <2>1
  <2> HIDE DEF a
  <2>3. task' \in [Tasks -> TaskRec]
    BY <2>2, <2>5, <2>6, TaskUpdate
  <2> QED BY <2>1, <2>3
<1>27. ASSUME NEW t \in Tasks, ResolveSettle(t) PROVE SwapTypes'
  BY <1>27 DEF ResolveSettle, Settle, NoTask, db, ram, net, actors, device, past
<1>28. ASSUME NEW t \in Tasks, ResolveHold(t) PROVE SwapTypes'
  BY <1>28 DEF ResolveHold, Settle, NoTask, db, ram, net, actors, device, past
<1>29. ASSUME NEW r \in Runs, NEW action \in {"clear", "repeat"}, AnswerPlate(r, action) PROVE SwapTypes'
  BY <1>29 DEF AnswerPlate, db, ram, net, actors, device, past
<1>30. ASSUME Resume PROVE SwapTypes'
  BY <1>30 DEF Resume, db, ram, net, actors, device, past
<1>31. ASSUME Drop PROVE SwapTypes'
  BY <1>31 DEF Drop, NoReport, db, ram, net, actors, device, past
<1>32. ASSUME Connect PROVE SwapTypes'
  BY <1>32 DEF Connect, db, ram, net, actors, device, past
<1>33. ASSUME Crash PROVE SwapTypes'
  BY <1>33 DEF Crash, NoLive, NoSweep, NoReport, NoTask, db, ram, net, actors, device, past
<1>34. ASSUME Restart PROVE SwapTypes'
  BY <1>34 DEF Restart, db, ram, net, actors, device, past
<1>35. CASE UNCHANGED vars
  BY <1>35 DEF vars, db, ram, net, actors, device, past
<1> HIDE DEF OnceInv, Known, SwapTypes, TaskRec, TaskOwns, Types, ArchOK, ArchRec, LiveOK, LiveRec,
    SweepOK, SweepRec, OtherOK, Terminal, Answered, NoRun, Runs
<1> QED
  BY <1>1, <1>2, <1>3, <1>4, <1>5, <1>6, <1>7, <1>8, <1>9, <1>10, <1>11, <1>12, <1>13, <1>14, <1>15,
      <1>16, <1>17, <1>18,
     <1>19, <1>20, <1>21, <1>22, <1>23, <1>24, <1>25, <1>26, <1>27, <1>28, <1>29, <1>30, <1>31, <1>32, <1>33, <1>34, <1>35
     DEF Next, Printer, Live, Operator, Sweep, Resolve

LEMMA ArchTruthHolds == OnceInv /\ SwapTypes /\ Truth /\ [Next]_vars => ArchTruth'
<1> SUFFICES ASSUME OnceInv, SwapTypes, Truth, [Next]_vars PROVE ArchTruth'
  OBVIOUS
<1> USE BoundsAssumption DEF OnceInv, Known, SwapTypes, Truth, ArchTruth, ReportTruth, LiveTruth,
    SweepTruth, DevTruth, Types, ArchOK, ArchRec, LiveOK, LiveRec, SweepOK, SweepRec, OtherOK,
    Terminal, Answered, NoRun, Runs
<1>1. ASSUME NEW i \in Items, Start(i) PROVE ArchTruth'
  BY <1>1 DEF Start, NoArchive, db, ram, net, actors, device, past
<1>2. ASSUME NEW outcome \in Terminal, PrintEnds(outcome) PROVE ArchTruth'
  BY <1>2 DEF PrintEnds, NoReport, db, ram, net, actors, device, past
<1>3. ASSUME PrinterForgets PROVE ArchTruth'
  BY <1>3 DEF PrinterForgets, db, ram, net, actors, device, past
<1>4. ASSUME NEW r \in Runs, PrinterSwaps(r) PROVE ArchTruth'
  BY <1>4, SMTT(30) DEF PrinterSwaps, db, ram, net, actors, device, past
<1>5. ASSUME Accept PROVE ArchTruth'
  BY <1>5 DEF Accept, db, ram, net, actors, device, past
<1>6. ASSUME LiveDecide PROVE ArchTruth'
  BY <1>6 DEF LiveDecide, db, ram, net, actors, device, past
<1>7. ASSUME LiveClaim PROVE ArchTruth'
  <2>1. Kept
    BY <1>7, LiveClaimKeeps
  <2>2. UNCHANGED <<ended, sweep, dev>>
    BY <1>7 DEF LiveClaim, past, device
  <2> HIDE DEF Known, Types, OnceInv, ArchOK, ArchRec, LiveOK, LiveRec, SweepOK, SweepRec, OtherOK,
      Terminal, Answered, NoRun, Runs
  <2> QED BY <2>1, <2>2 DEF Kept
<1>8. ASSUME LiveSend PROVE ArchTruth'
  BY <1>8 DEF LiveSend, db, ram, net, actors, device, past
<1>9. ASSUME NEW ok \in BOOLEAN, LiveAnswer(ok) PROVE ArchTruth'
  BY <1>9 DEF LiveAnswer, Finished, db, ram, net, actors, device, past
<1>10. ASSUME LiveError PROVE ArchTruth'
  BY <1>10 DEF LiveError, db, ram, net, actors, device, past
<1>11. ASSUME LiveHold PROVE ArchTruth'
  BY <1>11 DEF LiveHold, db, ram, net, actors, device, past
<1>12. ASSUME LiveGate PROVE ArchTruth'
  BY <1>12 DEF LiveGate, db, ram, net, actors, device, past
<1>13. ASSUME LiveFinalize PROVE ArchTruth'
  <2>1. UNCHANGED <<ended, sweep, dev>>
    BY <1>13 DEF LiveFinalize, past, device
  <2>2. /\ live.outcome \in Terminal /\ ended[live.run] = live.outcome
        /\ \A q \in Runs : \/ arch'[q] = arch[q]
                           \/ /\ q = live.run /\ arch'[q].status = live.outcome /\ arch[q].status = "printing"
                              /\ arch'[q].marker = "db_finalized" /\ arch'[q].outcome = arch[q].outcome
    <3>1. ended[live.run] = live.outcome
      BY <1>13 DEF LiveFinalize
    <3>2. ArchOK /\ LiveOK /\ Known
      OBVIOUS
    <3> HIDE DEF Known, Types, OnceInv, ArchOK, ArchRec, LiveOK, LiveRec, SweepOK, SweepRec,
        OtherOK, Terminal, Answered, NoRun, Runs
    <3> QED BY <1>13, <3>1, <3>2, FinalizeWrites
  <2>3. "none" \notin Terminal
    OBVIOUS
  <2> HIDE DEF Known, Types, OnceInv, ArchOK, ArchRec, LiveOK, LiveRec, SweepOK, SweepRec, OtherOK,
      Terminal, Answered, NoRun, Runs, SweepTruth, LiveTruth, ReportTruth
  <2> QED BY <2>1, <2>2, <2>3
<1>14. ASSUME LiveTidy PROVE ArchTruth'
  BY <1>14 DEF LiveTidy, NoLive, db, ram, net, actors, device, past
<1>15. ASSUME NEW s \in Sweepers, SweepBegin(s) PROVE ArchTruth'
  BY <1>15 DEF SweepBegin, NoSweep, Printing, db, ram, net, actors, device, past
<1>16. ASSUME NEW s \in Sweepers, SweepRepair(s) PROVE ArchTruth'
  BY <1>16, SMTT(30), ZenonT(30) DEF SweepRepair, Printing, db, ram, net, actors, device, past
<1>17. ASSUME NEW s \in Sweepers, NEW r \in Runs, SweepRecover(s, r) PROVE ArchTruth'
  BY <1>17, SMTT(30) DEF SweepRecover, db, ram, net, actors, device, past
<1>18. ASSUME NEW s \in Sweepers, NEW r \in Runs, SweepClose(s, r) PROVE ArchTruth'
  <2>1. UNCHANGED ended
    BY <1>18 DEF SweepClose, past
  <2>2. /\ \A q \in Runs \ {r} : arch'[q] = arch[q]
        /\ arch'[r].marker = arch[r].marker /\ arch'[r].outcome = arch[r].outcome
        /\ arch'[r].status \in Terminal
        /\ arch'[r].status = "completed" => ended[r] = "completed"
    <3>1. ArchOK /\ SweepOK /\ SweepTruth
      OBVIOUS
    <3> HIDE DEF Known, Types, OnceInv, ArchOK, ArchRec, LiveOK, LiveRec, SweepOK, SweepRec,
        OtherOK, Terminal, Answered, NoRun, Runs, SweepTruth
    <3> QED BY <1>18, <3>1, CloseWrites
  <2>3. "none" \notin Terminal
    OBVIOUS
  <2> HIDE DEF Known, Types, OnceInv, ArchOK, ArchRec, LiveOK, LiveRec, SweepOK, SweepRec, OtherOK,
      Terminal, Answered, NoRun, Runs
  <2> QED BY <2>1, <2>2, <2>3
<1>19. ASSUME NEW s \in Sweepers, SweepGate(s) PROVE ArchTruth'
  BY <1>19 DEF SweepGate, db, ram, net, actors, device, past
<1>20. ASSUME NEW s \in Sweepers, SweepRow(s) PROVE ArchTruth'
  BY <1>20 DEF SweepRow, db, ram, net, actors, device, past
<1>21. ASSUME NEW s \in Sweepers, SweepEnd(s) PROVE ArchTruth'
  BY <1>21, SMTT(30), ZenonT(30) DEF SweepEnd, NoSweep, db, ram, net, actors, device, past
<1>22. ASSUME NEW t \in Tasks, ResolveRead(t) PROVE ArchTruth'
  BY <1>22 DEF ResolveRead, NoTask, db, ram, net, actors, device, past
<1>23. ASSUME NEW t \in Tasks, ResolveClaim(t) PROVE ArchTruth'
  <2>1. Kept
    BY <1>23, ResolveClaimKeeps
  <2>2. UNCHANGED <<ended, sweep, dev>>
    BY <1>23 DEF ResolveClaim, past, device
  <2> HIDE DEF Known, Types, OnceInv, ArchOK, ArchRec, LiveOK, LiveRec, SweepOK, SweepRec, OtherOK,
      Terminal, Answered, NoRun, Runs
  <2> QED BY <2>1, <2>2 DEF Kept
<1>24. ASSUME NEW t \in Tasks, ResolveSend(t) PROVE ArchTruth'
  BY <1>24 DEF ResolveSend, SetTask, db, ram, net, actors, device, past
<1>25. ASSUME NEW t \in Tasks, NEW ok \in BOOLEAN, ResolveAnswer(t, ok) PROVE ArchTruth'
  BY <1>25, SMTT(30) DEF ResolveAnswer, Finished, db, ram, net, actors, device, past
<1>26. ASSUME NEW t \in Tasks, ResolveError(t) PROVE ArchTruth'
  BY <1>26 DEF ResolveError, SetTask, db, ram, net, actors, device, past
<1>27. ASSUME NEW t \in Tasks, ResolveSettle(t) PROVE ArchTruth'
  BY <1>27 DEF ResolveSettle, Settle, NoTask, db, ram, net, actors, device, past
<1>28. ASSUME NEW t \in Tasks, ResolveHold(t) PROVE ArchTruth'
  BY <1>28 DEF ResolveHold, Settle, NoTask, db, ram, net, actors, device, past
<1>29. ASSUME NEW r \in Runs, NEW action \in {"clear", "repeat"}, AnswerPlate(r, action) PROVE ArchTruth'
  BY <1>29 DEF AnswerPlate, db, ram, net, actors, device, past
<1>30. ASSUME Resume PROVE ArchTruth'
  BY <1>30 DEF Resume, db, ram, net, actors, device, past
<1>31. ASSUME Drop PROVE ArchTruth'
  BY <1>31 DEF Drop, NoReport, db, ram, net, actors, device, past
<1>32. ASSUME Connect PROVE ArchTruth'
  BY <1>32 DEF Connect, db, ram, net, actors, device, past
<1>33. ASSUME Crash PROVE ArchTruth'
  BY <1>33 DEF Crash, NoLive, NoSweep, NoReport, NoTask, db, ram, net, actors, device, past
<1>34. ASSUME Restart PROVE ArchTruth'
  BY <1>34 DEF Restart, db, ram, net, actors, device, past
<1>35. CASE UNCHANGED vars
  BY <1>35 DEF vars, db, ram, net, actors, device, past
<1> HIDE DEF OnceInv, Known, SwapTypes, Truth, ArchTruth, ReportTruth, LiveTruth, SweepTruth,
    DevTruth, Types, ArchOK, ArchRec, LiveOK, LiveRec, SweepOK, SweepRec, OtherOK, Terminal,
    Answered, NoRun, Runs
<1> QED
  BY <1>1, <1>2, <1>3, <1>4, <1>5, <1>6, <1>7, <1>8, <1>9, <1>10, <1>11, <1>12, <1>13, <1>14, <1>15,
      <1>16, <1>17, <1>18,
     <1>19, <1>20, <1>21, <1>22, <1>23, <1>24, <1>25, <1>26, <1>27, <1>28, <1>29, <1>30, <1>31, <1>32, <1>33, <1>34, <1>35
     DEF Next, Printer, Live, Operator, Sweep, Resolve

LEMMA ReportTruthHolds == OnceInv /\ SwapTypes /\ Truth /\ [Next]_vars => ReportTruth'
<1> SUFFICES ASSUME OnceInv, SwapTypes, Truth, [Next]_vars PROVE ReportTruth'
  OBVIOUS
<1> USE BoundsAssumption DEF OnceInv, Known, SwapTypes, Truth, ArchTruth, ReportTruth, LiveTruth,
    SweepTruth, DevTruth, Types, ArchOK, ArchRec, LiveOK, LiveRec, SweepOK, SweepRec, OtherOK,
    Terminal, Answered, NoRun, Runs
<1>1. ASSUME NEW i \in Items, Start(i) PROVE ReportTruth'
  BY <1>1 DEF Start, NoArchive, db, ram, net, actors, device, past
<1>2. ASSUME NEW outcome \in Terminal, PrintEnds(outcome) PROVE ReportTruth'
  BY <1>2 DEF PrintEnds, NoReport, db, ram, net, actors, device, past
<1>3. ASSUME PrinterForgets PROVE ReportTruth'
  BY <1>3 DEF PrinterForgets, db, ram, net, actors, device, past
<1>4. ASSUME NEW r \in Runs, PrinterSwaps(r) PROVE ReportTruth'
  BY <1>4 DEF PrinterSwaps, db, ram, net, actors, device, past
<1>5. ASSUME Accept PROVE ReportTruth'
  BY <1>5 DEF Accept, db, ram, net, actors, device, past
<1>6. ASSUME LiveDecide PROVE ReportTruth'
  BY <1>6 DEF LiveDecide, db, ram, net, actors, device, past
<1>7. ASSUME LiveClaim PROVE ReportTruth'
  BY <1>7 DEF LiveClaim, ClaimIsFree, NothingSent, db, ram, net, actors, device, past
<1>8. ASSUME LiveSend PROVE ReportTruth'
  BY <1>8 DEF LiveSend, db, ram, net, actors, device, past
<1>9. ASSUME NEW ok \in BOOLEAN, LiveAnswer(ok) PROVE ReportTruth'
  BY <1>9 DEF LiveAnswer, Finished, db, ram, net, actors, device, past
<1>10. ASSUME LiveError PROVE ReportTruth'
  BY <1>10 DEF LiveError, db, ram, net, actors, device, past
<1>11. ASSUME LiveHold PROVE ReportTruth'
  BY <1>11 DEF LiveHold, db, ram, net, actors, device, past
<1>12. ASSUME LiveGate PROVE ReportTruth'
  BY <1>12 DEF LiveGate, db, ram, net, actors, device, past
<1>13. ASSUME LiveFinalize PROVE ReportTruth'
  BY <1>13 DEF LiveFinalize, NoLive, db, ram, net, actors, device, past
<1>14. ASSUME LiveTidy PROVE ReportTruth'
  BY <1>14 DEF LiveTidy, NoLive, db, ram, net, actors, device, past
<1>15. ASSUME NEW s \in Sweepers, SweepBegin(s) PROVE ReportTruth'
  BY <1>15 DEF SweepBegin, NoSweep, Printing, db, ram, net, actors, device, past
<1>16. ASSUME NEW s \in Sweepers, SweepRepair(s) PROVE ReportTruth'
  BY <1>16 DEF SweepRepair, Printing, db, ram, net, actors, device, past
<1>17. ASSUME NEW s \in Sweepers, NEW r \in Runs, SweepRecover(s, r) PROVE ReportTruth'
  BY <1>17 DEF SweepRecover, db, ram, net, actors, device, past
<1>18. ASSUME NEW s \in Sweepers, NEW r \in Runs, SweepClose(s, r) PROVE ReportTruth'
  BY <1>18 DEF SweepClose, Verdict, db, ram, net, actors, device, past
<1>19. ASSUME NEW s \in Sweepers, SweepGate(s) PROVE ReportTruth'
  BY <1>19 DEF SweepGate, db, ram, net, actors, device, past
<1>20. ASSUME NEW s \in Sweepers, SweepRow(s) PROVE ReportTruth'
  BY <1>20 DEF SweepRow, db, ram, net, actors, device, past
<1>21. ASSUME NEW s \in Sweepers, SweepEnd(s) PROVE ReportTruth'
  BY <1>21 DEF SweepEnd, NoSweep, db, ram, net, actors, device, past
<1>22. ASSUME NEW t \in Tasks, ResolveRead(t) PROVE ReportTruth'
  BY <1>22 DEF ResolveRead, NoTask, db, ram, net, actors, device, past
<1>23. ASSUME NEW t \in Tasks, ResolveClaim(t) PROVE ReportTruth'
  BY <1>23 DEF ResolveClaim, ClaimIsFree, NothingSent, SetTask, NoTask, db, ram, net, actors, device, past
<1>24. ASSUME NEW t \in Tasks, ResolveSend(t) PROVE ReportTruth'
  BY <1>24 DEF ResolveSend, SetTask, db, ram, net, actors, device, past
<1>25. ASSUME NEW t \in Tasks, NEW ok \in BOOLEAN, ResolveAnswer(t, ok) PROVE ReportTruth'
  BY <1>25 DEF ResolveAnswer, Finished, db, ram, net, actors, device, past
<1>26. ASSUME NEW t \in Tasks, ResolveError(t) PROVE ReportTruth'
  BY <1>26 DEF ResolveError, SetTask, db, ram, net, actors, device, past
<1>27. ASSUME NEW t \in Tasks, ResolveSettle(t) PROVE ReportTruth'
  BY <1>27 DEF ResolveSettle, Settle, NoTask, db, ram, net, actors, device, past
<1>28. ASSUME NEW t \in Tasks, ResolveHold(t) PROVE ReportTruth'
  BY <1>28 DEF ResolveHold, Settle, NoTask, db, ram, net, actors, device, past
<1>29. ASSUME NEW r \in Runs, NEW action \in {"clear", "repeat"}, AnswerPlate(r, action) PROVE ReportTruth'
  BY <1>29 DEF AnswerPlate, db, ram, net, actors, device, past
<1>30. ASSUME Resume PROVE ReportTruth'
  BY <1>30 DEF Resume, db, ram, net, actors, device, past
<1>31. ASSUME Drop PROVE ReportTruth'
  BY <1>31 DEF Drop, NoReport, db, ram, net, actors, device, past
<1>32. ASSUME Connect PROVE ReportTruth'
  BY <1>32 DEF Connect, db, ram, net, actors, device, past
<1>33. ASSUME Crash PROVE ReportTruth'
  BY <1>33 DEF Crash, NoLive, NoSweep, NoReport, NoTask, db, ram, net, actors, device, past
<1>34. ASSUME Restart PROVE ReportTruth'
  BY <1>34 DEF Restart, db, ram, net, actors, device, past
<1>35. CASE UNCHANGED vars
  BY <1>35 DEF vars, db, ram, net, actors, device, past
<1> HIDE DEF OnceInv, Known, SwapTypes, Truth, ArchTruth, ReportTruth, LiveTruth, SweepTruth,
    DevTruth, Types, ArchOK, ArchRec, LiveOK, LiveRec, SweepOK, SweepRec, OtherOK, Terminal,
    Answered, NoRun, Runs
<1> QED
  BY <1>1, <1>2, <1>3, <1>4, <1>5, <1>6, <1>7, <1>8, <1>9, <1>10, <1>11, <1>12, <1>13, <1>14, <1>15,
      <1>16, <1>17, <1>18,
     <1>19, <1>20, <1>21, <1>22, <1>23, <1>24, <1>25, <1>26, <1>27, <1>28, <1>29, <1>30, <1>31, <1>32, <1>33, <1>34, <1>35
     DEF Next, Printer, Live, Operator, Sweep, Resolve

LEMMA LiveTruthHolds == OnceInv /\ SwapTypes /\ Truth /\ [Next]_vars => LiveTruth'
<1> SUFFICES ASSUME OnceInv, SwapTypes, Truth, [Next]_vars PROVE LiveTruth'
  OBVIOUS
<1> USE BoundsAssumption DEF OnceInv, Known, SwapTypes, Truth, ArchTruth, ReportTruth, LiveTruth,
    SweepTruth, DevTruth, Types, ArchOK, ArchRec, LiveOK, LiveRec, SweepOK, SweepRec, OtherOK,
    Terminal, Answered, NoRun, Runs
<1>1. ASSUME NEW i \in Items, Start(i) PROVE LiveTruth'
  BY <1>1 DEF Start, NoArchive, db, ram, net, actors, device, past
<1>2. ASSUME NEW outcome \in Terminal, PrintEnds(outcome) PROVE LiveTruth'
  BY <1>2 DEF PrintEnds, NoReport, db, ram, net, actors, device, past
<1>3. ASSUME PrinterForgets PROVE LiveTruth'
  BY <1>3 DEF PrinterForgets, db, ram, net, actors, device, past
<1>4. ASSUME NEW r \in Runs, PrinterSwaps(r) PROVE LiveTruth'
  BY <1>4 DEF PrinterSwaps, db, ram, net, actors, device, past
<1>5. ASSUME Accept PROVE LiveTruth'
  BY <1>5 DEF Accept, db, ram, net, actors, device, past
<1>6. ASSUME LiveDecide PROVE LiveTruth'
  BY <1>6 DEF LiveDecide, db, ram, net, actors, device, past
<1>7. ASSUME LiveClaim PROVE LiveTruth'
  BY <1>7 DEF LiveClaim, ClaimIsFree, NothingSent, db, ram, net, actors, device, past
<1>8. ASSUME LiveSend PROVE LiveTruth'
  BY <1>8 DEF LiveSend, db, ram, net, actors, device, past
<1>9. ASSUME NEW ok \in BOOLEAN, LiveAnswer(ok) PROVE LiveTruth'
  BY <1>9 DEF LiveAnswer, Finished, db, ram, net, actors, device, past
<1>10. ASSUME LiveError PROVE LiveTruth'
  BY <1>10 DEF LiveError, db, ram, net, actors, device, past
<1>11. ASSUME LiveHold PROVE LiveTruth'
  BY <1>11 DEF LiveHold, db, ram, net, actors, device, past
<1>12. ASSUME LiveGate PROVE LiveTruth'
  BY <1>12 DEF LiveGate, db, ram, net, actors, device, past
<1>13. ASSUME LiveFinalize PROVE LiveTruth'
  BY <1>13 DEF LiveFinalize, NoLive, db, ram, net, actors, device, past
<1>14. ASSUME LiveTidy PROVE LiveTruth'
  BY <1>14 DEF LiveTidy, NoLive, db, ram, net, actors, device, past
<1>15. ASSUME NEW s \in Sweepers, SweepBegin(s) PROVE LiveTruth'
  BY <1>15 DEF SweepBegin, NoSweep, Printing, db, ram, net, actors, device, past
<1>16. ASSUME NEW s \in Sweepers, SweepRepair(s) PROVE LiveTruth'
  BY <1>16 DEF SweepRepair, Printing, db, ram, net, actors, device, past
<1>17. ASSUME NEW s \in Sweepers, NEW r \in Runs, SweepRecover(s, r) PROVE LiveTruth'
  BY <1>17 DEF SweepRecover, db, ram, net, actors, device, past
<1>18. ASSUME NEW s \in Sweepers, NEW r \in Runs, SweepClose(s, r) PROVE LiveTruth'
  BY <1>18 DEF SweepClose, Verdict, db, ram, net, actors, device, past
<1>19. ASSUME NEW s \in Sweepers, SweepGate(s) PROVE LiveTruth'
  BY <1>19 DEF SweepGate, db, ram, net, actors, device, past
<1>20. ASSUME NEW s \in Sweepers, SweepRow(s) PROVE LiveTruth'
  BY <1>20 DEF SweepRow, db, ram, net, actors, device, past
<1>21. ASSUME NEW s \in Sweepers, SweepEnd(s) PROVE LiveTruth'
  BY <1>21 DEF SweepEnd, NoSweep, db, ram, net, actors, device, past
<1>22. ASSUME NEW t \in Tasks, ResolveRead(t) PROVE LiveTruth'
  BY <1>22 DEF ResolveRead, NoTask, db, ram, net, actors, device, past
<1>23. ASSUME NEW t \in Tasks, ResolveClaim(t) PROVE LiveTruth'
  BY <1>23 DEF ResolveClaim, ClaimIsFree, NothingSent, SetTask, NoTask, db, ram, net, actors, device, past
<1>24. ASSUME NEW t \in Tasks, ResolveSend(t) PROVE LiveTruth'
  BY <1>24 DEF ResolveSend, SetTask, db, ram, net, actors, device, past
<1>25. ASSUME NEW t \in Tasks, NEW ok \in BOOLEAN, ResolveAnswer(t, ok) PROVE LiveTruth'
  BY <1>25 DEF ResolveAnswer, Finished, db, ram, net, actors, device, past
<1>26. ASSUME NEW t \in Tasks, ResolveError(t) PROVE LiveTruth'
  BY <1>26 DEF ResolveError, SetTask, db, ram, net, actors, device, past
<1>27. ASSUME NEW t \in Tasks, ResolveSettle(t) PROVE LiveTruth'
  BY <1>27 DEF ResolveSettle, Settle, NoTask, db, ram, net, actors, device, past
<1>28. ASSUME NEW t \in Tasks, ResolveHold(t) PROVE LiveTruth'
  BY <1>28 DEF ResolveHold, Settle, NoTask, db, ram, net, actors, device, past
<1>29. ASSUME NEW r \in Runs, NEW action \in {"clear", "repeat"}, AnswerPlate(r, action) PROVE LiveTruth'
  BY <1>29 DEF AnswerPlate, db, ram, net, actors, device, past
<1>30. ASSUME Resume PROVE LiveTruth'
  BY <1>30 DEF Resume, db, ram, net, actors, device, past
<1>31. ASSUME Drop PROVE LiveTruth'
  BY <1>31 DEF Drop, NoReport, db, ram, net, actors, device, past
<1>32. ASSUME Connect PROVE LiveTruth'
  BY <1>32 DEF Connect, db, ram, net, actors, device, past
<1>33. ASSUME Crash PROVE LiveTruth'
  BY <1>33 DEF Crash, NoLive, NoSweep, NoReport, NoTask, db, ram, net, actors, device, past
<1>34. ASSUME Restart PROVE LiveTruth'
  BY <1>34 DEF Restart, db, ram, net, actors, device, past
<1>35. CASE UNCHANGED vars
  BY <1>35 DEF vars, db, ram, net, actors, device, past
<1> HIDE DEF OnceInv, Known, SwapTypes, Truth, ArchTruth, ReportTruth, LiveTruth, SweepTruth,
    DevTruth, Types, ArchOK, ArchRec, LiveOK, LiveRec, SweepOK, SweepRec, OtherOK, Terminal,
    Answered, NoRun, Runs
<1> QED
  BY <1>1, <1>2, <1>3, <1>4, <1>5, <1>6, <1>7, <1>8, <1>9, <1>10, <1>11, <1>12, <1>13, <1>14, <1>15,
      <1>16, <1>17, <1>18,
     <1>19, <1>20, <1>21, <1>22, <1>23, <1>24, <1>25, <1>26, <1>27, <1>28, <1>29, <1>30, <1>31, <1>32, <1>33, <1>34, <1>35
     DEF Next, Printer, Live, Operator, Sweep, Resolve

LEMMA SweepTruthHolds == OnceInv /\ SwapTypes /\ Truth /\ [Next]_vars => SweepTruth'
<1> SUFFICES ASSUME OnceInv, SwapTypes, Truth, [Next]_vars PROVE SweepTruth'
  OBVIOUS
<1> USE BoundsAssumption DEF OnceInv, Known, SwapTypes, Truth, ArchTruth, ReportTruth, LiveTruth,
    SweepTruth, DevTruth, Types, ArchOK, ArchRec, LiveOK, LiveRec, SweepOK, SweepRec, OtherOK,
    Terminal, Answered, NoRun, Runs
<1>1. ASSUME NEW i \in Items, Start(i) PROVE SweepTruth'
  BY <1>1 DEF Start, NoArchive, db, ram, net, actors, device, past
<1>2. ASSUME NEW outcome \in Terminal, PrintEnds(outcome) PROVE SweepTruth'
  BY <1>2 DEF PrintEnds, NoReport, db, ram, net, actors, device, past
<1>3. ASSUME PrinterForgets PROVE SweepTruth'
  BY <1>3 DEF PrinterForgets, db, ram, net, actors, device, past
<1>4. ASSUME NEW r \in Runs, PrinterSwaps(r) PROVE SweepTruth'
  BY <1>4, SMTT(30) DEF PrinterSwaps, db, ram, net, actors, device, past
<1>5. ASSUME Accept PROVE SweepTruth'
  BY <1>5 DEF Accept, db, ram, net, actors, device, past
<1>6. ASSUME LiveDecide PROVE SweepTruth'
  BY <1>6 DEF LiveDecide, db, ram, net, actors, device, past
<1>7. ASSUME LiveClaim PROVE SweepTruth'
  <2>0. \A q \in Sweepers : sweep[q].checkpoints \subseteq Runs
    OBVIOUS
  <2>1. Kept
    BY <1>7, LiveClaimKeeps
  <2>2. UNCHANGED <<ended, sweep, dev>>
    BY <1>7 DEF LiveClaim, past, device
  <2> HIDE DEF Known, Types, OnceInv, ArchOK, ArchRec, LiveOK, LiveRec, SweepOK, SweepRec, OtherOK,
      Terminal, Answered, NoRun, Runs
  <2> QED BY <2>0, <2>1, <2>2 DEF Kept
<1>8. ASSUME LiveSend PROVE SweepTruth'
  BY <1>8 DEF LiveSend, db, ram, net, actors, device, past
<1>9. ASSUME NEW ok \in BOOLEAN, LiveAnswer(ok) PROVE SweepTruth'
  BY <1>9 DEF LiveAnswer, Finished, db, ram, net, actors, device, past
<1>10. ASSUME LiveError PROVE SweepTruth'
  BY <1>10 DEF LiveError, db, ram, net, actors, device, past
<1>11. ASSUME LiveHold PROVE SweepTruth'
  BY <1>11 DEF LiveHold, db, ram, net, actors, device, past
<1>12. ASSUME LiveGate PROVE SweepTruth'
  BY <1>12 DEF LiveGate, db, ram, net, actors, device, past
<1>13. ASSUME LiveFinalize PROVE SweepTruth'
  <2>0. \A q \in Sweepers : sweep[q].checkpoints \subseteq Runs
    OBVIOUS
  <2>1. UNCHANGED <<ended, sweep, dev>>
    BY <1>13 DEF LiveFinalize, past, device
  <2>2. /\ live.outcome \in Terminal /\ ended[live.run] = live.outcome
        /\ \A q \in Runs : \/ arch'[q] = arch[q]
                           \/ /\ q = live.run /\ arch'[q].status = live.outcome /\ arch[q].status = "printing"
                              /\ arch'[q].marker = "db_finalized" /\ arch'[q].outcome = arch[q].outcome
    <3>1. ended[live.run] = live.outcome
      BY <1>13 DEF LiveFinalize
    <3>2. ArchOK /\ LiveOK /\ Known
      OBVIOUS
    <3> HIDE DEF Known, Types, OnceInv, ArchOK, ArchRec, LiveOK, LiveRec, SweepOK, SweepRec,
        OtherOK, Terminal, Answered, NoRun, Runs
    <3> QED BY <1>13, <3>1, <3>2, FinalizeWrites
  <2>3. "none" \notin Terminal
    OBVIOUS
  <2> HIDE DEF Known, Types, OnceInv, ArchOK, ArchRec, LiveOK, LiveRec, SweepOK, SweepRec, OtherOK,
      Terminal, Answered, NoRun, Runs, LiveTruth, ReportTruth
  <2> QED BY <2>0, <2>1, <2>2, <2>3
<1>14. ASSUME LiveTidy PROVE SweepTruth'
  BY <1>14 DEF LiveTidy, NoLive, db, ram, net, actors, device, past
<1>15. ASSUME NEW s \in Sweepers, SweepBegin(s) PROVE SweepTruth'
  BY <1>15 DEF SweepBegin, NoSweep, Printing, db, ram, net, actors, device, past
<1>16. ASSUME NEW s \in Sweepers, SweepRepair(s) PROVE SweepTruth'
  <2> DEFINE X == {r \in Printing : arch[r].marker # "accepted"}
             Y == {r \in Printing : arch[r].marker = "accepted"}
  <2>1. sweep' = [sweep EXCEPT ![s] = [sweep[s] EXCEPT !.pc = "close", !.orphans = X, !.checkpoints = Y]]
    BY <1>16, SMTT(30), ZenonT(30) DEF SweepRepair
  <2>2. UNCHANGED <<arch, ended>>
    BY <1>16 DEF SweepRepair, past
  <2>3. \A r \in Y : ended[r] = arch[r].outcome
    BY DEF Printing
  <2>4. sweep'[s].state = sweep[s].state /\ sweep'[s].file = sweep[s].file
    <3> HIDE DEF X, Y
    <3>1. sweep'[s] = [sweep[s] EXCEPT !.pc = "close", !.orphans = X, !.checkpoints = Y]
      BY <2>1
    <3> QED BY <3>1
  <2>5. SweepOK
    OBVIOUS
  <2> HIDE DEF X, Y
  <2> HIDE DEF Known, Types, OnceInv, ArchOK, ArchRec, LiveOK, LiveRec, SweepOK, SweepRec, OtherOK,
      Terminal, Answered, NoRun, Runs
  <2>6. (\A q \in Sweepers \ {s} : sweep'[q] = sweep[q]) /\ sweep'[s].checkpoints = Y /\ sweep'[s].pc = "close"
    <3>1. SweepOK
      BY DEF OnceInv, Types
    <3> HIDE DEF SwapTypes, Truth, ArchTruth, ReportTruth, LiveTruth, SweepTruth, DevTruth
    <3> QED BY <2>1, <3>1, RepairFields, ZenonT(40)
  <2> QED BY <2>2, <2>3, <2>4, <2>6
<1>17. ASSUME NEW s \in Sweepers, NEW r \in Runs, SweepRecover(s, r) PROVE SweepTruth'
  <2>1. UNCHANGED ended
    BY <1>17 DEF SweepRecover, past
  <2>2. \A q \in Runs : arch'[q].outcome = arch[q].outcome
    BY <1>17 DEF SweepRecover
  <2>3. \A q \in Sweepers \ {s} : sweep'[q] = sweep[q]
    BY <1>17 DEF SweepRecover
  <2>4. /\ sweep'[s].checkpoints = sweep[s].checkpoints \ {r}
        /\ sweep'[s].state = sweep[s].state /\ sweep'[s].file = sweep[s].file
    BY <1>17 DEF SweepRecover
  <2>5. \A q \in Sweepers : sweep[q].checkpoints \subseteq Runs
    OBVIOUS
  <2> HIDE DEF Known, Types, OnceInv, ArchOK, ArchRec, LiveOK, LiveRec, SweepOK, SweepRec, OtherOK,
      Terminal, Answered, NoRun, Runs
  <2> QED BY <2>1, <2>2, <2>3, <2>4, <2>5
<1>18. ASSUME NEW s \in Sweepers, NEW r \in Runs, SweepClose(s, r) PROVE SweepTruth'
  BY <1>18, SMTT(30) DEF SweepClose, Verdict, db, ram, net, actors, device, past
<1>19. ASSUME NEW s \in Sweepers, SweepGate(s) PROVE SweepTruth'
  BY <1>19, SMTT(30) DEF SweepGate, db, ram, net, actors, device, past
<1>20. ASSUME NEW s \in Sweepers, SweepRow(s) PROVE SweepTruth'
  BY <1>20, SMTT(30) DEF SweepRow, db, ram, net, actors, device, past
<1>21. ASSUME NEW s \in Sweepers, SweepEnd(s) PROVE SweepTruth'
  <2>1. sweep' = [sweep EXCEPT ![s] = NoSweep] /\ UNCHANGED <<arch, ended>>
    BY <1>21 DEF SweepEnd, db, past
  <2>2. /\ \A q \in Sweepers \ {s} : sweep'[q] = sweep[q]
        /\ sweep'[s].checkpoints = {} /\ sweep'[s].file \notin Runs
    BY <2>1 DEF NoSweep
  <2> HIDE DEF Known, Types, OnceInv, ArchOK, ArchRec, LiveOK, LiveRec, SweepOK, SweepRec, OtherOK,
      Terminal, Answered, NoRun, Runs
  <2> QED BY <2>1, <2>2
<1>22. ASSUME NEW t \in Tasks, ResolveRead(t) PROVE SweepTruth'
  BY <1>22 DEF ResolveRead, NoTask, db, ram, net, actors, device, past
<1>23. ASSUME NEW t \in Tasks, ResolveClaim(t) PROVE SweepTruth'
  <2>0. \A q \in Sweepers : sweep[q].checkpoints \subseteq Runs
    OBVIOUS
  <2>1. Kept
    BY <1>23, ResolveClaimKeeps
  <2>2. UNCHANGED <<ended, sweep, dev>>
    BY <1>23 DEF ResolveClaim, past, device
  <2> HIDE DEF Known, Types, OnceInv, ArchOK, ArchRec, LiveOK, LiveRec, SweepOK, SweepRec, OtherOK,
      Terminal, Answered, NoRun, Runs
  <2> QED BY <2>0, <2>1, <2>2 DEF Kept
<1>24. ASSUME NEW t \in Tasks, ResolveSend(t) PROVE SweepTruth'
  BY <1>24 DEF ResolveSend, SetTask, db, ram, net, actors, device, past
<1>25. ASSUME NEW t \in Tasks, NEW ok \in BOOLEAN, ResolveAnswer(t, ok) PROVE SweepTruth'
  BY <1>25 DEF ResolveAnswer, Finished, db, ram, net, actors, device, past
<1>26. ASSUME NEW t \in Tasks, ResolveError(t) PROVE SweepTruth'
  BY <1>26 DEF ResolveError, SetTask, db, ram, net, actors, device, past
<1>27. ASSUME NEW t \in Tasks, ResolveSettle(t) PROVE SweepTruth'
  BY <1>27 DEF ResolveSettle, Settle, NoTask, db, ram, net, actors, device, past
<1>28. ASSUME NEW t \in Tasks, ResolveHold(t) PROVE SweepTruth'
  BY <1>28 DEF ResolveHold, Settle, NoTask, db, ram, net, actors, device, past
<1>29. ASSUME NEW r \in Runs, NEW action \in {"clear", "repeat"}, AnswerPlate(r, action) PROVE SweepTruth'
  BY <1>29, SMTT(30) DEF AnswerPlate, db, ram, net, actors, device, past
<1>30. ASSUME Resume PROVE SweepTruth'
  BY <1>30 DEF Resume, db, ram, net, actors, device, past
<1>31. ASSUME Drop PROVE SweepTruth'
  BY <1>31 DEF Drop, NoReport, db, ram, net, actors, device, past
<1>32. ASSUME Connect PROVE SweepTruth'
  BY <1>32 DEF Connect, db, ram, net, actors, device, past
<1>33. ASSUME Crash PROVE SweepTruth'
  BY <1>33 DEF Crash, NoLive, NoSweep, NoReport, NoTask, db, ram, net, actors, device, past
<1>34. ASSUME Restart PROVE SweepTruth'
  BY <1>34 DEF Restart, db, ram, net, actors, device, past
<1>35. CASE UNCHANGED vars
  BY <1>35 DEF vars, db, ram, net, actors, device, past
<1> HIDE DEF OnceInv, Known, SwapTypes, Truth, ArchTruth, ReportTruth, LiveTruth, SweepTruth,
    DevTruth, Types, ArchOK, ArchRec, LiveOK, LiveRec, SweepOK, SweepRec, OtherOK, Terminal,
    Answered, NoRun, Runs
<1> QED
  BY <1>1, <1>2, <1>3, <1>4, <1>5, <1>6, <1>7, <1>8, <1>9, <1>10, <1>11, <1>12, <1>13, <1>14, <1>15,
      <1>16, <1>17, <1>18,
     <1>19, <1>20, <1>21, <1>22, <1>23, <1>24, <1>25, <1>26, <1>27, <1>28, <1>29, <1>30, <1>31, <1>32, <1>33, <1>34, <1>35
     DEF Next, Printer, Live, Operator, Sweep, Resolve

LEMMA DevTruthHolds == OnceInv /\ SwapTypes /\ Truth /\ [Next]_vars => DevTruth'
<1> SUFFICES ASSUME OnceInv, SwapTypes, Truth, [Next]_vars PROVE DevTruth'
  OBVIOUS
<1> USE BoundsAssumption DEF OnceInv, Known, SwapTypes, Truth, ArchTruth, ReportTruth, LiveTruth,
    SweepTruth, DevTruth, Types, ArchOK, ArchRec, LiveOK, LiveRec, SweepOK, SweepRec, OtherOK,
    Terminal, Answered, NoRun, Runs
<1>1. ASSUME NEW i \in Items, Start(i) PROVE DevTruth'
  BY <1>1 DEF Start, NoArchive, db, ram, net, actors, device, past
<1>2. ASSUME NEW outcome \in Terminal, PrintEnds(outcome) PROVE DevTruth'
  BY <1>2 DEF PrintEnds, NoReport, db, ram, net, actors, device, past
<1>3. ASSUME PrinterForgets PROVE DevTruth'
  BY <1>3 DEF PrinterForgets, db, ram, net, actors, device, past
<1>4. ASSUME NEW r \in Runs, PrinterSwaps(r) PROVE DevTruth'
  BY <1>4 DEF PrinterSwaps, db, ram, net, actors, device, past
<1>5. ASSUME Accept PROVE DevTruth'
  BY <1>5 DEF Accept, db, ram, net, actors, device, past
<1>6. ASSUME LiveDecide PROVE DevTruth'
  BY <1>6 DEF LiveDecide, db, ram, net, actors, device, past
<1>7. ASSUME LiveClaim PROVE DevTruth'
  <2>1. Kept
    BY <1>7, LiveClaimKeeps
  <2>2. UNCHANGED <<ended, sweep, dev>>
    BY <1>7 DEF LiveClaim, past, device
  <2> HIDE DEF Known, Types, OnceInv, ArchOK, ArchRec, LiveOK, LiveRec, SweepOK, SweepRec, OtherOK,
      Terminal, Answered, NoRun, Runs
  <2> QED BY <2>1, <2>2 DEF Kept
<1>8. ASSUME LiveSend PROVE DevTruth'
  BY <1>8 DEF LiveSend, db, ram, net, actors, device, past
<1>9. ASSUME NEW ok \in BOOLEAN, LiveAnswer(ok) PROVE DevTruth'
  BY <1>9 DEF LiveAnswer, Finished, db, ram, net, actors, device, past
<1>10. ASSUME LiveError PROVE DevTruth'
  BY <1>10 DEF LiveError, db, ram, net, actors, device, past
<1>11. ASSUME LiveHold PROVE DevTruth'
  BY <1>11 DEF LiveHold, db, ram, net, actors, device, past
<1>12. ASSUME LiveGate PROVE DevTruth'
  BY <1>12 DEF LiveGate, db, ram, net, actors, device, past
<1>13. ASSUME LiveFinalize PROVE DevTruth'
  <2>1. UNCHANGED <<ended, sweep, dev>>
    BY <1>13 DEF LiveFinalize, past, device
  <2>2. /\ live.outcome \in Terminal /\ ended[live.run] = live.outcome
        /\ \A q \in Runs : \/ arch'[q] = arch[q]
                           \/ /\ q = live.run /\ arch'[q].status = live.outcome /\ arch[q].status = "printing"
                              /\ arch'[q].marker = "db_finalized" /\ arch'[q].outcome = arch[q].outcome
    <3>1. ended[live.run] = live.outcome
      BY <1>13 DEF LiveFinalize
    <3>2. ArchOK /\ LiveOK /\ Known
      OBVIOUS
    <3> HIDE DEF Known, Types, OnceInv, ArchOK, ArchRec, LiveOK, LiveRec, SweepOK, SweepRec,
        OtherOK, Terminal, Answered, NoRun, Runs
    <3> QED BY <1>13, <3>1, <3>2, FinalizeWrites
  <2>3. "none" \notin Terminal
    OBVIOUS
  <2> HIDE DEF Known, Types, OnceInv, ArchOK, ArchRec, LiveOK, LiveRec, SweepOK, SweepRec, OtherOK,
      Terminal, Answered, NoRun, Runs, SweepTruth, LiveTruth, ReportTruth
  <2> QED BY <2>1, <2>2, <2>3
<1>14. ASSUME LiveTidy PROVE DevTruth'
  BY <1>14 DEF LiveTidy, NoLive, db, ram, net, actors, device, past
<1>15. ASSUME NEW s \in Sweepers, SweepBegin(s) PROVE DevTruth'
  BY <1>15 DEF SweepBegin, NoSweep, Printing, db, ram, net, actors, device, past
<1>16. ASSUME NEW s \in Sweepers, SweepRepair(s) PROVE DevTruth'
  BY <1>16 DEF SweepRepair, Printing, db, ram, net, actors, device, past
<1>17. ASSUME NEW s \in Sweepers, NEW r \in Runs, SweepRecover(s, r) PROVE DevTruth'
  BY <1>17 DEF SweepRecover, db, ram, net, actors, device, past
<1>18. ASSUME NEW s \in Sweepers, NEW r \in Runs, SweepClose(s, r) PROVE DevTruth'
  BY <1>18 DEF SweepClose, Verdict, db, ram, net, actors, device, past
<1>19. ASSUME NEW s \in Sweepers, SweepGate(s) PROVE DevTruth'
  BY <1>19 DEF SweepGate, db, ram, net, actors, device, past
<1>20. ASSUME NEW s \in Sweepers, SweepRow(s) PROVE DevTruth'
  BY <1>20 DEF SweepRow, db, ram, net, actors, device, past
<1>21. ASSUME NEW s \in Sweepers, SweepEnd(s) PROVE DevTruth'
  BY <1>21 DEF SweepEnd, NoSweep, db, ram, net, actors, device, past
<1>22. ASSUME NEW t \in Tasks, ResolveRead(t) PROVE DevTruth'
  BY <1>22 DEF ResolveRead, NoTask, db, ram, net, actors, device, past
<1>23. ASSUME NEW t \in Tasks, ResolveClaim(t) PROVE DevTruth'
  <2>1. Kept
    BY <1>23, ResolveClaimKeeps
  <2>2. UNCHANGED <<ended, sweep, dev>>
    BY <1>23 DEF ResolveClaim, past, device
  <2> HIDE DEF Known, Types, OnceInv, ArchOK, ArchRec, LiveOK, LiveRec, SweepOK, SweepRec, OtherOK,
      Terminal, Answered, NoRun, Runs
  <2> QED BY <2>1, <2>2 DEF Kept
<1>24. ASSUME NEW t \in Tasks, ResolveSend(t) PROVE DevTruth'
  BY <1>24 DEF ResolveSend, SetTask, db, ram, net, actors, device, past
<1>25. ASSUME NEW t \in Tasks, NEW ok \in BOOLEAN, ResolveAnswer(t, ok) PROVE DevTruth'
  BY <1>25 DEF ResolveAnswer, Finished, db, ram, net, actors, device, past
<1>26. ASSUME NEW t \in Tasks, ResolveError(t) PROVE DevTruth'
  BY <1>26 DEF ResolveError, SetTask, db, ram, net, actors, device, past
<1>27. ASSUME NEW t \in Tasks, ResolveSettle(t) PROVE DevTruth'
  BY <1>27 DEF ResolveSettle, Settle, NoTask, db, ram, net, actors, device, past
<1>28. ASSUME NEW t \in Tasks, ResolveHold(t) PROVE DevTruth'
  BY <1>28 DEF ResolveHold, Settle, NoTask, db, ram, net, actors, device, past
<1>29. ASSUME NEW r \in Runs, NEW action \in {"clear", "repeat"}, AnswerPlate(r, action) PROVE DevTruth'
  BY <1>29 DEF AnswerPlate, db, ram, net, actors, device, past
<1>30. ASSUME Resume PROVE DevTruth'
  BY <1>30 DEF Resume, db, ram, net, actors, device, past
<1>31. ASSUME Drop PROVE DevTruth'
  BY <1>31 DEF Drop, NoReport, db, ram, net, actors, device, past
<1>32. ASSUME Connect PROVE DevTruth'
  BY <1>32 DEF Connect, db, ram, net, actors, device, past
<1>33. ASSUME Crash PROVE DevTruth'
  BY <1>33 DEF Crash, NoLive, NoSweep, NoReport, NoTask, db, ram, net, actors, device, past
<1>34. ASSUME Restart PROVE DevTruth'
  BY <1>34 DEF Restart, db, ram, net, actors, device, past
<1>35. CASE UNCHANGED vars
  BY <1>35 DEF vars, db, ram, net, actors, device, past
<1> HIDE DEF OnceInv, Known, SwapTypes, Truth, ArchTruth, ReportTruth, LiveTruth, SweepTruth,
    DevTruth, Types, ArchOK, ArchRec, LiveOK, LiveRec, SweepOK, SweepRec, OtherOK, Terminal,
    Answered, NoRun, Runs
<1> QED
  BY <1>1, <1>2, <1>3, <1>4, <1>5, <1>6, <1>7, <1>8, <1>9, <1>10, <1>11, <1>12, <1>13, <1>14, <1>15,
      <1>16, <1>17, <1>18,
     <1>19, <1>20, <1>21, <1>22, <1>23, <1>24, <1>25, <1>26, <1>27, <1>28, <1>29, <1>30, <1>31, <1>32, <1>33, <1>34, <1>35
     DEF Next, Printer, Live, Operator, Sweep, Resolve

LEMMA ClaimTruthHolds == OnceInv /\ SwapInv /\ [Next]_vars => ClaimTruth'
<1> SUFFICES ASSUME OnceInv, SwapInv, [Next]_vars PROVE ClaimTruth'
  OBVIOUS
<1> USE BoundsAssumption DEF OnceInv, Known, SwapInv, SwapTypes, TaskRec, Truth, ArchTruth,
    LiveTruth, DevTruth, SwapOwners, ClaimTruth, LiveOwns, TaskOwns, OneOwner, Owned, Unsent, Types,
    ArchOK, ArchRec, LiveOK, LiveRec, SweepOK, SweepRec, OtherOK, Terminal, Answered, NoRun, Runs
<1>1. ASSUME NEW i \in Items, Start(i) PROVE ClaimTruth'
  BY <1>1 DEF Start, NoArchive, db, ram, net, actors, device, past
<1>2. ASSUME NEW outcome \in Terminal, PrintEnds(outcome) PROVE ClaimTruth'
  <2>1. UNCHANGED <<commands, task, arch, sending>>
    BY <1>2 DEF PrintEnds, past, db, ram, actors
  <2>2. dev.run \in Runs /\ ended[dev.run] = "none"
    BY <1>2 DEF PrintEnds
  <2>3. \A q \in Runs : ended[q] # "none" => ended'[q] = ended[q]
    BY <1>2, <2>2 DEF PrintEnds
  <2> HIDE DEF OnceInv, Known, SwapInv, SwapTypes, TaskRec, Truth, ArchTruth, LiveTruth, DevTruth,
      SwapOwners, Types, ArchOK, ArchRec, LiveOK, LiveRec, SweepOK, SweepRec, OtherOK, Terminal,
      Answered, NoRun, Runs, ClaimTruth, LiveOwns, TaskOwns, OneOwner, Owned, Unsent
  <2> QED BY <2>1, <2>3 DEF SwapInv, SwapOwners, ClaimTruth, TaskOwns, Owned
<1>3. ASSUME PrinterForgets PROVE ClaimTruth'
  BY <1>3 DEF PrinterForgets, db, ram, net, actors, device, past
<1>4. ASSUME NEW r \in Runs, PrinterSwaps(r) PROVE ClaimTruth'
  BY <1>4, SMTT(30) DEF PrinterSwaps, db, ram, net, actors, device, past
<1>5. ASSUME Accept PROVE ClaimTruth'
  BY <1>5, SMTT(30), ZenonT(30) DEF Accept, db, ram, net, actors, device, past
<1>6. ASSUME LiveDecide PROVE ClaimTruth'
  BY <1>6 DEF LiveDecide, db, ram, net, actors, device, past
<1>7. ASSUME LiveClaim PROVE ClaimTruth'
  <2>1. UNCHANGED <<commands, ended, task>>
    BY <1>7 DEF LiveClaim, past
  <2>2. ArchOK /\ LiveOK /\ LiveTruth
    BY DEF OnceInv, Types, SwapInv, Truth
  <2>3. live.outcome = "completed" /\ ended[live.run] = live.outcome
    BY <1>7 DEF LiveClaim
  <2> HIDE DEF OnceInv, Known, SwapInv, SwapTypes, TaskRec, Truth, ArchTruth, LiveTruth, DevTruth,
      SwapOwners, Types, ArchOK, ArchRec, LiveOK, LiveRec, SweepOK, SweepRec, OtherOK, Terminal,
      Answered, NoRun, Runs, ClaimTruth, LiveOwns, TaskOwns, OneOwner, Owned, Unsent
  <2>4. /\ live.pc = "claim" /\ live'.run = live.run /\ live'.outcome = live.outcome /\ live.run \in Runs
        /\ \/ UNCHANGED <<arch, sending>> /\ live'.pc \in {"gate", "hold"}
           \/ /\ arch[live.run].claim \in Unsent /\ arch'[live.run].claim = "attempted"
              /\ \A q \in Runs \ {live.run} : arch'[q] = arch[q]
              /\ sending' = sending \cup {live.run} /\ live'.pc = "send"
    BY <1>7, <2>2, LiveClaimWrites
  <2> QED BY <2>1, <2>3, <2>4 DEF SwapInv, SwapOwners, ClaimTruth, LiveOwns, TaskOwns, OneOwner, Owned, Unsent
<1>8. ASSUME LiveSend PROVE ClaimTruth'
  BY <1>8 DEF LiveSend, db, ram, net, actors, device, past
<1>9. ASSUME NEW ok \in BOOLEAN, LiveAnswer(ok) PROVE ClaimTruth'
  BY <1>9 DEF LiveAnswer, Finished, db, ram, net, actors, device, past
<1>10. ASSUME LiveError PROVE ClaimTruth'
  BY <1>10 DEF LiveError, db, ram, net, actors, device, past
<1>11. ASSUME LiveHold PROVE ClaimTruth'
  BY <1>11 DEF LiveHold, db, ram, net, actors, device, past
<1>12. ASSUME LiveGate PROVE ClaimTruth'
  BY <1>12, SMTT(30), ZenonT(30) DEF LiveGate, db, ram, net, actors, device, past
<1>13. ASSUME LiveFinalize PROVE ClaimTruth'
  <2>1. UNCHANGED <<commands, ended, task, sending>>
    BY <1>13 DEF LiveFinalize, past, ram
  <2>2. ArchOK /\ LiveOK /\ Known
    BY DEF OnceInv, Types
  <2> HIDE DEF OnceInv, Known, SwapInv, SwapTypes, TaskRec, Truth, ArchTruth, LiveTruth, DevTruth,
      SwapOwners, Types, ArchOK, ArchRec, LiveOK, LiveRec, SweepOK, SweepRec, OtherOK, Terminal,
      Answered, NoRun, Runs, ClaimTruth, LiveOwns, TaskOwns, OneOwner, Owned, Unsent
  <2>3. \A q \in Runs : arch'[q].claim = arch[q].claim
    BY <1>13, <2>2, FinalizeWrites
  <2> QED BY <2>1, <2>3 DEF SwapInv, SwapOwners, ClaimTruth, TaskOwns, Owned
<1>14. ASSUME LiveTidy PROVE ClaimTruth'
  BY <1>14 DEF LiveTidy, NoLive, db, ram, net, actors, device, past
<1>15. ASSUME NEW s \in Sweepers, SweepBegin(s) PROVE ClaimTruth'
  BY <1>15 DEF SweepBegin, NoSweep, Printing, db, ram, net, actors, device, past
<1>16. ASSUME NEW s \in Sweepers, SweepRepair(s) PROVE ClaimTruth'
  <2>1. UNCHANGED <<arch, commands, ended>>
    BY <1>16 DEF SweepRepair, past
  <2> HIDE DEF OnceInv, Known, SwapInv, SwapTypes, TaskRec, Truth, ArchTruth, LiveTruth, DevTruth,
      SwapOwners, Types, ArchOK, ArchRec, LiveOK, LiveRec, SweepOK, SweepRec, OtherOK, Terminal,
      Answered, NoRun, Runs, ClaimTruth, LiveOwns, TaskOwns, OneOwner, Owned, Unsent
  <2> QED BY <2>1 DEF SwapInv, SwapOwners, ClaimTruth
<1>17. ASSUME NEW s \in Sweepers, NEW r \in Runs, SweepRecover(s, r) PROVE ClaimTruth'
  <2>1. UNCHANGED <<commands, ended>>
    BY <1>17 DEF SweepRecover, past
  <2>2. \A q \in Runs : arch'[q].claim = arch[q].claim
    BY <1>17, SMTT(30) DEF SweepRecover
  <2> HIDE DEF OnceInv, Known, SwapInv, SwapTypes, TaskRec, Truth, ArchTruth, LiveTruth, DevTruth,
      SwapOwners, Types, ArchOK, ArchRec, LiveOK, LiveRec, SweepOK, SweepRec, OtherOK, Terminal,
      Answered, NoRun, Runs, ClaimTruth, LiveOwns, TaskOwns, OneOwner, Owned, Unsent
  <2> QED BY <2>1, <2>2 DEF SwapInv, SwapOwners, ClaimTruth
<1>18. ASSUME NEW s \in Sweepers, NEW r \in Runs, SweepClose(s, r) PROVE ClaimTruth'
  <2>1. UNCHANGED <<commands, ended>>
    BY <1>18 DEF SweepClose, past
  <2>2. ArchOK /\ SweepOK /\ SweepTruth
    BY DEF OnceInv, Types, SwapInv, Truth
  <2> HIDE DEF OnceInv, Known, SwapInv, SwapTypes, TaskRec, Truth, ArchTruth, LiveTruth, DevTruth,
      SwapOwners, Types, ArchOK, ArchRec, LiveOK, LiveRec, SweepOK, SweepRec, OtherOK, Terminal,
      Answered, NoRun, Runs, ClaimTruth, LiveOwns, TaskOwns, OneOwner, Owned, Unsent
  <2>3. /\ \A q \in Runs \ {r} : arch'[q] = arch[q]
        /\ arch'[r].claim = arch[r].claim \/ (arch[r].claim = "none" /\ arch'[r].claim = "owed")
    BY <1>18, <2>2, CloseWrites
  <2> QED BY <2>1, <2>3 DEF SwapInv, SwapOwners, ClaimTruth, Unsent
<1>19. ASSUME NEW s \in Sweepers, SweepGate(s) PROVE ClaimTruth'
  BY <1>19 DEF SweepGate, db, ram, net, actors, device, past
<1>20. ASSUME NEW s \in Sweepers, SweepRow(s) PROVE ClaimTruth'
  BY <1>20 DEF SweepRow, db, ram, net, actors, device, past
<1>21. ASSUME NEW s \in Sweepers, SweepEnd(s) PROVE ClaimTruth'
  <2>1. UNCHANGED <<arch, commands, ended>>
    BY <1>21 DEF SweepEnd, db, past
  <2> HIDE DEF OnceInv, Known, SwapInv, SwapTypes, TaskRec, Truth, ArchTruth, LiveTruth, DevTruth,
      SwapOwners, Types, ArchOK, ArchRec, LiveOK, LiveRec, SweepOK, SweepRec, OtherOK, Terminal,
      Answered, NoRun, Runs, ClaimTruth, LiveOwns, TaskOwns, OneOwner, Owned, Unsent
  <2> QED BY <2>1 DEF SwapInv, SwapOwners, ClaimTruth
<1>22. ASSUME NEW t \in Tasks, ResolveRead(t) PROVE ClaimTruth'
  BY <1>22 DEF ResolveRead, NoTask, db, ram, net, actors, device, past
<1>23. ASSUME NEW t \in Tasks, ResolveClaim(t) PROVE ClaimTruth'
  <2>1. UNCHANGED <<commands, ended, live>>
    BY <1>23 DEF ResolveClaim, past
  <2>2. ArchOK /\ SwapTypes /\ TaskOwns /\ ended[task[t].run] = "completed"
    BY <1>23 DEF ResolveClaim
  <2> HIDE DEF OnceInv, Known, SwapInv, SwapTypes, TaskRec, Truth, ArchTruth, LiveTruth, DevTruth,
      SwapOwners, Types, ArchOK, ArchRec, LiveOK, LiveRec, SweepOK, SweepRec, OtherOK, Terminal,
      Answered, NoRun, Runs, ClaimTruth, LiveOwns, TaskOwns, OneOwner, Owned, Unsent
  <2>3. /\ \A u \in Tasks \ {t} : task'[u] = task[u]
        /\ task[t].pc = "claim" /\ task[t].run \in Runs
        /\ \/ /\ UNCHANGED <<arch, sending>>
              /\ task'[t] = NoTask \/ (task'[t].pc = "hold" /\ task'[t].run = task[t].run /\ task'[t].claimed = task[t].claimed)
           \/ /\ arch[task[t].run].claim \in Unsent /\ arch'[task[t].run].claim = "attempted"
              /\ \A q \in Runs \ {task[t].run} : arch'[q] = arch[q]
              /\ sending' = sending \cup {task[t].run}
              /\ task'[t].pc = "send" /\ task'[t].run = task[t].run /\ task'[t].claimed = TRUE
    BY <1>23, <2>2, ResolveClaimWrites
  <2>4. live.pc \in {"send", "sent"} => live.run \in Runs
    BY DEF SwapInv, Truth, LiveTruth
  <2> QED BY <2>1, <2>2, <2>3, <2>4, NoTaskOK DEF SwapInv, SwapOwners, ClaimTruth, LiveOwns,
      TaskOwns, OneOwner, Owned, Unsent
<1>24. ASSUME NEW t \in Tasks, ResolveSend(t) PROVE ClaimTruth'
  BY <1>24 DEF ResolveSend, SetTask, db, ram, net, actors, device, past
<1>25. ASSUME NEW t \in Tasks, NEW ok \in BOOLEAN, ResolveAnswer(t, ok) PROVE ClaimTruth'
  BY <1>25 DEF ResolveAnswer, Finished, db, ram, net, actors, device, past
<1>26. ASSUME NEW t \in Tasks, ResolveError(t) PROVE ClaimTruth'
  BY <1>26 DEF ResolveError, SetTask, db, ram, net, actors, device, past
<1>27. ASSUME NEW t \in Tasks, ResolveSettle(t) PROVE ClaimTruth'
  BY <1>27 DEF ResolveSettle, Settle, NoTask, db, ram, net, actors, device, past
<1>28. ASSUME NEW t \in Tasks, ResolveHold(t) PROVE ClaimTruth'
  <2>1. UNCHANGED <<commands, ended>>
    BY <1>28 DEF ResolveHold, past
  <2>2. \A q \in Runs : arch'[q].claim = arch[q].claim
    BY <1>28 DEF ResolveHold
  <2> HIDE DEF OnceInv, Known, SwapInv, SwapTypes, TaskRec, Truth, ArchTruth, LiveTruth, DevTruth,
      SwapOwners, Types, ArchOK, ArchRec, LiveOK, LiveRec, SweepOK, SweepRec, OtherOK, Terminal,
      Answered, NoRun, Runs, ClaimTruth, LiveOwns, TaskOwns, OneOwner, Owned, Unsent
  <2> QED BY <2>1, <2>2 DEF SwapInv, SwapOwners, ClaimTruth
<1>29. ASSUME NEW r \in Runs, NEW action \in {"clear", "repeat"}, AnswerPlate(r, action) PROVE ClaimTruth'
  BY <1>29 DEF AnswerPlate, db, ram, net, actors, device, past
<1>30. ASSUME Resume PROVE ClaimTruth'
  BY <1>30 DEF Resume, db, ram, net, actors, device, past
<1>31. ASSUME Drop PROVE ClaimTruth'
  BY <1>31 DEF Drop, NoReport, db, ram, net, actors, device, past
<1>32. ASSUME Connect PROVE ClaimTruth'
  BY <1>32 DEF Connect, db, ram, net, actors, device, past
<1>33. ASSUME Crash PROVE ClaimTruth'
  BY <1>33 DEF Crash, NoLive, NoSweep, NoReport, NoTask, db, ram, net, actors, device, past
<1>34. ASSUME Restart PROVE ClaimTruth'
  BY <1>34 DEF Restart, db, ram, net, actors, device, past
<1>35. CASE UNCHANGED vars
  BY <1>35 DEF vars, db, ram, net, actors, device, past
<1> HIDE DEF OnceInv, Known, SwapInv, SwapTypes, TaskRec, Truth, ArchTruth, LiveTruth, DevTruth,
    SwapOwners, ClaimTruth, LiveOwns, TaskOwns, OneOwner, Owned, Unsent, Types, ArchOK, ArchRec,
    LiveOK, LiveRec, SweepOK, SweepRec, OtherOK, Terminal, Answered, NoRun, Runs
<1> QED
  BY <1>1, <1>2, <1>3, <1>4, <1>5, <1>6, <1>7, <1>8, <1>9, <1>10, <1>11, <1>12, <1>13, <1>14, <1>15,
      <1>16, <1>17, <1>18,
     <1>19, <1>20, <1>21, <1>22, <1>23, <1>24, <1>25, <1>26, <1>27, <1>28, <1>29, <1>30, <1>31, <1>32, <1>33, <1>34, <1>35
     DEF Next, Printer, Live, Operator, Sweep, Resolve

LEMMA LiveOwnsHolds == OnceInv /\ SwapInv /\ [Next]_vars => LiveOwns'
<1> SUFFICES ASSUME OnceInv, SwapInv, [Next]_vars PROVE LiveOwns'
  OBVIOUS
<1> USE BoundsAssumption DEF OnceInv, Known, SwapInv, SwapTypes, TaskRec, Truth, ArchTruth,
    LiveTruth, DevTruth, SwapOwners, ClaimTruth, LiveOwns, TaskOwns, OneOwner, Owned, Unsent, Types,
    ArchOK, ArchRec, LiveOK, LiveRec, SweepOK, SweepRec, OtherOK, Terminal, Answered, NoRun, Runs
<1>1. ASSUME NEW i \in Items, Start(i) PROVE LiveOwns'
  BY <1>1 DEF Start, NoArchive, db, ram, net, actors, device, past
<1>2. ASSUME NEW outcome \in Terminal, PrintEnds(outcome) PROVE LiveOwns'
  BY <1>2 DEF PrintEnds, NoReport, db, ram, net, actors, device, past
<1>3. ASSUME PrinterForgets PROVE LiveOwns'
  BY <1>3 DEF PrinterForgets, db, ram, net, actors, device, past
<1>4. ASSUME NEW r \in Runs, PrinterSwaps(r) PROVE LiveOwns'
  BY <1>4 DEF PrinterSwaps, db, ram, net, actors, device, past
<1>5. ASSUME Accept PROVE LiveOwns'
  BY <1>5 DEF Accept, db, ram, net, actors, device, past
<1>6. ASSUME LiveDecide PROVE LiveOwns'
  BY <1>6 DEF LiveDecide, Holds, db, ram, net, actors, device, past
<1>7. ASSUME LiveClaim PROVE LiveOwns'
  <2>1. UNCHANGED <<commands, ended, task>>
    BY <1>7 DEF LiveClaim, past
  <2>2. ArchOK /\ LiveOK /\ LiveTruth
    BY DEF OnceInv, Types, SwapInv, Truth
  <2>3. live.outcome = "completed" /\ ended[live.run] = live.outcome
    BY <1>7 DEF LiveClaim
  <2> HIDE DEF OnceInv, Known, SwapInv, SwapTypes, TaskRec, Truth, ArchTruth, LiveTruth, DevTruth,
      SwapOwners, Types, ArchOK, ArchRec, LiveOK, LiveRec, SweepOK, SweepRec, OtherOK, Terminal,
      Answered, NoRun, Runs, ClaimTruth, LiveOwns, TaskOwns, OneOwner, Owned, Unsent
  <2>4. /\ live.pc = "claim" /\ live'.run = live.run /\ live'.outcome = live.outcome /\ live.run \in Runs
        /\ \/ UNCHANGED <<arch, sending>> /\ live'.pc \in {"gate", "hold"}
           \/ /\ arch[live.run].claim \in Unsent /\ arch'[live.run].claim = "attempted"
              /\ \A q \in Runs \ {live.run} : arch'[q] = arch[q]
              /\ sending' = sending \cup {live.run} /\ live'.pc = "send"
    BY <1>7, <2>2, LiveClaimWrites
  <2> QED BY <2>1, <2>3, <2>4 DEF SwapInv, SwapOwners, ClaimTruth, LiveOwns, TaskOwns, OneOwner, Owned, Unsent
<1>8. ASSUME LiveSend PROVE LiveOwns'
  BY <1>8 DEF LiveSend, db, ram, net, actors, device, past
<1>9. ASSUME NEW ok \in BOOLEAN, LiveAnswer(ok) PROVE LiveOwns'
  BY <1>9 DEF LiveAnswer, Finished, db, ram, net, actors, device, past
<1>10. ASSUME LiveError PROVE LiveOwns'
  BY <1>10 DEF LiveError, db, ram, net, actors, device, past
<1>11. ASSUME LiveHold PROVE LiveOwns'
  BY <1>11 DEF LiveHold, db, ram, net, actors, device, past
<1>12. ASSUME LiveGate PROVE LiveOwns'
  BY <1>12 DEF LiveGate, db, ram, net, actors, device, past
<1>13. ASSUME LiveFinalize PROVE LiveOwns'
  BY <1>13 DEF LiveFinalize, NoLive, db, ram, net, actors, device, past
<1>14. ASSUME LiveTidy PROVE LiveOwns'
  BY <1>14 DEF LiveTidy, NoLive, db, ram, net, actors, device, past
<1>15. ASSUME NEW s \in Sweepers, SweepBegin(s) PROVE LiveOwns'
  BY <1>15 DEF SweepBegin, NoSweep, Printing, db, ram, net, actors, device, past
<1>16. ASSUME NEW s \in Sweepers, SweepRepair(s) PROVE LiveOwns'
  BY <1>16 DEF SweepRepair, Printing, db, ram, net, actors, device, past
<1>17. ASSUME NEW s \in Sweepers, NEW r \in Runs, SweepRecover(s, r) PROVE LiveOwns'
  BY <1>17 DEF SweepRecover, db, ram, net, actors, device, past
<1>18. ASSUME NEW s \in Sweepers, NEW r \in Runs, SweepClose(s, r) PROVE LiveOwns'
  BY <1>18, SMTT(30) DEF SweepClose, Verdict, db, ram, net, actors, device, past
<1>19. ASSUME NEW s \in Sweepers, SweepGate(s) PROVE LiveOwns'
  BY <1>19 DEF SweepGate, db, ram, net, actors, device, past
<1>20. ASSUME NEW s \in Sweepers, SweepRow(s) PROVE LiveOwns'
  BY <1>20 DEF SweepRow, db, ram, net, actors, device, past
<1>21. ASSUME NEW s \in Sweepers, SweepEnd(s) PROVE LiveOwns'
  BY <1>21 DEF SweepEnd, NoSweep, db, ram, net, actors, device, past
<1>22. ASSUME NEW t \in Tasks, ResolveRead(t) PROVE LiveOwns'
  BY <1>22 DEF ResolveRead, NoTask, db, ram, net, actors, device, past
<1>23. ASSUME NEW t \in Tasks, ResolveClaim(t) PROVE LiveOwns'
  <2>1. UNCHANGED <<commands, ended, live>>
    BY <1>23 DEF ResolveClaim, past
  <2>2. ArchOK /\ SwapTypes /\ TaskOwns /\ ended[task[t].run] = "completed"
    BY <1>23 DEF ResolveClaim
  <2> HIDE DEF OnceInv, Known, SwapInv, SwapTypes, TaskRec, Truth, ArchTruth, LiveTruth, DevTruth,
      SwapOwners, Types, ArchOK, ArchRec, LiveOK, LiveRec, SweepOK, SweepRec, OtherOK, Terminal,
      Answered, NoRun, Runs, ClaimTruth, LiveOwns, TaskOwns, OneOwner, Owned, Unsent
  <2>3. /\ \A u \in Tasks \ {t} : task'[u] = task[u]
        /\ task[t].pc = "claim" /\ task[t].run \in Runs
        /\ \/ /\ UNCHANGED <<arch, sending>>
              /\ task'[t] = NoTask \/ (task'[t].pc = "hold" /\ task'[t].run = task[t].run /\ task'[t].claimed = task[t].claimed)
           \/ /\ arch[task[t].run].claim \in Unsent /\ arch'[task[t].run].claim = "attempted"
              /\ \A q \in Runs \ {task[t].run} : arch'[q] = arch[q]
              /\ sending' = sending \cup {task[t].run}
              /\ task'[t].pc = "send" /\ task'[t].run = task[t].run /\ task'[t].claimed = TRUE
    BY <1>23, <2>2, ResolveClaimWrites
  <2>4. live.pc \in {"send", "sent"} => live.run \in Runs
    BY DEF SwapInv, Truth, LiveTruth
  <2> QED BY <2>1, <2>2, <2>3, <2>4, NoTaskOK DEF SwapInv, SwapOwners, ClaimTruth, LiveOwns,
      TaskOwns, OneOwner, Owned, Unsent
<1>24. ASSUME NEW t \in Tasks, ResolveSend(t) PROVE LiveOwns'
  BY <1>24 DEF ResolveSend, SetTask, db, ram, net, actors, device, past
<1>25. ASSUME NEW t \in Tasks, NEW ok \in BOOLEAN, ResolveAnswer(t, ok) PROVE LiveOwns'
  BY <1>25 DEF ResolveAnswer, Finished, db, ram, net, actors, device, past
<1>26. ASSUME NEW t \in Tasks, ResolveError(t) PROVE LiveOwns'
  BY <1>26 DEF ResolveError, SetTask, db, ram, net, actors, device, past
<1>27. ASSUME NEW t \in Tasks, ResolveSettle(t) PROVE LiveOwns'
  BY <1>27 DEF ResolveSettle, Settle, NoTask, db, ram, net, actors, device, past
<1>28. ASSUME NEW t \in Tasks, ResolveHold(t) PROVE LiveOwns'
  BY <1>28 DEF ResolveHold, Settle, NoTask, db, ram, net, actors, device, past
<1>29. ASSUME NEW r \in Runs, NEW action \in {"clear", "repeat"}, AnswerPlate(r, action) PROVE LiveOwns'
  BY <1>29 DEF AnswerPlate, db, ram, net, actors, device, past
<1>30. ASSUME Resume PROVE LiveOwns'
  BY <1>30 DEF Resume, db, ram, net, actors, device, past
<1>31. ASSUME Drop PROVE LiveOwns'
  BY <1>31 DEF Drop, NoReport, db, ram, net, actors, device, past
<1>32. ASSUME Connect PROVE LiveOwns'
  BY <1>32 DEF Connect, db, ram, net, actors, device, past
<1>33. ASSUME Crash PROVE LiveOwns'
  BY <1>33 DEF Crash, NoLive, NoSweep, NoReport, NoTask, db, ram, net, actors, device, past
<1>34. ASSUME Restart PROVE LiveOwns'
  BY <1>34 DEF Restart, db, ram, net, actors, device, past
<1>35. CASE UNCHANGED vars
  BY <1>35 DEF vars, db, ram, net, actors, device, past
<1> HIDE DEF OnceInv, Known, SwapInv, SwapTypes, TaskRec, Truth, ArchTruth, LiveTruth, DevTruth,
    SwapOwners, ClaimTruth, LiveOwns, TaskOwns, OneOwner, Owned, Unsent, Types, ArchOK, ArchRec,
    LiveOK, LiveRec, SweepOK, SweepRec, OtherOK, Terminal, Answered, NoRun, Runs
<1> QED
  BY <1>1, <1>2, <1>3, <1>4, <1>5, <1>6, <1>7, <1>8, <1>9, <1>10, <1>11, <1>12, <1>13, <1>14, <1>15,
      <1>16, <1>17, <1>18,
     <1>19, <1>20, <1>21, <1>22, <1>23, <1>24, <1>25, <1>26, <1>27, <1>28, <1>29, <1>30, <1>31, <1>32, <1>33, <1>34, <1>35
     DEF Next, Printer, Live, Operator, Sweep, Resolve

LEMMA TaskOwnsHolds == OnceInv /\ SwapInv /\ [Next]_vars => TaskOwns'
<1> SUFFICES ASSUME OnceInv, SwapInv, [Next]_vars PROVE TaskOwns'
  OBVIOUS
<1> USE BoundsAssumption DEF OnceInv, Known, SwapInv, SwapTypes, TaskRec, Truth, ArchTruth,
    LiveTruth, DevTruth, SwapOwners, ClaimTruth, LiveOwns, TaskOwns, OneOwner, Owned, Unsent, Types,
    ArchOK, ArchRec, LiveOK, LiveRec, SweepOK, SweepRec, OtherOK, Terminal, Answered, NoRun, Runs
<1>1. ASSUME NEW i \in Items, Start(i) PROVE TaskOwns'
  BY <1>1 DEF Start, NoArchive, db, ram, net, actors, device, past
<1>2. ASSUME NEW outcome \in Terminal, PrintEnds(outcome) PROVE TaskOwns'
  <2>1. UNCHANGED <<commands, task, arch, sending>>
    BY <1>2 DEF PrintEnds, past, db, ram, actors
  <2>2. dev.run \in Runs /\ ended[dev.run] = "none"
    BY <1>2 DEF PrintEnds
  <2>3. \A q \in Runs : ended[q] # "none" => ended'[q] = ended[q]
    BY <1>2, <2>2 DEF PrintEnds
  <2> HIDE DEF OnceInv, Known, SwapInv, SwapTypes, TaskRec, Truth, ArchTruth, LiveTruth, DevTruth,
      SwapOwners, Types, ArchOK, ArchRec, LiveOK, LiveRec, SweepOK, SweepRec, OtherOK, Terminal,
      Answered, NoRun, Runs, ClaimTruth, LiveOwns, TaskOwns, OneOwner, Owned, Unsent
  <2> QED BY <2>1, <2>3 DEF SwapInv, SwapOwners, ClaimTruth, TaskOwns, Owned
<1>3. ASSUME PrinterForgets PROVE TaskOwns'
  BY <1>3 DEF PrinterForgets, db, ram, net, actors, device, past
<1>4. ASSUME NEW r \in Runs, PrinterSwaps(r) PROVE TaskOwns'
  BY <1>4 DEF PrinterSwaps, db, ram, net, actors, device, past
<1>5. ASSUME Accept PROVE TaskOwns'
  BY <1>5 DEF Accept, db, ram, net, actors, device, past
<1>6. ASSUME LiveDecide PROVE TaskOwns'
  BY <1>6 DEF LiveDecide, db, ram, net, actors, device, past
<1>7. ASSUME LiveClaim PROVE TaskOwns'
  <2>1. UNCHANGED <<commands, ended, task>>
    BY <1>7 DEF LiveClaim, past
  <2>2. ArchOK /\ LiveOK /\ LiveTruth
    BY DEF OnceInv, Types, SwapInv, Truth
  <2>3. live.outcome = "completed" /\ ended[live.run] = live.outcome
    BY <1>7 DEF LiveClaim
  <2> HIDE DEF OnceInv, Known, SwapInv, SwapTypes, TaskRec, Truth, ArchTruth, LiveTruth, DevTruth,
      SwapOwners, Types, ArchOK, ArchRec, LiveOK, LiveRec, SweepOK, SweepRec, OtherOK, Terminal,
      Answered, NoRun, Runs, ClaimTruth, LiveOwns, TaskOwns, OneOwner, Owned, Unsent
  <2>4. /\ live.pc = "claim" /\ live'.run = live.run /\ live'.outcome = live.outcome /\ live.run \in Runs
        /\ \/ UNCHANGED <<arch, sending>> /\ live'.pc \in {"gate", "hold"}
           \/ /\ arch[live.run].claim \in Unsent /\ arch'[live.run].claim = "attempted"
              /\ \A q \in Runs \ {live.run} : arch'[q] = arch[q]
              /\ sending' = sending \cup {live.run} /\ live'.pc = "send"
    BY <1>7, <2>2, LiveClaimWrites
  <2> QED BY <2>1, <2>3, <2>4 DEF SwapInv, SwapOwners, ClaimTruth, LiveOwns, TaskOwns, OneOwner, Owned, Unsent
<1>8. ASSUME LiveSend PROVE TaskOwns'
  BY <1>8 DEF LiveSend, db, ram, net, actors, device, past
<1>9. ASSUME NEW ok \in BOOLEAN, LiveAnswer(ok) PROVE TaskOwns'
  BY <1>9 DEF LiveAnswer, Finished, db, ram, net, actors, device, past
<1>10. ASSUME LiveError PROVE TaskOwns'
  BY <1>10 DEF LiveError, db, ram, net, actors, device, past
<1>11. ASSUME LiveHold PROVE TaskOwns'
  BY <1>11 DEF LiveHold, db, ram, net, actors, device, past
<1>12. ASSUME LiveGate PROVE TaskOwns'
  BY <1>12 DEF LiveGate, db, ram, net, actors, device, past
<1>13. ASSUME LiveFinalize PROVE TaskOwns'
  <2>1. UNCHANGED <<commands, ended, task, sending>>
    BY <1>13 DEF LiveFinalize, past, ram
  <2>2. ArchOK /\ LiveOK /\ Known
    BY DEF OnceInv, Types
  <2> HIDE DEF OnceInv, Known, SwapInv, SwapTypes, TaskRec, Truth, ArchTruth, LiveTruth, DevTruth,
      SwapOwners, Types, ArchOK, ArchRec, LiveOK, LiveRec, SweepOK, SweepRec, OtherOK, Terminal,
      Answered, NoRun, Runs, ClaimTruth, LiveOwns, TaskOwns, OneOwner, Owned, Unsent
  <2>3. \A q \in Runs : arch'[q].claim = arch[q].claim
    BY <1>13, <2>2, FinalizeWrites
  <2> QED BY <2>1, <2>3 DEF SwapInv, SwapOwners, ClaimTruth, TaskOwns, Owned
<1>14. ASSUME LiveTidy PROVE TaskOwns'
  BY <1>14 DEF LiveTidy, NoLive, db, ram, net, actors, device, past
<1>15. ASSUME NEW s \in Sweepers, SweepBegin(s) PROVE TaskOwns'
  BY <1>15 DEF SweepBegin, NoSweep, Printing, db, ram, net, actors, device, past
<1>16. ASSUME NEW s \in Sweepers, SweepRepair(s) PROVE TaskOwns'
  <2>1. UNCHANGED <<arch, commands, ended, task, sending>>
    BY <1>16 DEF SweepRepair, past, ram
  <2> HIDE DEF OnceInv, Known, SwapInv, SwapTypes, TaskRec, Truth, ArchTruth, LiveTruth, DevTruth,
      SwapOwners, Types, ArchOK, ArchRec, LiveOK, LiveRec, SweepOK, SweepRec, OtherOK, Terminal,
      Answered, NoRun, Runs, ClaimTruth, LiveOwns, TaskOwns, OneOwner, Owned, Unsent
  <2> QED BY <2>1 DEF SwapInv, SwapOwners, TaskOwns, Owned
<1>17. ASSUME NEW s \in Sweepers, NEW r \in Runs, SweepRecover(s, r) PROVE TaskOwns'
  BY <1>17, SMTT(30) DEF SweepRecover, db, ram, net, actors, device, past
<1>18. ASSUME NEW s \in Sweepers, NEW r \in Runs, SweepClose(s, r) PROVE TaskOwns'
  BY <1>18, SMTT(30), ZenonT(30) DEF SweepClose, Verdict, db, ram, net, actors, device, past
<1>19. ASSUME NEW s \in Sweepers, SweepGate(s) PROVE TaskOwns'
  BY <1>19 DEF SweepGate, db, ram, net, actors, device, past
<1>20. ASSUME NEW s \in Sweepers, SweepRow(s) PROVE TaskOwns'
  BY <1>20 DEF SweepRow, db, ram, net, actors, device, past
<1>21. ASSUME NEW s \in Sweepers, SweepEnd(s) PROVE TaskOwns'
  <2>1. UNCHANGED <<commands, ended, live, arch, sending>>
    BY <1>21 DEF SweepEnd, past, db, ram
  <2>2. SweepOK /\ SwapTypes
    BY DEF OnceInv, Types, SwapInv
  <2> HIDE DEF OnceInv, Known, SwapInv, SwapTypes, TaskRec, Truth, ArchTruth, LiveTruth, DevTruth,
      SwapOwners, Types, ArchOK, ArchRec, LiveOK, LiveRec, SweepOK, SweepRec, OtherOK, Terminal,
      Answered, NoRun, Runs, ClaimTruth, LiveOwns, TaskOwns, OneOwner, Owned, Unsent
  <2>3. /\ task' \in [Tasks -> TaskRec]
        /\ \A t \in Tasks : \/ task'[t] = task[t]
                            \/ (task'[t].pc = "read" /\ task'[t].run \in Runs /\ task'[t].claimed = FALSE)
    BY <1>21, <2>2, EndWrites
  <2> QED BY <2>1, <2>3 DEF SwapInv, SwapOwners, TaskOwns, OneOwner, Owned
<1>22. ASSUME NEW t \in Tasks, ResolveRead(t) PROVE TaskOwns'
  <2>1. UNCHANGED <<commands, ended, live, arch, sending>>
    BY <1>22 DEF ResolveRead, past, db, ram
  <2>2. SwapTypes /\ ArchTruth
    BY DEF SwapInv, Truth
  <2> HIDE DEF OnceInv, Known, SwapInv, SwapTypes, TaskRec, Truth, ArchTruth, LiveTruth, DevTruth,
      SwapOwners, Types, ArchOK, ArchRec, LiveOK, LiveRec, SweepOK, SweepRec, OtherOK, Terminal,
      Answered, NoRun, Runs, ClaimTruth, LiveOwns, TaskOwns, OneOwner, Owned, Unsent
  <2>3. /\ \A u \in Tasks \ {t} : task'[u] = task[u]
        /\ task[t].pc = "read" /\ task'[t].claimed = FALSE
        /\ task'[t].pc # "none" => /\ task'[t].run = task[t].run /\ task'[t].pc \in {"claim", "hold", "settle"}
                                   /\ task'[t].pc = "claim" => arch[task[t].run].status = "completed"
    BY <1>22, <2>2, ReadWrites
  <2> QED BY <2>1, <2>2, <2>3 DEF SwapInv, SwapOwners, TaskOwns, OneOwner, Owned, ArchTruth
<1>23. ASSUME NEW t \in Tasks, ResolveClaim(t) PROVE TaskOwns'
  <2>1. UNCHANGED <<commands, ended, live>>
    BY <1>23 DEF ResolveClaim, past
  <2>2. ArchOK /\ SwapTypes /\ TaskOwns /\ ended[task[t].run] = "completed"
    BY <1>23 DEF ResolveClaim
  <2> HIDE DEF OnceInv, Known, SwapInv, SwapTypes, TaskRec, Truth, ArchTruth, LiveTruth, DevTruth,
      SwapOwners, Types, ArchOK, ArchRec, LiveOK, LiveRec, SweepOK, SweepRec, OtherOK, Terminal,
      Answered, NoRun, Runs, ClaimTruth, LiveOwns, TaskOwns, OneOwner, Owned, Unsent
  <2>3. /\ \A u \in Tasks \ {t} : task'[u] = task[u]
        /\ task[t].pc = "claim" /\ task[t].run \in Runs
        /\ \/ /\ UNCHANGED <<arch, sending>>
              /\ task'[t] = NoTask \/ (task'[t].pc = "hold" /\ task'[t].run = task[t].run /\ task'[t].claimed = task[t].claimed)
           \/ /\ arch[task[t].run].claim \in Unsent /\ arch'[task[t].run].claim = "attempted"
              /\ \A q \in Runs \ {task[t].run} : arch'[q] = arch[q]
              /\ sending' = sending \cup {task[t].run}
              /\ task'[t].pc = "send" /\ task'[t].run = task[t].run /\ task'[t].claimed = TRUE
    BY <1>23, <2>2, ResolveClaimWrites
  <2>4. live.pc \in {"send", "sent"} => live.run \in Runs
    BY DEF SwapInv, Truth, LiveTruth
  <2> QED BY <2>1, <2>2, <2>3, <2>4, NoTaskOK DEF SwapInv, SwapOwners, ClaimTruth, LiveOwns,
      TaskOwns, OneOwner, Owned, Unsent
<1>24. ASSUME NEW t \in Tasks, ResolveSend(t) PROVE TaskOwns'
  BY <1>24 DEF ResolveSend, SetTask, db, ram, net, actors, device, past
<1>25. ASSUME NEW t \in Tasks, NEW ok \in BOOLEAN, ResolveAnswer(t, ok) PROVE TaskOwns'
  BY <1>25 DEF ResolveAnswer, Finished, db, ram, net, actors, device, past
<1>26. ASSUME NEW t \in Tasks, ResolveError(t) PROVE TaskOwns'
  BY <1>26 DEF ResolveError, SetTask, db, ram, net, actors, device, past
<1>27. ASSUME NEW t \in Tasks, ResolveSettle(t) PROVE TaskOwns'
  BY <1>27 DEF ResolveSettle, Settle, NoTask, db, ram, net, actors, device, past
<1>28. ASSUME NEW t \in Tasks, ResolveHold(t) PROVE TaskOwns'
  BY <1>28 DEF ResolveHold, Settle, NoTask, db, ram, net, actors, device, past
<1>29. ASSUME NEW r \in Runs, NEW action \in {"clear", "repeat"}, AnswerPlate(r, action) PROVE TaskOwns'
  BY <1>29 DEF AnswerPlate, db, ram, net, actors, device, past
<1>30. ASSUME Resume PROVE TaskOwns'
  BY <1>30 DEF Resume, db, ram, net, actors, device, past
<1>31. ASSUME Drop PROVE TaskOwns'
  BY <1>31 DEF Drop, NoReport, db, ram, net, actors, device, past
<1>32. ASSUME Connect PROVE TaskOwns'
  BY <1>32 DEF Connect, db, ram, net, actors, device, past
<1>33. ASSUME Crash PROVE TaskOwns'
  BY <1>33 DEF Crash, NoLive, NoSweep, NoReport, NoTask, db, ram, net, actors, device, past
<1>34. ASSUME Restart PROVE TaskOwns'
  BY <1>34 DEF Restart, db, ram, net, actors, device, past
<1>35. CASE UNCHANGED vars
  BY <1>35 DEF vars, db, ram, net, actors, device, past
<1> HIDE DEF OnceInv, Known, SwapInv, SwapTypes, TaskRec, Truth, ArchTruth, LiveTruth, DevTruth,
    SwapOwners, ClaimTruth, LiveOwns, TaskOwns, OneOwner, Owned, Unsent, Types, ArchOK, ArchRec,
    LiveOK, LiveRec, SweepOK, SweepRec, OtherOK, Terminal, Answered, NoRun, Runs
<1> QED
  BY <1>1, <1>2, <1>3, <1>4, <1>5, <1>6, <1>7, <1>8, <1>9, <1>10, <1>11, <1>12, <1>13, <1>14, <1>15,
      <1>16, <1>17, <1>18,
     <1>19, <1>20, <1>21, <1>22, <1>23, <1>24, <1>25, <1>26, <1>27, <1>28, <1>29, <1>30, <1>31, <1>32, <1>33, <1>34, <1>35
     DEF Next, Printer, Live, Operator, Sweep, Resolve

LEMMA OneOwnerHolds == OnceInv /\ SwapInv /\ [Next]_vars => OneOwner'
<1> SUFFICES ASSUME OnceInv, SwapInv, [Next]_vars PROVE OneOwner'
  OBVIOUS
<1> USE BoundsAssumption DEF OnceInv, Known, SwapInv, SwapTypes, TaskRec, Truth, ArchTruth,
    LiveTruth, DevTruth, SwapOwners, ClaimTruth, LiveOwns, TaskOwns, OneOwner, Owned, Unsent, Types,
    ArchOK, ArchRec, LiveOK, LiveRec, SweepOK, SweepRec, OtherOK, Terminal, Answered, NoRun, Runs
<1>1. ASSUME NEW i \in Items, Start(i) PROVE OneOwner'
  BY <1>1 DEF Start, NoArchive, db, ram, net, actors, device, past
<1>2. ASSUME NEW outcome \in Terminal, PrintEnds(outcome) PROVE OneOwner'
  BY <1>2 DEF PrintEnds, NoReport, db, ram, net, actors, device, past
<1>3. ASSUME PrinterForgets PROVE OneOwner'
  BY <1>3 DEF PrinterForgets, db, ram, net, actors, device, past
<1>4. ASSUME NEW r \in Runs, PrinterSwaps(r) PROVE OneOwner'
  BY <1>4 DEF PrinterSwaps, db, ram, net, actors, device, past
<1>5. ASSUME Accept PROVE OneOwner'
  BY <1>5 DEF Accept, db, ram, net, actors, device, past
<1>6. ASSUME LiveDecide PROVE OneOwner'
  BY <1>6 DEF LiveDecide, db, ram, net, actors, device, past
<1>7. ASSUME LiveClaim PROVE OneOwner'
  <2>1. UNCHANGED <<commands, ended, task>>
    BY <1>7 DEF LiveClaim, past
  <2>2. ArchOK /\ LiveOK /\ LiveTruth
    BY DEF OnceInv, Types, SwapInv, Truth
  <2>3. live.outcome = "completed" /\ ended[live.run] = live.outcome
    BY <1>7 DEF LiveClaim
  <2> HIDE DEF OnceInv, Known, SwapInv, SwapTypes, TaskRec, Truth, ArchTruth, LiveTruth, DevTruth,
      SwapOwners, Types, ArchOK, ArchRec, LiveOK, LiveRec, SweepOK, SweepRec, OtherOK, Terminal,
      Answered, NoRun, Runs, ClaimTruth, LiveOwns, TaskOwns, OneOwner, Owned, Unsent
  <2>4. /\ live.pc = "claim" /\ live'.run = live.run /\ live'.outcome = live.outcome /\ live.run \in Runs
        /\ \/ UNCHANGED <<arch, sending>> /\ live'.pc \in {"gate", "hold"}
           \/ /\ arch[live.run].claim \in Unsent /\ arch'[live.run].claim = "attempted"
              /\ \A q \in Runs \ {live.run} : arch'[q] = arch[q]
              /\ sending' = sending \cup {live.run} /\ live'.pc = "send"
    BY <1>7, <2>2, LiveClaimWrites
  <2> QED BY <2>1, <2>3, <2>4 DEF SwapInv, SwapOwners, ClaimTruth, LiveOwns, TaskOwns, OneOwner, Owned, Unsent
<1>8. ASSUME LiveSend PROVE OneOwner'
  BY <1>8 DEF LiveSend, db, ram, net, actors, device, past
<1>9. ASSUME NEW ok \in BOOLEAN, LiveAnswer(ok) PROVE OneOwner'
  BY <1>9 DEF LiveAnswer, Finished, db, ram, net, actors, device, past
<1>10. ASSUME LiveError PROVE OneOwner'
  BY <1>10 DEF LiveError, db, ram, net, actors, device, past
<1>11. ASSUME LiveHold PROVE OneOwner'
  BY <1>11 DEF LiveHold, db, ram, net, actors, device, past
<1>12. ASSUME LiveGate PROVE OneOwner'
  BY <1>12 DEF LiveGate, db, ram, net, actors, device, past
<1>13. ASSUME LiveFinalize PROVE OneOwner'
  BY <1>13, SMTT(30) DEF LiveFinalize, NoLive, db, ram, net, actors, device, past
<1>14. ASSUME LiveTidy PROVE OneOwner'
  BY <1>14 DEF LiveTidy, NoLive, db, ram, net, actors, device, past
<1>15. ASSUME NEW s \in Sweepers, SweepBegin(s) PROVE OneOwner'
  BY <1>15 DEF SweepBegin, NoSweep, Printing, db, ram, net, actors, device, past
<1>16. ASSUME NEW s \in Sweepers, SweepRepair(s) PROVE OneOwner'
  <2>1. UNCHANGED <<live, task>>
    BY <1>16 DEF SweepRepair
  <2> QED BY <2>1
<1>17. ASSUME NEW s \in Sweepers, NEW r \in Runs, SweepRecover(s, r) PROVE OneOwner'
  BY <1>17 DEF SweepRecover, db, ram, net, actors, device, past
<1>18. ASSUME NEW s \in Sweepers, NEW r \in Runs, SweepClose(s, r) PROVE OneOwner'
  BY <1>18 DEF SweepClose, Verdict, db, ram, net, actors, device, past
<1>19. ASSUME NEW s \in Sweepers, SweepGate(s) PROVE OneOwner'
  BY <1>19 DEF SweepGate, db, ram, net, actors, device, past
<1>20. ASSUME NEW s \in Sweepers, SweepRow(s) PROVE OneOwner'
  BY <1>20 DEF SweepRow, db, ram, net, actors, device, past
<1>21. ASSUME NEW s \in Sweepers, SweepEnd(s) PROVE OneOwner'
  <2>1. UNCHANGED <<commands, ended, live, arch, sending>>
    BY <1>21 DEF SweepEnd, past, db, ram
  <2>2. SweepOK /\ SwapTypes
    BY DEF OnceInv, Types, SwapInv
  <2> HIDE DEF OnceInv, Known, SwapInv, SwapTypes, TaskRec, Truth, ArchTruth, LiveTruth, DevTruth,
      SwapOwners, Types, ArchOK, ArchRec, LiveOK, LiveRec, SweepOK, SweepRec, OtherOK, Terminal,
      Answered, NoRun, Runs, ClaimTruth, LiveOwns, TaskOwns, OneOwner, Owned, Unsent
  <2>3. /\ task' \in [Tasks -> TaskRec]
        /\ \A t \in Tasks : \/ task'[t] = task[t]
                            \/ (task'[t].pc = "read" /\ task'[t].run \in Runs /\ task'[t].claimed = FALSE)
    BY <1>21, <2>2, EndWrites
  <2> QED BY <2>1, <2>3 DEF SwapInv, SwapOwners, TaskOwns, OneOwner, Owned
<1>22. ASSUME NEW t \in Tasks, ResolveRead(t) PROVE OneOwner'
  <2>1. UNCHANGED <<commands, ended, live, arch, sending>>
    BY <1>22 DEF ResolveRead, past, db, ram
  <2>2. SwapTypes /\ ArchTruth
    BY DEF SwapInv, Truth
  <2> HIDE DEF OnceInv, Known, SwapInv, SwapTypes, TaskRec, Truth, ArchTruth, LiveTruth, DevTruth,
      SwapOwners, Types, ArchOK, ArchRec, LiveOK, LiveRec, SweepOK, SweepRec, OtherOK, Terminal,
      Answered, NoRun, Runs, ClaimTruth, LiveOwns, TaskOwns, OneOwner, Owned, Unsent
  <2>3. /\ \A u \in Tasks \ {t} : task'[u] = task[u]
        /\ task[t].pc = "read" /\ task'[t].claimed = FALSE
        /\ task'[t].pc # "none" => /\ task'[t].run = task[t].run /\ task'[t].pc \in {"claim", "hold", "settle"}
                                   /\ task'[t].pc = "claim" => arch[task[t].run].status = "completed"
    BY <1>22, <2>2, ReadWrites
  <2> QED BY <2>1, <2>2, <2>3 DEF SwapInv, SwapOwners, TaskOwns, OneOwner, Owned, ArchTruth
<1>23. ASSUME NEW t \in Tasks, ResolveClaim(t) PROVE OneOwner'
  <2>1. UNCHANGED <<commands, ended, live>>
    BY <1>23 DEF ResolveClaim, past
  <2>2. ArchOK /\ SwapTypes /\ TaskOwns /\ ended[task[t].run] = "completed"
    BY <1>23 DEF ResolveClaim
  <2> HIDE DEF OnceInv, Known, SwapInv, SwapTypes, TaskRec, Truth, ArchTruth, LiveTruth, DevTruth,
      SwapOwners, Types, ArchOK, ArchRec, LiveOK, LiveRec, SweepOK, SweepRec, OtherOK, Terminal,
      Answered, NoRun, Runs, ClaimTruth, LiveOwns, TaskOwns, OneOwner, Owned, Unsent
  <2>3. /\ \A u \in Tasks \ {t} : task'[u] = task[u]
        /\ task[t].pc = "claim" /\ task[t].run \in Runs
        /\ \/ /\ UNCHANGED <<arch, sending>>
              /\ task'[t] = NoTask \/ (task'[t].pc = "hold" /\ task'[t].run = task[t].run /\ task'[t].claimed = task[t].claimed)
           \/ /\ arch[task[t].run].claim \in Unsent /\ arch'[task[t].run].claim = "attempted"
              /\ \A q \in Runs \ {task[t].run} : arch'[q] = arch[q]
              /\ sending' = sending \cup {task[t].run}
              /\ task'[t].pc = "send" /\ task'[t].run = task[t].run /\ task'[t].claimed = TRUE
    BY <1>23, <2>2, ResolveClaimWrites
  <2>4. live.pc \in {"send", "sent"} => live.run \in Runs
    BY DEF SwapInv, Truth, LiveTruth
  <2> QED BY <2>1, <2>2, <2>3, <2>4, NoTaskOK DEF SwapInv, SwapOwners, ClaimTruth, LiveOwns,
      TaskOwns, OneOwner, Owned, Unsent
<1>24. ASSUME NEW t \in Tasks, ResolveSend(t) PROVE OneOwner'
  BY <1>24, SMTT(30) DEF ResolveSend, SetTask, db, ram, net, actors, device, past
<1>25. ASSUME NEW t \in Tasks, NEW ok \in BOOLEAN, ResolveAnswer(t, ok) PROVE OneOwner'
  BY <1>25, SMTT(30) DEF ResolveAnswer, Finished, db, ram, net, actors, device, past
<1>26. ASSUME NEW t \in Tasks, ResolveError(t) PROVE OneOwner'
  BY <1>26 DEF ResolveError, SetTask, db, ram, net, actors, device, past
<1>27. ASSUME NEW t \in Tasks, ResolveSettle(t) PROVE OneOwner'
  BY <1>27 DEF ResolveSettle, Settle, NoTask, db, ram, net, actors, device, past
<1>28. ASSUME NEW t \in Tasks, ResolveHold(t) PROVE OneOwner'
  BY <1>28 DEF ResolveHold, Settle, NoTask, db, ram, net, actors, device, past
<1>29. ASSUME NEW r \in Runs, NEW action \in {"clear", "repeat"}, AnswerPlate(r, action) PROVE OneOwner'
  BY <1>29 DEF AnswerPlate, db, ram, net, actors, device, past
<1>30. ASSUME Resume PROVE OneOwner'
  BY <1>30 DEF Resume, db, ram, net, actors, device, past
<1>31. ASSUME Drop PROVE OneOwner'
  BY <1>31 DEF Drop, NoReport, db, ram, net, actors, device, past
<1>32. ASSUME Connect PROVE OneOwner'
  BY <1>32 DEF Connect, db, ram, net, actors, device, past
<1>33. ASSUME Crash PROVE OneOwner'
  BY <1>33 DEF Crash, NoLive, NoSweep, NoReport, NoTask, db, ram, net, actors, device, past
<1>34. ASSUME Restart PROVE OneOwner'
  BY <1>34 DEF Restart, db, ram, net, actors, device, past
<1>35. CASE UNCHANGED vars
  BY <1>35 DEF vars, db, ram, net, actors, device, past
<1> HIDE DEF OnceInv, Known, SwapInv, SwapTypes, TaskRec, Truth, ArchTruth, LiveTruth, DevTruth,
    SwapOwners, ClaimTruth, LiveOwns, TaskOwns, OneOwner, Owned, Unsent, Types, ArchOK, ArchRec,
    LiveOK, LiveRec, SweepOK, SweepRec, OtherOK, Terminal, Answered, NoRun, Runs
<1> QED
  BY <1>1, <1>2, <1>3, <1>4, <1>5, <1>6, <1>7, <1>8, <1>9, <1>10, <1>11, <1>12, <1>13, <1>14, <1>15,
      <1>16, <1>17, <1>18,
     <1>19, <1>20, <1>21, <1>22, <1>23, <1>24, <1>25, <1>26, <1>27, <1>28, <1>29, <1>30, <1>31, <1>32, <1>33, <1>34, <1>35
     DEF Next, Printer, Live, Operator, Sweep, Resolve

-----------------------------------------------------------------------------
(* Where the swaps move.                                                    *)

(* Nothing TableSwap sees of this run's claim changes. *)
Same(r) ==
    \/ arch'[r].claim = arch[r].claim /\ (r \in sending' <=> r \in sending)
    \/ arch[r].claim \in Unsent /\ arch'[r].claim \in Unsent
    \/ arch[r].claim \in Answered /\ arch'[r].claim \in Answered

Idle == UNCHANGED <<commands, ended>> /\ \A q \in Runs : Same(q)

Ends ==
    /\ UNCHANGED commands /\ \A q \in Runs : Same(q)
    /\ \E r \in Runs, o \in Terminal : ended[r] = "none" /\ ended' = [ended EXCEPT ![r] = o]

Intends(r) ==
    /\ UNCHANGED <<commands, ended>> /\ \A q \in Runs \ {r} : Same(q)
    /\ ended[r] = "completed" /\ arch[r].claim \in Unsent /\ Owned(r)'

Sends(r) ==
    /\ UNCHANGED ended /\ \A q \in Runs : Same(q)
    /\ Owned(r) /\ commands[r] = 0 /\ commands' = [commands EXCEPT ![r] = @ + 1]

Answers(r) ==
    /\ UNCHANGED <<commands, ended>> /\ \A q \in Runs \ {r} : Same(q)
    /\ Owned(r) /\ arch'[r].claim \in Answered

Abandons ==
    /\ UNCHANGED <<commands, ended>>
    /\ \A q \in Runs : Same(q) \/ (Owned(q) /\ arch'[q].claim = "attempted" /\ q \notin sending')

Effect ==
    \/ Idle \/ Ends \/ Abandons
    \/ \E r \in Runs : Intends(r) \/ Sends(r) \/ Answers(r)

LEMMA SwapEffects == OnceInv /\ SwapInv /\ [Next]_vars => Effect
<1> SUFFICES ASSUME OnceInv, SwapInv, [Next]_vars PROVE Effect
  OBVIOUS
<1> USE BoundsAssumption DEF OnceInv, Known, SwapInv, SwapTypes, TaskRec, Truth, ArchTruth,
    LiveTruth, DevTruth, SwapOwners, ClaimTruth, LiveOwns, TaskOwns, OneOwner, Owned, Unsent, Types,
    ArchOK, ArchRec, LiveOK, LiveRec, SweepOK, SweepRec, OtherOK, Terminal, Answered, NoRun, Runs
<1>1. ASSUME NEW i \in Items, Start(i) PROVE Effect
  <2>1. Idle
    BY <1>1 DEF Start, NoArchive, db, ram, net, actors, device, past, Idle, Same
  <2> QED BY <2>1 DEF Effect
<1>2. ASSUME NEW outcome \in Terminal, PrintEnds(outcome) PROVE Effect
  <2>1. UNCHANGED <<commands, arch, sending>>
    BY <1>2 DEF PrintEnds, past, db, ram
  <2>2. dev.run \in Runs /\ ended[dev.run] = "none" /\ ended' = [ended EXCEPT ![dev.run] = outcome]
    BY <1>2 DEF PrintEnds
  <2> HIDE DEF OnceInv, Known, SwapInv, SwapTypes, TaskRec, Truth, ArchTruth, LiveTruth, DevTruth,
      SwapOwners, Types, ArchOK, ArchRec, LiveOK, LiveRec, SweepOK, SweepRec, OtherOK, Terminal,
      Answered, NoRun, Runs, ClaimTruth, LiveOwns, TaskOwns, OneOwner, Owned, Unsent
  <2> QED BY <1>2, <2>1, <2>2 DEF Ends, Same, Effect
<1>3. ASSUME PrinterForgets PROVE Effect
  <2>1. Idle
    BY <1>3 DEF PrinterForgets, db, ram, net, actors, device, past, Idle, Same
  <2> QED BY <2>1 DEF Effect
<1>4. ASSUME NEW r \in Runs, PrinterSwaps(r) PROVE Effect
  <2>1. Idle
    BY <1>4 DEF PrinterSwaps, db, ram, net, actors, device, past, Idle, Same
  <2> QED BY <2>1 DEF Effect
<1>5. ASSUME Accept PROVE Effect
  <2>1. Idle
    BY <1>5 DEF Accept, db, ram, net, actors, device, past, Idle, Same
  <2> QED BY <2>1 DEF Effect
<1>6. ASSUME LiveDecide PROVE Effect
  <2>1. Idle
    BY <1>6 DEF LiveDecide, db, ram, net, actors, device, past, Idle, Same
  <2> QED BY <2>1 DEF Effect
<1>7. ASSUME LiveClaim PROVE Effect
  <2>1. UNCHANGED <<commands, ended>>
    BY <1>7 DEF LiveClaim, past
  <2>2. ArchOK /\ LiveOK /\ LiveTruth
    OBVIOUS
  <2>3. live.outcome = "completed" /\ ended[live.run] = live.outcome
    BY <1>7 DEF LiveClaim
  <2> HIDE DEF OnceInv, Known, SwapInv, SwapTypes, TaskRec, Truth, ArchTruth, LiveTruth, DevTruth,
      SwapOwners, Types, ArchOK, ArchRec, LiveOK, LiveRec, SweepOK, SweepRec, OtherOK, Terminal,
      Answered, NoRun, Runs, ClaimTruth, LiveOwns, TaskOwns, OneOwner, Owned, Unsent
  <2>4. /\ live.run \in Runs
        /\ \/ UNCHANGED <<arch, sending>>
           \/ /\ arch[live.run].claim \in Unsent /\ arch'[live.run].claim = "attempted"
              /\ \A q \in Runs \ {live.run} : arch'[q] = arch[q]
              /\ sending' = sending \cup {live.run}
    BY <1>7, <2>2, LiveClaimWrites
  <2>5. CASE UNCHANGED <<arch, sending>>
    BY <2>1, <2>5 DEF Idle, Same, Effect
  <2>6. CASE ~UNCHANGED <<arch, sending>>
    BY <2>1, <2>3, <2>4, <2>6 DEF Intends, Owned, Same, Effect
  <2> QED BY <2>5, <2>6
<1>8. ASSUME LiveSend PROVE Effect
  <2>1. UNCHANGED <<arch, sending, ended>> /\ commands' = [commands EXCEPT ![live.run] = @ + 1]
    BY <1>8 DEF LiveSend, db, ram
  <2>2. live.run \in Runs /\ Owned(live.run) /\ commands[live.run] = 0
    BY <1>8 DEF LiveSend
  <2> HIDE DEF OnceInv, Known, SwapInv, SwapTypes, TaskRec, Truth, ArchTruth, LiveTruth, DevTruth,
      SwapOwners, Types, ArchOK, ArchRec, LiveOK, LiveRec, SweepOK, SweepRec, OtherOK, Terminal,
      Answered, NoRun, Runs, ClaimTruth, LiveOwns, TaskOwns, OneOwner, Owned, Unsent
  <2> QED BY <2>1, <2>2 DEF Sends, Same, Effect
<1>9. ASSUME NEW ok \in BOOLEAN, LiveAnswer(ok) PROVE Effect
  <2>1. UNCHANGED <<commands, ended>> /\ sending' = sending \ {live.run}
    BY <1>9 DEF LiveAnswer, past
  <2>2. live.run \in Runs /\ Owned(live.run)
    BY <1>9 DEF LiveAnswer
  <2>3. /\ \A q \in Runs \ {live.run} : arch'[q] = arch[q]
        /\ arch'[live.run].claim \in Answered
    BY <1>9, <2>2 DEF LiveAnswer, Finished
  <2> HIDE DEF OnceInv, Known, SwapInv, SwapTypes, TaskRec, Truth, ArchTruth, LiveTruth, DevTruth,
      SwapOwners, Types, ArchOK, ArchRec, LiveOK, LiveRec, SweepOK, SweepRec, OtherOK, Terminal,
      Answered, NoRun, Runs, ClaimTruth, LiveOwns, TaskOwns, OneOwner, Owned, Unsent
  <2> QED BY <2>1, <2>2, <2>3 DEF Answers, Same, Effect
<1>10. ASSUME LiveError PROVE Effect
  <2>1. UNCHANGED <<commands, ended, arch>>
    BY <1>10 DEF LiveError, past, db
  <2>2. sending' = sending \/ (sending' = sending \ {live.run} /\ Owned(live.run))
    BY <1>10 DEF LiveError
  <2> HIDE DEF OnceInv, Known, SwapInv, SwapTypes, TaskRec, Truth, ArchTruth, LiveTruth, DevTruth,
      SwapOwners, Types, ArchOK, ArchRec, LiveOK, LiveRec, SweepOK, SweepRec, OtherOK, Terminal,
      Answered, NoRun, Runs, ClaimTruth, LiveOwns, TaskOwns, OneOwner, Owned, Unsent
  <2> QED BY <2>1, <2>2 DEF Abandons, Same, Effect, Owned
<1>11. ASSUME LiveHold PROVE Effect
  <2>1. Idle
    BY <1>11 DEF LiveHold, db, ram, net, actors, device, past, Idle, Same
  <2> QED BY <2>1 DEF Effect
<1>12. ASSUME LiveGate PROVE Effect
  <2>1. Idle
    BY <1>12 DEF LiveGate, db, ram, net, actors, device, past, Idle, Same
  <2> QED BY <2>1 DEF Effect
<1>13. ASSUME LiveFinalize PROVE Effect
  <2>1. UNCHANGED <<commands, ended, sending>>
    BY <1>13 DEF LiveFinalize, past, ram
  <2>2. ArchOK /\ LiveOK /\ Known
    OBVIOUS
  <2> HIDE DEF OnceInv, Known, SwapInv, SwapTypes, TaskRec, Truth, ArchTruth, LiveTruth, DevTruth,
      SwapOwners, Types, ArchOK, ArchRec, LiveOK, LiveRec, SweepOK, SweepRec, OtherOK, Terminal,
      Answered, NoRun, Runs, ClaimTruth, LiveOwns, TaskOwns, OneOwner, Owned, Unsent
  <2>3. \A q \in Runs : arch'[q].claim = arch[q].claim
    BY <1>13, <2>2, FinalizeWrites
  <2> QED BY <2>1, <2>3 DEF Idle, Same, Effect
<1>14. ASSUME LiveTidy PROVE Effect
  <2>1. Idle
    BY <1>14 DEF LiveTidy, NoLive, db, ram, net, actors, device, past, Idle, Same
  <2> QED BY <2>1 DEF Effect
<1>15. ASSUME NEW s \in Sweepers, SweepBegin(s) PROVE Effect
  <2>1. Idle
    BY <1>15 DEF SweepBegin, NoSweep, Printing, db, ram, net, actors, device, past, Idle, Same
  <2> QED BY <2>1 DEF Effect
<1>16. ASSUME NEW s \in Sweepers, SweepRepair(s) PROVE Effect
  <2>1. Idle
    BY <1>16 DEF SweepRepair, Printing, db, ram, net, actors, device, past, Idle, Same
  <2> QED BY <2>1 DEF Effect
<1>17. ASSUME NEW s \in Sweepers, NEW r \in Runs, SweepRecover(s, r) PROVE Effect
  <2>1. UNCHANGED <<commands, ended, sending>>
    BY <1>17 DEF SweepRecover, past, ram
  <2>2. \A q \in Runs : arch'[q].claim = arch[q].claim
    BY <1>17, SMTT(30) DEF SweepRecover
  <2> HIDE DEF OnceInv, Known, SwapInv, SwapTypes, TaskRec, Truth, ArchTruth, LiveTruth, DevTruth,
      SwapOwners, Types, ArchOK, ArchRec, LiveOK, LiveRec, SweepOK, SweepRec, OtherOK, Terminal,
      Answered, NoRun, Runs, ClaimTruth, LiveOwns, TaskOwns, OneOwner, Owned, Unsent
  <2> QED BY <2>1, <2>2 DEF Idle, Same, Effect
<1>18. ASSUME NEW s \in Sweepers, NEW r \in Runs, SweepClose(s, r) PROVE Effect
  <2>1. UNCHANGED <<commands, ended, sending>>
    BY <1>18 DEF SweepClose, past, ram
  <2>2. ArchOK /\ SweepOK /\ SweepTruth
    OBVIOUS
  <2> HIDE DEF OnceInv, Known, SwapInv, SwapTypes, TaskRec, Truth, ArchTruth, LiveTruth, DevTruth,
      SwapOwners, Types, ArchOK, ArchRec, LiveOK, LiveRec, SweepOK, SweepRec, OtherOK, Terminal,
      Answered, NoRun, Runs, ClaimTruth, LiveOwns, TaskOwns, OneOwner, Owned, Unsent
  <2>3. /\ \A q \in Runs \ {r} : arch'[q] = arch[q]
        /\ arch'[r].claim = arch[r].claim \/ (arch[r].claim = "none" /\ arch'[r].claim = "owed")
    BY <1>18, <2>2, CloseWrites
  <2> QED BY <2>1, <2>3 DEF Idle, Same, Effect, Unsent
<1>19. ASSUME NEW s \in Sweepers, SweepGate(s) PROVE Effect
  <2>1. Idle
    BY <1>19 DEF SweepGate, db, ram, net, actors, device, past, Idle, Same
  <2> QED BY <2>1 DEF Effect
<1>20. ASSUME NEW s \in Sweepers, SweepRow(s) PROVE Effect
  <2>1. Idle
    BY <1>20 DEF SweepRow, db, ram, net, actors, device, past, Idle, Same
  <2> QED BY <2>1 DEF Effect
<1>21. ASSUME NEW s \in Sweepers, SweepEnd(s) PROVE Effect
  <2>1. Idle
    BY <1>21 DEF SweepEnd, NoSweep, db, ram, net, actors, device, past, Idle, Same
  <2> QED BY <2>1 DEF Effect
<1>22. ASSUME NEW t \in Tasks, ResolveRead(t) PROVE Effect
  <2>1. Idle
    BY <1>22 DEF ResolveRead, NoTask, db, ram, net, actors, device, past, Idle, Same
  <2> QED BY <2>1 DEF Effect
<1>23. ASSUME NEW t \in Tasks, ResolveClaim(t) PROVE Effect
  <2>1. UNCHANGED <<commands, ended>>
    BY <1>23 DEF ResolveClaim, past
  <2>2. ArchOK /\ SwapTypes /\ TaskOwns /\ ended[task[t].run] = "completed"
    BY <1>23 DEF ResolveClaim
  <2> HIDE DEF OnceInv, Known, SwapInv, SwapTypes, TaskRec, Truth, ArchTruth, LiveTruth, DevTruth,
      SwapOwners, Types, ArchOK, ArchRec, LiveOK, LiveRec, SweepOK, SweepRec, OtherOK, Terminal,
      Answered, NoRun, Runs, ClaimTruth, LiveOwns, TaskOwns, OneOwner, Owned, Unsent
  <2>4. /\ task[t].run \in Runs
        /\ \/ UNCHANGED <<arch, sending>>
           \/ /\ arch[task[t].run].claim \in Unsent /\ arch'[task[t].run].claim = "attempted"
              /\ \A q \in Runs \ {task[t].run} : arch'[q] = arch[q]
              /\ sending' = sending \cup {task[t].run}
    BY <1>23, <2>2, ResolveClaimWrites
  <2>5. CASE UNCHANGED <<arch, sending>>
    BY <2>1, <2>5 DEF Idle, Same, Effect
  <2>6. CASE ~UNCHANGED <<arch, sending>>
    BY <2>1, <2>2, <2>4, <2>6 DEF Intends, Owned, Same, Effect
  <2> QED BY <2>5, <2>6
<1>24. ASSUME NEW t \in Tasks, ResolveSend(t) PROVE Effect
  <2>1. UNCHANGED <<arch, sending, ended>> /\ commands' = [commands EXCEPT ![task[t].run] = @ + 1]
    BY <1>24 DEF ResolveSend, db, ram
  <2>2. task[t].run \in Runs /\ Owned(task[t].run) /\ commands[task[t].run] = 0
    BY <1>24 DEF ResolveSend
  <2> HIDE DEF OnceInv, Known, SwapInv, SwapTypes, TaskRec, Truth, ArchTruth, LiveTruth, DevTruth,
      SwapOwners, Types, ArchOK, ArchRec, LiveOK, LiveRec, SweepOK, SweepRec, OtherOK, Terminal,
      Answered, NoRun, Runs, ClaimTruth, LiveOwns, TaskOwns, OneOwner, Owned, Unsent
  <2> QED BY <2>1, <2>2 DEF Sends, Same, Effect
<1>25. ASSUME NEW t \in Tasks, NEW ok \in BOOLEAN, ResolveAnswer(t, ok) PROVE Effect
  <2>1. UNCHANGED <<commands, ended, sending>>
    BY <1>25 DEF ResolveAnswer, past, ram
  <2>2. task[t].run \in Runs /\ Owned(task[t].run)
    BY <1>25 DEF ResolveAnswer
  <2>3. /\ \A q \in Runs \ {task[t].run} : arch'[q] = arch[q]
        /\ arch'[task[t].run].claim \in Answered
    BY <1>25, <2>2 DEF ResolveAnswer, Finished
  <2> HIDE DEF OnceInv, Known, SwapInv, SwapTypes, TaskRec, Truth, ArchTruth, LiveTruth, DevTruth,
      SwapOwners, Types, ArchOK, ArchRec, LiveOK, LiveRec, SweepOK, SweepRec, OtherOK, Terminal,
      Answered, NoRun, Runs, ClaimTruth, LiveOwns, TaskOwns, OneOwner, Owned, Unsent
  <2> QED BY <2>1, <2>2, <2>3 DEF Answers, Same, Effect
<1>26. ASSUME NEW t \in Tasks, ResolveError(t) PROVE Effect
  <2>1. Idle
    BY <1>26 DEF ResolveError, SetTask, db, ram, net, actors, device, past, Idle, Same
  <2> QED BY <2>1 DEF Effect
<1>27. ASSUME NEW t \in Tasks, ResolveSettle(t) PROVE Effect
  <2>0. \A q \in Runs : arch[q].claim \in Unsent \/ arch[q].claim \in Answered \/ arch[q].claim = "attempted"
    OBVIOUS
  <2>1. UNCHANGED <<commands, ended>>
    BY <1>27 DEF ResolveSettle, past
  <2>2. \A q \in Runs : arch'[q].claim = arch[q].claim
    BY <1>27 DEF ResolveSettle
  <2>3. sending' = sending \/ (/\ sending' = sending \ {task[t].run} /\ task[t].run \in Runs
                              /\ arch[task[t].run].claim \notin Unsent)
    BY <1>27 DEF ResolveSettle
  <2> HIDE DEF OnceInv, Known, SwapInv, SwapTypes, TaskRec, Truth, ArchTruth, LiveTruth, DevTruth,
      SwapOwners, Types, ArchOK, ArchRec, LiveOK, LiveRec, SweepOK, SweepRec, OtherOK, Terminal,
      Answered, NoRun, Runs, ClaimTruth, LiveOwns, TaskOwns, OneOwner, Owned, Unsent
  <2> QED BY <2>0, <2>1, <2>2, <2>3 DEF Abandons, Same, Effect, Owned
<1>28. ASSUME NEW t \in Tasks, ResolveHold(t) PROVE Effect
  <2>0. \A q \in Runs : arch[q].claim \in Unsent \/ arch[q].claim \in Answered \/ arch[q].claim = "attempted"
    OBVIOUS
  <2>1. UNCHANGED <<commands, ended>>
    BY <1>28 DEF ResolveHold, past
  <2>2. \A q \in Runs : arch'[q].claim = arch[q].claim
    BY <1>28 DEF ResolveHold
  <2>3. sending' = sending \/ (/\ sending' = sending \ {task[t].run} /\ task[t].run \in Runs
                              /\ arch[task[t].run].claim \notin Unsent)
    BY <1>28 DEF ResolveHold
  <2> HIDE DEF OnceInv, Known, SwapInv, SwapTypes, TaskRec, Truth, ArchTruth, LiveTruth, DevTruth,
      SwapOwners, Types, ArchOK, ArchRec, LiveOK, LiveRec, SweepOK, SweepRec, OtherOK, Terminal,
      Answered, NoRun, Runs, ClaimTruth, LiveOwns, TaskOwns, OneOwner, Owned, Unsent
  <2> QED BY <2>0, <2>1, <2>2, <2>3 DEF Abandons, Same, Effect, Owned
<1>29. ASSUME NEW r \in Runs, NEW action \in {"clear", "repeat"}, AnswerPlate(r, action) PROVE Effect
  <2>1. Idle
    BY <1>29 DEF AnswerPlate, db, ram, net, actors, device, past, Idle, Same
  <2> QED BY <2>1 DEF Effect
<1>30. ASSUME Resume PROVE Effect
  <2>1. Idle
    BY <1>30 DEF Resume, db, ram, net, actors, device, past, Idle, Same
  <2> QED BY <2>1 DEF Effect
<1>31. ASSUME Drop PROVE Effect
  <2>1. Idle
    BY <1>31 DEF Drop, NoReport, db, ram, net, actors, device, past, Idle, Same
  <2> QED BY <2>1 DEF Effect
<1>32. ASSUME Connect PROVE Effect
  <2>1. Idle
    BY <1>32 DEF Connect, db, ram, net, actors, device, past, Idle, Same
  <2> QED BY <2>1 DEF Effect
<1>33. ASSUME Crash PROVE Effect
  <2>0. \A q \in Runs : arch[q].claim \in Unsent \/ arch[q].claim \in Answered \/ arch[q].claim = "attempted"
    OBVIOUS
  <2>1. UNCHANGED <<commands, ended, arch>> /\ sending' = {}
    BY <1>33 DEF Crash, past, db
  <2> HIDE DEF OnceInv, Known, SwapInv, SwapTypes, TaskRec, Truth, ArchTruth, LiveTruth, DevTruth,
      SwapOwners, Types, ArchOK, ArchRec, LiveOK, LiveRec, SweepOK, SweepRec, OtherOK, Terminal,
      Answered, NoRun, Runs, ClaimTruth, LiveOwns, TaskOwns, OneOwner, Owned, Unsent
  <2> QED BY <2>0, <2>1 DEF Abandons, Same, Effect, Owned
<1>34. ASSUME Restart PROVE Effect
  <2>1. Idle
    BY <1>34 DEF Restart, db, ram, net, actors, device, past, Idle, Same
  <2> QED BY <2>1 DEF Effect
<1>35. CASE UNCHANGED vars
  <2>1. Idle
    BY <1>35 DEF vars, db, ram, net, actors, device, past, Idle, Same
  <2> QED BY <2>1 DEF Effect
<1> HIDE DEF OnceInv, Known, SwapInv, SwapTypes, TaskRec, Truth, ArchTruth, LiveTruth, DevTruth,
    SwapOwners, ClaimTruth, LiveOwns, TaskOwns, OneOwner, Owned, Unsent, Types, ArchOK, ArchRec,
    LiveOK, LiveRec, SweepOK, SweepRec, OtherOK, Terminal, Answered, NoRun, Runs
<1> QED
  BY <1>1, <1>2, <1>3, <1>4, <1>5, <1>6, <1>7, <1>8, <1>9, <1>10, <1>11, <1>12, <1>13, <1>14, <1>15,
      <1>16, <1>17, <1>18,
     <1>19, <1>20, <1>21, <1>22, <1>23, <1>24, <1>25, <1>26, <1>27, <1>28, <1>29, <1>30, <1>31, <1>32, <1>33, <1>34, <1>35
     DEF Next, Printer, Live, Operator, Sweep, Resolve

(* What TableSwap calls each state of a claim, before and after a step. *)
LEMMA ClaimMeans ==
    ASSUME ArchOK, NEW r \in Runs
    PROVE  /\ arch[r].claim \in Unsent => Claim(r) = "open"
           /\ Owned(r) => Claim(r) = "intended"
           /\ arch[r].claim = "attempted" /\ r \notin sending => Claim(r) = "unknown"
           /\ arch[r].claim \in Answered => Claim(r) = "answered"
<1>1. arch[r].claim \in {"none", "owed", "attempted", "finished", "failed"}
  BY DEF ArchOK, ArchRec, Answered
<1> QED BY <1>1 DEF Claim, Unsent, Owned, Answered

LEMMA ClaimMeansNext ==
    ASSUME ArchOK', NEW r \in Runs
    PROVE  /\ arch'[r].claim \in Unsent => Claim(r)' = "open"
           /\ Owned(r)' => Claim(r)' = "intended"
           /\ arch'[r].claim = "attempted" /\ r \notin sending' => Claim(r)' = "unknown"
           /\ arch'[r].claim \in Answered => Claim(r)' = "answered"
<1>1. arch'[r].claim \in {"none", "owed", "attempted", "finished", "failed"}
  BY DEF ArchOK, ArchRec, Answered
<1> QED BY <1>1 DEF Claim, Unsent, Owned, Answered

LEMMA SameClaim == ASSUME ArchOK, ArchOK', NEW r \in Runs, Same(r) PROVE Claim(r)' = Claim(r)
<1>1. arch[r].claim \in Unsent \/ arch[r].claim \in Answered \/ arch[r].claim = "attempted"
  BY DEF ArchOK, ArchRec, Answered, Unsent
<1> QED BY <1>1, ClaimMeans, ClaimMeansNext DEF Same, Owned

(* A step of the printer's end is a step of the terminal swap, or none. *)
LEMMA SwapStep ==
    ASSUME ArchOK, ArchOK', SwapTypes, Effect
    PROVE  [Swap!SwapNext]_(Swap!swapVars)
<1>1. \A r \in Runs : Same(r) => Claim(r)' = Claim(r)
  BY SameClaim
<1>2. ASSUME UNCHANGED ended PROVE EndedWell' = EndedWell
  BY <1>2 DEF EndedWell
<1>3. ASSUME \A r \in Runs : Claim(r)' = Claim(r) PROVE Claims' = Claims
  BY <1>3 DEF Claims
<1>4. CASE Idle
  <2>1. EndedWell' = EndedWell /\ Claims' = Claims /\ commands' = commands
    BY <1>1, <1>2, <1>3, <1>4 DEF Idle
  <2> QED BY <2>1 DEF Swap!swapVars
<1>5. CASE Ends
  <2>1. Claims' = Claims /\ commands' = commands
    BY <1>1, <1>3, <1>5 DEF Ends
  <2>2. PICK r \in Runs, o \in Terminal : ended[r] = "none" /\ ended' = [ended EXCEPT ![r] = o]
    BY <1>5 DEF Ends
  <2>3. ended' = [ended EXCEPT ![r] = o] /\ ended \in [Runs -> {"none"} \cup Terminal]
    BY <2>2 DEF SwapTypes
  <2>4. CASE o = "completed"
    <3>1. EndedWell' = EndedWell \cup {r}
      BY <2>3, <2>4 DEF EndedWell
    <3> QED BY <2>1, <3>1 DEF Swap!SwapNext, Swap!Completes
  <2>5. CASE o # "completed"
    <3>1. EndedWell' = EndedWell
      BY <2>2, <2>3, <2>5 DEF EndedWell
    <3> QED BY <2>1, <3>1 DEF Swap!swapVars
  <2> QED BY <2>4, <2>5
<1>6. CASE Abandons
  <2> DEFINE lost == {q \in Runs : Claim(q) = "intended" /\ Claim(q)' = "unknown"}
  <2>1. EndedWell' = EndedWell /\ commands' = commands
    BY <1>2, <1>6 DEF Abandons
  <2>2. ASSUME NEW q \in Runs
        PROVE  Claim(q)' = Claim(q) \/ (Claim(q) = "intended" /\ Claim(q)' = "unknown")
    BY <1>1, <1>6, ClaimMeans, ClaimMeansNext DEF Abandons
  <2>3. Claims' = [q \in Runs |-> IF q \in lost THEN "unknown" ELSE Claims[q]]
    BY <2>2 DEF Claims
  <2>4. lost \in SUBSET {q \in Runs : Claims[q] = "intended"}
    BY DEF Claims
  <2>5. CASE lost = {}
    <3>1. Claims' = Claims
      BY <2>2, <2>5, <1>3
    <3> QED BY <2>1, <3>1 DEF Swap!swapVars
  <2>6. CASE lost # {}
    <3> HIDE DEF lost
    <3> QED BY <2>1, <2>3, <2>4, <2>6 DEF Swap!SwapNext, Swap!Abandon
  <2> QED BY <2>5, <2>6
<1>7. ASSUME NEW r \in Runs, Intends(r) PROVE Swap!SwapNext
  <2>1. EndedWell' = EndedWell /\ commands' = commands
    BY <1>2, <1>7 DEF Intends
  <2>2. r \in EndedWell
    BY <1>7 DEF Intends, EndedWell
  <2>3. Claim(r) = "open" /\ Claim(r)' = "intended" /\ \A q \in Runs \ {r} : Claim(q)' = Claim(q)
    BY <1>1, <1>7, ClaimMeans, ClaimMeansNext DEF Intends
  <2>4. Claims[r] = "open" /\ Claims' = [Claims EXCEPT ![r] = "intended"]
    BY <2>3 DEF Claims
  <2> QED BY <2>1, <2>2, <2>4 DEF Swap!SwapNext, Swap!Intend
<1>8. ASSUME NEW r \in Runs, Sends(r) PROVE Swap!SwapNext
  <2>1. EndedWell' = EndedWell /\ Claims' = Claims
    BY <1>1, <1>2, <1>3, <1>8 DEF Sends
  <2>2. Claims[r] = "intended"
    BY <1>8, ClaimMeans DEF Sends, Claims
  <2>3. commands[r] = 0 /\ commands' = [commands EXCEPT ![r] = 1]
    BY <1>8 DEF Sends
  <2> QED BY <2>1, <2>2, <2>3 DEF Swap!SwapNext, Swap!Send
<1>9. ASSUME NEW r \in Runs, Answers(r) PROVE Swap!SwapNext
  <2>1. EndedWell' = EndedWell /\ commands' = commands
    BY <1>2, <1>9 DEF Answers
  <2>2. Claim(r) = "intended" /\ Claim(r)' = "answered" /\ \A q \in Runs \ {r} : Claim(q)' = Claim(q)
    BY <1>1, <1>9, ClaimMeans, ClaimMeansNext DEF Answers
  <2>3. Claims[r] = "intended" /\ Claims' = [Claims EXCEPT ![r] = "answered"]
    BY <2>2 DEF Claims
  <2> QED BY <2>1, <2>3 DEF Swap!SwapNext, Swap!Answer
<1> QED BY <1>4, <1>5, <1>6, <1>7, <1>8, <1>9 DEF Effect

-----------------------------------------------------------------------------

LEMMA SwapInit == Init => SwapInv
<1> SUFFICES ASSUME Init PROVE SwapInv
  OBVIOUS
<1>1. task = [t \in Tasks |-> NoTask] /\ live.pc = "none" /\ dev.state = "idle" /\ dev.run = NoRun
  BY DEF Init, NoLive
<1>2. \A t \in Tasks : task[t] = NoTask
  BY <1>1
<1>3. \A r \in Runs : /\ ended[r] = "none" /\ commands[r] = 0
                      /\ arch[r].status = "none" /\ arch[r].claim = "none" /\ arch[r].marker = "none"
  BY DEF Init, NoArchive
<1>4. SwapTypes
  <2>1. task \in [Tasks -> TaskRec]
    BY <1>1, NoTaskOK
  <2>2. ended \in [Runs -> {"none"} \cup Terminal] /\ commands \in [Runs -> Nat]
    BY DEF Init
  <2> QED BY <2>1, <2>2 DEF SwapTypes
<1>5. NoRun \notin Runs
  BY BoundsAssumption DEF NoRun, Runs
<1>6. Truth
  <2>1. ArchTruth /\ LiveTruth
    BY <1>1, <1>3 DEF ArchTruth, LiveTruth
  <2>2. ReportTruth
    BY <1>5 DEF ReportTruth, Init, NoReport
  <2>3. SweepTruth
    BY <1>5 DEF SweepTruth, Init, NoSweep
  <2>4. DevTruth
    BY <1>1, <1>5 DEF DevTruth
  <2> QED BY <2>1, <2>2, <2>3, <2>4 DEF Truth
<1>7. SwapOwners
  BY <1>1, <1>2, <1>3, NoTaskOK DEF SwapOwners, ClaimTruth, LiveOwns, TaskOwns, OneOwner, Unsent
<1> QED BY <1>4, <1>6, <1>7 DEF SwapInv

(* What is said of each print's outcome is true, and each claim has one     *)
(* owner: with OnceInv, inductive.                                          *)
LEMMA SwapInvHolds == Spec => []SwapInv
<1>1. SwapInv /\ OnceInv /\ [Next]_vars => SwapInv'
  <2> SUFFICES ASSUME SwapInv, OnceInv, [Next]_vars PROVE SwapInv'
    OBVIOUS
  <2>1. SwapTypes /\ TaskOwns /\ Truth
    BY DEF SwapInv, SwapOwners
  <2>2. SwapTypes'
    BY <2>1, SwapTypesHold
  <2>3. Truth'
    BY <2>1, ArchTruthHolds, ReportTruthHolds, LiveTruthHolds, SweepTruthHolds, DevTruthHolds DEF Truth
  <2>4. SwapOwners'
    BY ClaimTruthHolds, LiveOwnsHolds, TaskOwnsHolds, OneOwnerHolds DEF SwapOwners
  <2> QED BY <2>2, <2>3, <2>4 DEF SwapInv
<1> QED BY <1>1, SwapInit, OnceInvHolds, PTL DEF Spec

(* The server calls a run completed only when the printer finished it: no   *)
(* stale report, no repeated one, no sweep that guesses an outcome from     *)
(* what the printer shows, and no recovery after a crash says otherwise.    *)
THEOREM CompletedTruly == Spec => []CompletedRunsCompleted
<1>1. SwapInv => CompletedRunsCompleted
  BY DEF SwapInv, Truth, ArchTruth, CompletedRunsCompleted
<1> QED BY <1>1, SwapInvHolds, PTL

(* Through crashes, exceptions, two connections and any number of sweeps    *)
(* and resolutions beside the live completion, the change_table of a print  *)
(* leaves the server at most once, after the print ended well and after its *)
(* intent was committed: the end of a print implements TableSwap.           *)
THEOREM SwapRefinement == Spec => RefinesTableSwap
<1>1. Init => Swap!SwapInit
  <2> SUFFICES ASSUME Init PROVE Swap!SwapInit
    OBVIOUS
  <2>1. \A r \in Runs : ended[r] = "none" /\ arch[r].claim = "none"
    BY DEF Init, NoArchive
  <2>2. EndedWell = {}
    BY <2>1 DEF EndedWell
  <2>3. Claims = [r \in Runs |-> "open"]
    <3>1. ArchOK
      BY DEF Init, ArchOK, ArchRec, NoArchive
    <3>2. \A r \in Runs : Claim(r) = "open"
      BY <2>1, <3>1, ClaimMeans DEF Unsent
    <3> QED BY <3>2 DEF Claims
  <2>4. commands = [r \in Runs |-> 0]
    BY DEF Init
  <2> QED BY <2>2, <2>3, <2>4 DEF Swap!SwapInit
<1>2. OnceInv /\ OnceInv' /\ SwapInv /\ [Next]_vars => [Swap!SwapNext]_(Swap!swapVars)
  <2> SUFFICES ASSUME OnceInv, OnceInv', SwapInv, [Next]_vars PROVE [Swap!SwapNext]_(Swap!swapVars)
    OBVIOUS
  <2>1. ArchOK /\ ArchOK' /\ SwapTypes
    BY DEF OnceInv, Types, SwapInv
  <2>2. Effect
    BY SwapEffects
  <2> QED BY <2>1, <2>2, SwapStep
<1> QED BY <1>1, <1>2, OnceInvHolds, SwapInvHolds, PTL DEF Spec, RefinesTableSwap, Swap!SwapSpec
==============================================================================
