------------------------- MODULE PrintEndRowProofs -------------------------
(***************************************************************************)
(* The rows of the queue and the archives tell the same story, and every    *)
(* variable keeps its type: for any number of rows, prints, sweeps,         *)
(* resolutions and faults.                                                  *)
(*                                                                         *)
(* Who closes a run writes its row and its archive together, or finds the   *)
(* row by the archive.  That this is the same row needs what the code never *)
(* states: a run has one row (RowInv), and a step that starts no print only *)
(* ever takes printing rows away (StepFrame).                              *)
(***************************************************************************)
EXTENDS PrintEndProofs

(* A sweep that is past its first commit has closed its run. *)
SweepsClosed == \A s \in Sweepers : sweep[s].pc \in {"gate", "row"} => arch[sweep[s].run].status \in Terminal

RowStates == {"pending", "printing", "gone"} \cup Terminal
LaneRec == [status : {"idle", "printing"} \cup Halted, current : Items \cup {NoItem}]

RowOK ==
    /\ row \in [Items -> RowStates]
    /\ link \in [Items -> Runs \cup {NoRun}]
LaneOK == lane \in LaneRec
RamOK ==
    /\ gate \in Runs \cup {NoRun} /\ receipt \in [Runs -> {"none", "clear", "repeat"}]
    /\ bound \in Runs \cup {NoRun} /\ config \in Runs \cup {NoRun}
    /\ sending \subseteq Runs /\ command \subseteq Runs /\ moved \subseteq Runs
    /\ faults \in 0 .. MaxFaults
FlagsOK == {up, connected, sweepDue, onPlate, swapMode} \subseteq BOOLEAN
RestOK == RowOK /\ LaneOK /\ RamOK /\ FlagsOK

LEMMA RunsAreNumbers == Runs \subseteq Nat /\ NoRun \notin Runs
  BY BoundsAssumption DEF Runs, NoRun


(* What a step may leave of an archive but its swap claim. *)
SameStory(q) ==
    /\ arch'[q].status = arch[q].status /\ arch'[q].marker = arch[q].marker
    /\ arch'[q].outcome = arch[q].outcome /\ arch'[q].baked = arch[q].baked

LEMMA StartWrites ==
    ASSUME ArchOK, NEW i \in Items, Start(i)
    PROVE  \E r \in Runs :
              /\ arch[r].status = "none" /\ \A q \in Runs : q < r => arch[q].status # "none"
              /\ \A q \in Runs \ {r} : arch'[q] = arch[q]
              /\ arch'[r].status = "printing" /\ arch'[r].marker = "none" /\ arch'[r].claim = "none"
              /\ row' = [row EXCEPT ![i] = "printing"] /\ link' = [link EXCEPT ![i] = r]
              /\ lane' = [status |-> "printing", current |-> i]
              /\ dev' = [state |-> "printing", run |-> r] /\ bound' = r
              /\ config' \in {r, NoRun}
<1>1. PICK r \in Runs, owes \in BOOLEAN, fact \in Facts :
          /\ arch[r].status = "none" /\ \A q \in Runs : q < r => arch[q].status # "none"
          /\ arch' = [arch EXCEPT ![r] = [NoArchive EXCEPT !.status = "printing", !.owes = owes, !.baked = fact]]
          /\ row' = [row EXCEPT ![i] = "printing"] /\ link' = [link EXCEPT ![i] = r]
          /\ lane' = [status |-> "printing", current |-> i]
          /\ dev' = [state |-> "printing", run |-> r] /\ bound' = r
          /\ config' = IF owes THEN r ELSE NoRun
  BY DEF Start
<1>2. \A q \in Runs \ {r} : arch'[q] = arch[q]
  BY <1>1 DEF ArchOK
<1>3. arch'[r] = [NoArchive EXCEPT !.status = "printing", !.owes = owes, !.baked = fact]
  BY <1>1 DEF ArchOK
<1>4. arch'[r].status = "printing" /\ arch'[r].marker = "none" /\ arch'[r].claim = "none"
  BY <1>3 DEF NoArchive
<1> QED BY <1>1, <1>2, <1>4

LEMMA AcceptWrites ==
    ASSUME ArchOK, OtherOK, Known, Accept
    PROVE  /\ report.run \in Runs /\ report.outcome \in Terminal
           /\ arch[report.run].status = "printing" /\ arch[report.run].marker # "accepted"
           /\ \A q \in Runs \ {report.run} : arch'[q] = arch[q]
           /\ arch'[report.run].status = "printing" /\ arch'[report.run].marker = "accepted"
           /\ arch'[report.run].outcome = report.outcome /\ arch'[report.run].baked = arch[report.run].baked
           /\ arch'[report.run].claim = arch[report.run].claim
           /\ \E i \in Items :
                 /\ row[i] = "printing" /\ link[i] = report.run
                 /\ live' = [pc |-> "decide", run |-> report.run, row |-> i, outcome |-> report.outcome,
                             proven |-> proven, cleared |-> FALSE, held |-> FALSE]
<1>1. report.run \in Runs /\ report.outcome \in Terminal
  BY DEF Accept, OtherOK, Known
<1>2. arch' = [arch EXCEPT ![report.run] = [arch[report.run] EXCEPT !.marker = "accepted", !.outcome = report.outcome]]
  BY DEF Accept
<1>3. \A q \in Runs \ {report.run} : arch'[q] = arch[q]
  BY <1>2 DEF ArchOK
<1>4. /\ arch'[report.run] = [arch[report.run] EXCEPT !.marker = "accepted", !.outcome = report.outcome]
      /\ arch[report.run] \in ArchRec
  BY <1>1, <1>2 DEF ArchOK
<1>5. /\ arch'[report.run].status = arch[report.run].status /\ arch'[report.run].marker = "accepted"
      /\ arch'[report.run].outcome = report.outcome /\ arch'[report.run].baked = arch[report.run].baked
      /\ arch'[report.run].claim = arch[report.run].claim
  BY <1>4 DEF ArchRec
<1>6. arch[report.run].status = "printing" /\ arch[report.run].marker # "accepted"
  BY DEF Accept
<1>7. \E i \in Items :
         /\ row[i] = "printing" /\ link[i] = report.run
         /\ live' = [pc |-> "decide", run |-> report.run, row |-> i, outcome |-> report.outcome,
                     proven |-> proven, cleared |-> FALSE, held |-> FALSE]
  BY DEF Accept, RowOf
<1> QED BY <1>1, <1>3, <1>5, <1>6, <1>7

LEMMA HeldWrites ==
    ASSUME ArchOK, NEW r, arch' = [arch EXCEPT ![r].held = TRUE], NEW q \in Runs
    PROVE  SameStory(q) /\ arch'[q].claim = arch[q].claim /\ arch'[q].owes = arch[q].owes
<1>1. CASE q = r
  <2>1. arch'[q] = [arch[q] EXCEPT !.held = TRUE] /\ arch[q] \in ArchRec
    BY <1>1 DEF ArchOK
  <2> QED BY <2>1 DEF ArchRec, SameStory
<1>2. CASE q # r
  <2>1. arch'[q] = arch[q]
    BY <1>2 DEF ArchOK
  <2> QED BY <2>1 DEF SameStory
<1> QED BY <1>1, <1>2

LEMMA ClaimWrites ==
    ASSUME ArchOK, NEW r, arch' = arch \/ arch' = [arch EXCEPT ![r].claim = "attempted"], NEW q \in Runs
    PROVE  /\ SameStory(q) /\ arch'[q].owes = arch[q].owes
           /\ arch'[q].claim = arch[q].claim \/ (q = r /\ arch'[q].claim = "attempted")
<1>1. CASE arch' = arch
  BY <1>1 DEF SameStory
<1>2. CASE arch' = [arch EXCEPT ![r].claim = "attempted"] /\ q = r
  <2>1. arch'[q] = [arch[q] EXCEPT !.claim = "attempted"] /\ arch[q] \in ArchRec
    BY <1>2 DEF ArchOK
  <2> QED BY <1>2, <2>1 DEF ArchRec, SameStory
<1>3. CASE arch' = [arch EXCEPT ![r].claim = "attempted"] /\ q # r
  <2>1. arch'[q] = arch[q]
    BY <1>3 DEF ArchOK
  <2> QED BY <2>1 DEF SameStory
<1> QED BY <1>1, <1>2, <1>3

LEMMA FinishedFields ==
    ASSUME NEW a \in ArchRec, NEW ok \in BOOLEAN
    PROVE  /\ Finished(a, ok).claim = (IF ok THEN "finished" ELSE "failed")
           /\ Finished(a, ok).owes = FALSE
           /\ Finished(a, ok).status = a.status /\ Finished(a, ok).marker = a.marker
           /\ Finished(a, ok).outcome = a.outcome /\ Finished(a, ok).baked = a.baked
<1>1. Finished(a, ok).claim = IF ok THEN "finished" ELSE "failed"
  BY DEF ArchRec, Finished
<1>2. Finished(a, ok).owes = FALSE
  BY DEF ArchRec, Finished
<1>3. Finished(a, ok).status = a.status /\ Finished(a, ok).marker = a.marker
  BY DEF ArchRec, Finished
<1>4. Finished(a, ok).outcome = a.outcome /\ Finished(a, ok).baked = a.baked
  BY DEF ArchRec, Finished
<1> QED BY <1>1, <1>2, <1>3, <1>4

LEMMA AnswerWrites ==
    ASSUME ArchOK, NEW r, NEW ok \in BOOLEAN, arch' = [arch EXCEPT ![r] = Finished(@, ok)], NEW q \in Runs
    PROVE  /\ SameStory(q)
           /\ q # r => arch'[q] = arch[q]
           /\ q = r => arch'[q].claim = (IF ok THEN "finished" ELSE "failed") /\ arch'[q].owes = FALSE
<1>1. CASE q = r
  <2> DEFINE a == arch[q]
             b == arch'[q]
  <2>1. b = Finished(a, ok) /\ a \in ArchRec
    BY <1>1 DEF ArchOK
  <2> HIDE DEF a, b
  <2>2. /\ b.claim = (IF ok THEN "finished" ELSE "failed") /\ b.owes = FALSE
        /\ b.status = a.status /\ b.marker = a.marker /\ b.outcome = a.outcome /\ b.baked = a.baked
    BY <2>1, FinishedFields
  <2> QED BY <1>1, <2>2 DEF SameStory, a, b
<1>2. CASE q # r
  <2>1. arch'[q] = arch[q]
    BY <1>2 DEF ArchOK
  <2> QED BY <1>2, <2>1 DEF SameStory
<1> QED BY <1>1, <1>2

LEMMA EndsWrites ==
    ASSUME ArchOK, LiveOK, Known, LiveFinalize
    PROVE  /\ live.outcome \in Terminal /\ live.pc = "finalize"
           /\ \/ /\ row[live.row] = "printing" /\ link[live.row] = live.run /\ arch[live.run].status = "printing"
                 /\ row' = [row EXCEPT ![live.row] = live.outcome] /\ lane' = LaneAfter(live.outcome, live.row)
                 /\ live' = [live EXCEPT !.pc = "tidy"]
                 /\ \A q \in Runs \ {live.run} : arch'[q] = arch[q]
                 /\ live.run \in Runs =>
                      /\ arch'[live.run].status = live.outcome /\ arch'[live.run].marker = "db_finalized"
                      /\ arch'[live.run].baked = arch[live.run].baked /\ arch'[live.run].claim = arch[live.run].claim
                      /\ arch'[live.run].owes = arch[live.run].owes
              \/ live' = NoLive /\ UNCHANGED <<row, arch, lane>>
<1>1. live.outcome \in Terminal /\ live.pc = "finalize"
  BY DEF LiveFinalize, Known
<1> DEFINE ours == row[live.row] = "printing" /\ link[live.row] = live.run /\ arch[live.run].status = "printing"
<1>2. CASE ours
  <2>1. /\ row' = [row EXCEPT ![live.row] = live.outcome] /\ lane' = LaneAfter(live.outcome, live.row)
        /\ live' = [live EXCEPT !.pc = "tidy"]
        /\ arch' = [arch EXCEPT ![live.run] = [arch[live.run] EXCEPT !.status = live.outcome, !.marker = "db_finalized"]]
    BY <1>2 DEF LiveFinalize
  <2>2. \A q \in Runs \ {live.run} : arch'[q] = arch[q]
    BY <2>1 DEF ArchOK
  <2>3. ASSUME live.run \in Runs
        PROVE  /\ arch'[live.run].status = live.outcome /\ arch'[live.run].marker = "db_finalized"
               /\ arch'[live.run].baked = arch[live.run].baked /\ arch'[live.run].claim = arch[live.run].claim
               /\ arch'[live.run].owes = arch[live.run].owes
    <3>1. /\ arch'[live.run] = [arch[live.run] EXCEPT !.status = live.outcome, !.marker = "db_finalized"]
          /\ arch[live.run] \in ArchRec
      BY <2>1, <2>3 DEF ArchOK
    <3> QED BY <3>1 DEF ArchRec
  <2> QED BY <1>1, <1>2, <2>1, <2>2, <2>3
<1>3. CASE ~ours
  BY <1>1, <1>3 DEF LiveFinalize
<1> QED BY <1>2, <1>3

LEMMA RecoverWrites ==
    ASSUME ArchOK, Known, NEW s \in Sweepers, NEW r \in Runs, SweepRecover(s, r)
    PROVE  /\ arch[r].outcome \in Terminal /\ arch[r].status # "none"
           /\ \A q \in Runs \ {r} : arch'[q] = arch[q]
           /\ arch'[r].status = arch[r].outcome /\ arch'[r].marker = "recovered_uncertain"
           /\ arch'[r].baked = arch[r].baked /\ arch'[r].claim = arch[r].claim /\ arch'[r].owes = arch[r].owes
           /\ arch'[r].outcome = arch[r].outcome
           /\ \E i \in Items : /\ row[i] = "printing" /\ link[i] = r
                               /\ row' = [row EXCEPT ![i] = arch[r].outcome] /\ lane' = Halt("paused", i)
<1>1. arch[r].outcome \in Terminal /\ arch[r].status # "none"
  BY DEF SweepRecover, Known
<1>2. arch' = [arch EXCEPT ![r] = [arch[r] EXCEPT !.status = arch[r].outcome, !.marker = "recovered_uncertain",
                                                  !.uncertain = "effects"]]
  BY DEF SweepRecover
<1>3. \A q \in Runs \ {r} : arch'[q] = arch[q]
  BY <1>2 DEF ArchOK
<1>4. /\ arch'[r] = [arch[r] EXCEPT !.status = arch[r].outcome, !.marker = "recovered_uncertain", !.uncertain = "effects"]
      /\ arch[r] \in ArchRec
  BY <1>2 DEF ArchOK
<1>5. /\ arch'[r].status = arch[r].outcome /\ arch'[r].marker = "recovered_uncertain"
      /\ arch'[r].baked = arch[r].baked /\ arch'[r].claim = arch[r].claim /\ arch'[r].owes = arch[r].owes
      /\ arch'[r].outcome = arch[r].outcome
  BY <1>4 DEF ArchRec
<1>6. \E i \in Items : /\ row[i] = "printing" /\ link[i] = r
                       /\ row' = [row EXCEPT ![i] = arch[r].outcome] /\ lane' = Halt("paused", i)
  BY DEF SweepRecover, RowOf
<1> QED BY <1>1, <1>3, <1>5, <1>6

LEMMA ClosingWrites ==
    ASSUME ArchOK, SweepOK, SweepTruth, NEW s \in Sweepers, NEW r \in Runs, SweepClose(s, r)
    PROVE  /\ \A q \in Runs \ {r} : arch'[q] = arch[q]
           /\ arch[r].status = "printing" /\ arch'[r].status \in Terminal
           /\ arch'[r].marker = arch[r].marker /\ arch'[r].outcome = arch[r].outcome /\ arch'[r].baked = arch[r].baked
           /\ arch'[r].owes = arch[r].owes
           /\ arch'[r].claim = arch[r].claim \/ (arch[r].claim = "none" /\ arch'[r].claim = "owed")
           /\ Verdict(s, r) \in {"failed", "completed", "uncertain"} /\ r \in sweep[s].orphans
           /\ sweep' = [sweep EXCEPT ![s] = [sweep[s] EXCEPT !.pc = "gate", !.run = r, !.orphans = @ \ {r}]]
           /\ sweep[s].pc = "close"
<1>1. /\ \A q \in Runs \ {r} : arch'[q] = arch[q]
      /\ arch'[r].marker = arch[r].marker /\ arch'[r].outcome = arch[r].outcome
      /\ arch'[r].status \in Terminal /\ arch[r].status = "printing"
      /\ arch'[r].claim = arch[r].claim \/ (arch[r].claim = "none" /\ arch'[r].claim = "owed")
  BY CloseWrites
<1>2. PICK status, doubt, claim :
          arch' = [arch EXCEPT ![r] = [arch[r] EXCEPT !.status = status, !.uncertain = doubt, !.claim = claim]]
  BY DEF SweepClose
<1>3. arch'[r] = [arch[r] EXCEPT !.status = status, !.uncertain = doubt, !.claim = claim] /\ arch[r] \in ArchRec
  BY <1>2 DEF ArchOK
<1>4. arch'[r].baked = arch[r].baked /\ arch'[r].owes = arch[r].owes
  BY <1>3 DEF ArchRec
<1>5. Verdict(s, r) \in {"failed", "completed", "uncertain"} /\ r \in sweep[s].orphans
  BY SweepStateKnown DEF SweepClose, Verdict
<1>6. /\ sweep' = [sweep EXCEPT ![s] = [sweep[s] EXCEPT !.pc = "gate", !.run = r, !.orphans = @ \ {r}]]
      /\ sweep[s].pc = "close"
  BY DEF SweepClose
<1> QED BY <1>1, <1>4, <1>5, <1>6

LEMMA Parts ==
    ASSUME OnceInv, SwapInv
    PROVE  /\ ArchOK /\ LiveOK /\ SweepOK /\ OtherOK /\ Known
           /\ SwapTypes /\ ArchTruth /\ ReportTruth /\ LiveTruth /\ SweepTruth /\ DevTruth
           /\ ClaimTruth /\ LiveOwns /\ TaskOwns /\ OneOwner
           /\ live \in LiveRec /\ task \in [Tasks -> TaskRec] /\ sweep \in [Sweepers -> SweepRec]
           /\ \A r \in Runs : arch[r] \in ArchRec
  BY DEF OnceInv, Types, SwapInv, Truth, SwapOwners, SwapTypes, ArchOK, LiveOK, SweepOK

(* The steps that write of an archive only what became of its swap. *)
Quiet ==
    \/ LiveClaim \/ LiveHold \/ \E ok \in BOOLEAN : LiveAnswer(ok)
    \/ \E t \in Tasks : ResolveClaim(t) \/ ResolveHold(t) \/ \E ok \in BOOLEAN : ResolveAnswer(t, ok)

LEMMA QuietKeeps == ASSUME OnceInv, Quiet PROVE \A q \in Runs : SameStory(q)
<1>1. ArchOK
  BY DEF OnceInv, Types
<1>2. CASE LiveClaim
  <2>1. arch' = arch \/ arch' = [arch EXCEPT ![live.run].claim = "attempted"]
    BY <1>2 DEF LiveClaim
  <2> QED BY <1>1, <2>1, ClaimWrites
<1>3. CASE LiveHold
  <2>1. arch' = [arch EXCEPT ![live.run].held = TRUE]
    BY <1>3 DEF LiveHold
  <2> QED BY <1>1, <2>1, HeldWrites
<1>4. ASSUME NEW ok \in BOOLEAN, LiveAnswer(ok) PROVE \A q \in Runs : SameStory(q)
  <2>1. arch' = [arch EXCEPT ![live.run] = Finished(@, ok)]
    BY <1>4 DEF LiveAnswer
  <2> QED BY <1>1, <2>1, AnswerWrites
<1>5. ASSUME NEW t \in Tasks, ResolveClaim(t) PROVE \A q \in Runs : SameStory(q)
  <2>1. arch' = arch \/ arch' = [arch EXCEPT ![task[t].run].claim = "attempted"]
    BY <1>5 DEF ResolveClaim
  <2> QED BY <1>1, <2>1, ClaimWrites
<1>6. ASSUME NEW t \in Tasks, ResolveHold(t) PROVE \A q \in Runs : SameStory(q)
  <2>1. arch' = [arch EXCEPT ![task[t].run].held = TRUE]
    BY <1>6 DEF ResolveHold
  <2> QED BY <1>1, <2>1, HeldWrites
<1>7. ASSUME NEW t \in Tasks, NEW ok \in BOOLEAN, ResolveAnswer(t, ok) PROVE \A q \in Runs : SameStory(q)
  <2>1. arch' = [arch EXCEPT ![task[t].run] = Finished(@, ok)]
    BY <1>7 DEF ResolveAnswer
  <2> QED BY <1>1, <2>1, AnswerWrites
<1> QED BY <1>2, <1>3, <1>4, <1>5, <1>6, <1>7 DEF Quiet

(* One sweep at a time moves, and only so. *)
Others(s) == \A q \in Sweepers \ {s} : sweep'[q] = sweep[q]

SameFound(s) ==
    sweep'[s].state = sweep[s].state /\ sweep'[s].file = sweep[s].file /\ sweep'[s].old = sweep[s].old

LEMMA SweepMoves ==
    ASSUME SweepOK, NEW s \in Sweepers, NEW a, sweep' = [sweep EXCEPT ![s] = a]
    PROVE  sweep'[s] = a /\ Others(s)
  BY DEF SweepOK, Others

LEMMA BeginMoves ==
    ASSUME SweepOK, NEW s \in Sweepers, SweepBegin(s)
    PROVE  /\ Others(s)
           /\ sweep'[s].pc = "repair" /\ sweep'[s].state = dev.state /\ sweep'[s].file = dev.run
           /\ sweep'[s].old = Printing /\ sweep'[s].run = NoRun
           /\ sweep'[s].orphans = {} /\ sweep'[s].checkpoints = {} /\ sweep'[s].closed = {}
<1> DEFINE a == [NoSweep EXCEPT !.pc = "repair", !.state = dev.state, !.file = dev.run, !.old = Printing]
<1>1. sweep' = [sweep EXCEPT ![s] = a]
  BY DEF SweepBegin
<1>2. /\ a.pc = "repair" /\ a.state = dev.state /\ a.file = dev.run /\ a.old = Printing /\ a.run = NoRun
      /\ a.orphans = {} /\ a.checkpoints = {} /\ a.closed = {}
  BY DEF NoSweep
<1> HIDE DEF a
<1> QED BY <1>1, <1>2, SweepMoves

LEMMA RepairMoves ==
    ASSUME SweepOK, NEW s \in Sweepers, SweepRepair(s)
    PROVE  /\ Others(s) /\ SameFound(s)
           /\ sweep[s].pc = "repair" /\ sweep'[s].pc = "close"
           /\ sweep'[s].orphans = {r \in Printing : arch[r].marker # "accepted"}
           /\ sweep'[s].checkpoints = {r \in Printing : arch[r].marker = "accepted"}
           /\ sweep'[s].closed = sweep[s].closed
<1> DEFINE X == {r \in Printing : arch[r].marker # "accepted"}
           Y == {r \in Printing : arch[r].marker = "accepted"}
<1>1. /\ sweep' = [sweep EXCEPT ![s] = [sweep[s] EXCEPT !.pc = "close", !.orphans = X, !.checkpoints = Y]]
      /\ sweep[s].pc = "repair" /\ sweep[s] \in SweepRec
  BY DEF SweepRepair, SweepOK
<1> HIDE DEF X, Y
<1>2. /\ sweep'[s] = [sweep[s] EXCEPT !.pc = "close", !.orphans = X, !.checkpoints = Y]
      /\ Others(s)
  BY <1>1, SweepMoves
<1>3. sweep'[s].pc = "close" /\ sweep'[s].orphans = X /\ sweep'[s].checkpoints = Y
  BY <1>1, <1>2 DEF SweepRec
<1>4. SameFound(s) /\ sweep'[s].closed = sweep[s].closed
  BY <1>1, <1>2 DEF SweepRec, SameFound
<1> QED BY <1>1, <1>2, <1>3, <1>4 DEF X, Y

LEMMA RecoverMoves ==
    ASSUME SweepOK, NEW s \in Sweepers, NEW r \in Runs, SweepRecover(s, r)
    PROVE  /\ Others(s) /\ SameFound(s)
           /\ sweep[s].pc = "close" /\ sweep'[s].pc = "close"
           /\ sweep[s].state # "printing" /\ r \in sweep[s].checkpoints
           /\ sweep'[s].orphans = sweep[s].orphans
           /\ sweep'[s].checkpoints = sweep[s].checkpoints \ {r}
           /\ sweep'[s].closed = sweep[s].closed \cup {r}
<1> DEFINE X == sweep[s].closed \cup {r}
           Y == sweep[s].checkpoints \ {r}
<1>1. /\ sweep' = [sweep EXCEPT ![s] = [sweep[s] EXCEPT !.closed = X, !.checkpoints = Y]]
      /\ sweep[s].pc = "close" /\ sweep[s] \in SweepRec
      /\ sweep[s].state # "printing" /\ r \in sweep[s].checkpoints
  BY DEF SweepRecover, SweepOK
<1> HIDE DEF X, Y
<1>2. sweep'[s] = [sweep[s] EXCEPT !.closed = X, !.checkpoints = Y] /\ Others(s)
  BY <1>1, SweepMoves
<1>3. sweep'[s].pc = sweep[s].pc /\ sweep'[s].closed = X /\ sweep'[s].checkpoints = Y
  BY <1>1, <1>2 DEF SweepRec
<1>4. SameFound(s) /\ sweep'[s].orphans = sweep[s].orphans
  BY <1>1, <1>2 DEF SweepRec, SameFound
<1> QED BY <1>1, <1>2, <1>3, <1>4 DEF X, Y

LEMMA CloseMoves ==
    ASSUME SweepOK, NEW s \in Sweepers, NEW r \in Runs, SweepClose(s, r)
    PROVE  /\ Others(s) /\ SameFound(s)
           /\ sweep[s].pc = "close" /\ sweep'[s].pc = "gate" /\ sweep'[s].run = r
           /\ r \in sweep[s].orphans /\ sweep'[s].orphans = sweep[s].orphans \ {r}
           /\ sweep'[s].checkpoints = sweep[s].checkpoints
           /\ sweep'[s].closed = sweep[s].closed
<1> DEFINE X == sweep[s].orphans \ {r}
<1>1. /\ sweep' = [sweep EXCEPT ![s] = [sweep[s] EXCEPT !.pc = "gate", !.run = r, !.orphans = X]]
      /\ sweep[s].pc = "close" /\ sweep[s] \in SweepRec /\ r \in sweep[s].orphans
  BY DEF SweepClose, SweepOK
<1> HIDE DEF X
<1>2. sweep'[s] = [sweep[s] EXCEPT !.pc = "gate", !.run = r, !.orphans = X] /\ Others(s)
  BY <1>1, SweepMoves
<1>3. sweep'[s].pc = "gate" /\ sweep'[s].run = r
  BY <1>1, <1>2 DEF SweepRec
<1>5. sweep'[s].orphans = X
  BY <1>1, <1>2 DEF SweepRec
<1>4. SameFound(s) /\ sweep'[s].checkpoints = sweep[s].checkpoints /\ sweep'[s].closed = sweep[s].closed
  BY <1>1, <1>2 DEF SweepRec, SameFound
<1> QED BY <1>1, <1>2, <1>3, <1>4, <1>5 DEF X

LEMMA GateMoves ==
    ASSUME SweepOK, NEW s \in Sweepers, SweepGate(s)
    PROVE  /\ Others(s) /\ SameFound(s)
           /\ sweep[s].pc = "gate" /\ sweep'[s].pc = "row" /\ sweep'[s].run = sweep[s].run
           /\ sweep'[s].orphans = sweep[s].orphans /\ sweep'[s].checkpoints = sweep[s].checkpoints
           /\ sweep'[s].closed = sweep[s].closed
<1>1. /\ sweep' = [sweep EXCEPT ![s] = [sweep[s] EXCEPT !.pc = "row"]]
      /\ sweep[s].pc = "gate" /\ sweep[s] \in SweepRec
  BY DEF SweepGate, SweepOK
<1>2. sweep'[s] = [sweep[s] EXCEPT !.pc = "row"] /\ Others(s)
  BY <1>1, SweepMoves
<1> QED BY <1>1, <1>2 DEF SweepRec, SameFound

LEMMA RowMoves ==
    ASSUME SweepOK, NEW s \in Sweepers, SweepRow(s)
    PROVE  /\ Others(s) /\ SameFound(s)
           /\ sweep[s].pc = "row" /\ sweep'[s].pc = "close"
           /\ sweep'[s].orphans = sweep[s].orphans /\ sweep'[s].checkpoints = sweep[s].checkpoints
           /\ sweep'[s].closed = sweep[s].closed \cup {sweep[s].run}
<1> DEFINE X == sweep[s].closed \cup {sweep[s].run}
<1>1. /\ sweep' = [sweep EXCEPT ![s] = [sweep[s] EXCEPT !.pc = "close", !.run = NoRun, !.closed = X]]
      /\ sweep[s].pc = "row" /\ sweep[s] \in SweepRec
  BY DEF SweepRow, SweepOK
<1> HIDE DEF X
<1>2. sweep'[s] = [sweep[s] EXCEPT !.pc = "close", !.run = NoRun, !.closed = X] /\ Others(s)
  BY <1>1, SweepMoves
<1>3. sweep'[s].pc = "close"
  BY <1>1, <1>2 DEF SweepRec
<1>5. sweep'[s].closed = X
  BY <1>1, <1>2 DEF SweepRec
<1>4. SameFound(s) /\ sweep'[s].orphans = sweep[s].orphans /\ sweep'[s].checkpoints = sweep[s].checkpoints
  BY <1>1, <1>2 DEF SweepRec, SameFound
<1> QED BY <1>1, <1>2, <1>3, <1>4, <1>5 DEF X

LEMMA EndMoves ==
    ASSUME SweepOK, NEW s \in Sweepers, SweepEnd(s)
    PROVE  /\ Others(s) /\ sweep[s].pc = "close"
           /\ sweep'[s].pc = "none" /\ sweep'[s].orphans = {} /\ sweep'[s].checkpoints = {}
           /\ sweep'[s].closed = {}
<1>1. sweep' = [sweep EXCEPT ![s] = NoSweep] /\ sweep[s].pc = "close"
  BY DEF SweepEnd
<1>2. sweep'[s] = NoSweep /\ Others(s)
  BY <1>1, SweepMoves
<1> QED BY <1>1, <1>2 DEF NoSweep

(* The live completion: the fields that a step of it does not name stay. *)
SameLive == live'.run = live.run /\ live'.row = live.row /\ live'.outcome = live.outcome

LEMMA DecideMoves ==
    ASSUME LiveOK, LiveDecide
    PROVE  /\ live.pc = "decide" /\ SameLive /\ live'.held = live.held
           /\ live'.pc \in {"gate", "hold", "claim"}
           /\ live'.cleared => /\ live.outcome = "completed" /\ live.proven /\ arch[live.run].baked = "yes"
           /\ live'.pc = "claim" => HoldsItsPrinter(live.run, "printing")
<1> DEFINE r == live.run
           asked == config = r \/ arch[r].owes
           hold == Holds(live.outcome = "completed", HoldsItsPrinter(r, "printing"), r)
           next == IF ~asked THEN "gate" ELSE IF hold THEN "hold" ELSE "claim"
           clear == ~asked /\ live.outcome = "completed" /\ live.proven /\ arch[r].baked = "yes"
<1>1. live' = [live EXCEPT !.pc = next, !.cleared = clear] /\ live.pc = "decide" /\ live \in LiveRec
  BY DEF LiveDecide, LiveOK
<1>2. next \in {"gate", "hold", "claim"} /\ (next = "claim" => HoldsItsPrinter(r, "printing"))
  BY DEF Holds
<1>3. clear => live.outcome = "completed" /\ live.proven /\ arch[r].baked = "yes"
  OBVIOUS
<1> HIDE DEF next, clear
<1>4. live'.pc = next /\ live'.cleared = clear
  BY <1>1 DEF LiveRec
<1>5. SameLive /\ live'.held = live.held
  BY <1>1 DEF LiveRec, SameLive
<1> QED BY <1>1, <1>2, <1>3, <1>4, <1>5

LEMMA ClaimMoves ==
    ASSUME LiveOK, LiveClaim
    PROVE  /\ live.pc = "claim" /\ SameLive /\ live'.held = live.held /\ live'.cleared = live.cleared
           /\ live'.pc \in {"gate", "hold", "send"}
           /\ live'.pc = "send" => HoldsItsPrinter(live.run, "printing") /\ OwnsEffect(live.run)
<1> DEFINE r == live.run
           claimed == ClaimIsFree(r, TRUE) /\ HoldsItsPrinter(r, "printing")
           next == IF ~OwnsEffect(r) THEN "gate" ELSE IF claimed THEN "send" ELSE "hold"
<1>1. live' = [live EXCEPT !.pc = next] /\ live.pc = "claim" /\ live \in LiveRec
  BY DEF LiveClaim, LiveOK
<1>2. /\ next \in {"gate", "hold", "send"}
      /\ next = "send" => HoldsItsPrinter(r, "printing") /\ OwnsEffect(r)
  OBVIOUS
<1> HIDE DEF next
<1>3. live'.pc = next /\ SameLive /\ live'.held = live.held /\ live'.cleared = live.cleared
  BY <1>1 DEF LiveRec, SameLive
<1> QED BY <1>1, <1>2, <1>3

LEMMA SendMoves ==
    ASSUME LiveOK, LiveSend
    PROVE  /\ live.pc = "send" /\ live'.pc = "sent" /\ OwnsEffect(live.run)
           /\ SameLive /\ live'.held = live.held /\ live'.cleared = live.cleared
  BY DEF LiveSend, LiveOK, LiveRec, SameLive

LEMMA LiveAnswerMoves ==
    ASSUME LiveOK, NEW ok \in BOOLEAN, LiveAnswer(ok)
    PROVE  /\ live.pc \in {"send", "sent"} /\ live'.pc = "gate"
           /\ live.pc = "send" => ~OwnsEffect(live.run)
           /\ ok => live.run \in moved
           /\ SameLive /\ live'.held = live.held
           /\ live'.cleared => ok /\ OwnsEffect(live.run)
<1> DEFINE clear == ok /\ OwnsEffect(live.run)
<1>1. live' = [live EXCEPT !.pc = "gate", !.cleared = clear] /\ live \in LiveRec
  BY DEF LiveAnswer, LiveOK
<1>2. /\ live.pc \in {"send", "sent"} /\ (ok => live.run \in moved)
      /\ live.pc = "send" => ~OwnsEffect(live.run)
  BY DEF LiveAnswer
<1>3. clear => ok /\ OwnsEffect(live.run)
  OBVIOUS
<1> HIDE DEF clear
<1>4. live'.pc = "gate" /\ live'.cleared = clear
  BY <1>1 DEF LiveRec
<1>5. SameLive /\ live'.held = live.held
  BY <1>1 DEF LiveRec, SameLive
<1> QED BY <1>2, <1>3, <1>4, <1>5

LEMMA ErrorMoves ==
    ASSUME LiveOK, LiveError
    PROVE  /\ live.pc \in {"claim", "send", "sent"} /\ live'.pc \in {"hold", "gate"}
           /\ SameLive /\ live'.held = live.held /\ live'.cleared = live.cleared
  BY DEF LiveError, LiveOK, LiveRec, SameLive

LEMMA HoldMoves ==
    ASSUME LiveOK, LiveHold
    PROVE  live.pc = "hold" /\ live'.pc = "gate" /\ SameLive /\ live'.cleared = live.cleared
  BY DEF LiveHold, LiveOK, LiveRec, SameLive

LEMMA LiveGateMoves ==
    ASSUME LiveOK, LiveGate
    PROVE  /\ live.pc = "gate" /\ live'.pc = "finalize"
           /\ SameLive /\ live'.held = live.held /\ live'.cleared = live.cleared
  BY DEF LiveGate, LiveOK, LiveRec, SameLive

LEMMA TidyFields ==
    ASSUME LiveOK, live' = [live EXCEPT !.pc = "tidy"]
    PROVE  live'.pc = "tidy" /\ SameLive /\ live'.held = live.held /\ live'.cleared = live.cleared
  BY DEF LiveOK, LiveRec, SameLive

LEMMA NoLiveFields == NoLive.pc = "none" /\ NoLive.run = NoRun /\ NoLive.cleared = FALSE
  BY DEF NoLive


LinkMade == \A i \in Items : link[i] # NoRun => arch[link[i]].status # "none"
PrintingLinked == \A i \in Items : row[i] = "printing" => link[i] # NoRun
LinkInjective == \A i, j \in Items : link[i] # NoRun /\ link[i] = link[j] => i = j

(* A row is of one run, and a run of one row. *)
RowInv == LinkMade /\ PrintingLinked /\ LinkInjective /\ RowAgreesWithRun

(* A step that unmakes no run and, of the rows, at most deletes some. *)
LEMMA RowsOnlyGo ==
    ASSUME RowOK, RowInv, \A q \in Runs : arch'[q].status = arch[q].status, link' = link,
           \A i \in Items : row'[i] = row[i] \/ row'[i] = "gone"
    PROVE  RowInv'
<1>1. "gone" \notin Terminal /\ "gone" # "printing"
  BY DEF Terminal
<1>2. \A i \in Items : link[i] # NoRun => link[i] \in Runs
  BY DEF RowOK
<1>3. LinkMade'
  BY <1>2 DEF RowInv, LinkMade
<1>4. PrintingLinked' /\ LinkInjective'
  BY <1>1 DEF RowInv, PrintingLinked, LinkInjective
<1>5. RowAgreesWithRun'
  BY <1>1, <1>2 DEF RowInv, RowAgreesWithRun
<1> QED BY <1>3, <1>4, <1>5 DEF RowInv

(* A run is made terminal together with its row, or without it. *)
LEMMA RunEnds ==
    ASSUME RowOK, RowInv, NEW r \in Runs, NEW status \in Terminal, arch[r].status # "none",
           arch'[r].status = status, \A q \in Runs \ {r} : arch'[q].status = arch[q].status, link' = link,
           NEW i \in Items, link[i] = r, row[i] = "printing", row' = [row EXCEPT ![i] = status]
    PROVE  RowInv'
<1>1. "none" \notin Terminal /\ "printing" \notin Terminal
  BY DEF Terminal
<1>2. \A j \in Items : link[j] # NoRun => link[j] \in Runs
  BY DEF RowOK
<1>3. row'[i] = status /\ \A j \in Items \ {i} : row'[j] = row[j] /\ link[j] # r
  BY RunsAreNumbers DEF RowOK, RowInv, LinkInjective
<1>4. LinkMade'
  BY <1>1, <1>2 DEF RowInv, LinkMade
<1>5. PrintingLinked' /\ LinkInjective'
  BY <1>1, <1>3, RunsAreNumbers DEF RowInv, PrintingLinked, LinkInjective
<1>6. RowAgreesWithRun'
  BY <1>1, <1>2, <1>3 DEF RowInv, RowAgreesWithRun
<1> QED BY <1>4, <1>5, <1>6 DEF RowInv

(* What a settlement does to the rows and to the lane. *)
LEMMA SettleWrites ==
    ASSUME NEW t \in Tasks, NEW swapped, RowOK, Settle(t, swapped)
    PROVE  /\ \A i \in Items : row'[i] = row[i] \/ (row'[i] = "gone" /\ link[i] = task[t].run /\ row[i] = "completed")
           /\ row' = row \/ row' = [i \in Items |-> IF i \in RowOf(task[t].run, "completed") THEN "gone" ELSE row[i]]
           /\ \/ lane' = lane
              \/ /\ SettleIsOurs(t)
                 /\ \E status \in {"idle", "paused"} : /\ lane' = [status |-> status, current |-> NoItem]
                                                       /\ status = "idle" => swapped
<1> DEFINE r == task[t].run
           rows == IF task[t].row = NoItem THEN {} ELSE RowOf(r, "completed")
<1>1. row' = row \/ row' = [i \in Items |-> IF i \in rows THEN "gone" ELSE row[i]]
  <2>1. CASE swapped /\ SettleIsOurs(t)
    BY <2>1 DEF Settle
  <2>2. CASE ~(swapped /\ SettleIsOurs(t))
    BY <2>2 DEF Settle
  <2> QED BY <2>1, <2>2
<1>2. row' = row \/ row' = [i \in Items |-> IF i \in RowOf(r, "completed") THEN "gone" ELSE row[i]]
  <2>1. CASE task[t].row = NoItem
    <3>1. row = [i \in Items |-> row[i]]
      BY DEF RowOK
    <3> QED BY <1>1, <2>1, <3>1
  <2>2. CASE task[t].row # NoItem
    BY <1>1, <2>2
  <2> QED BY <2>1, <2>2
<1>3. \/ lane' = lane
      \/ /\ SettleIsOurs(t)
         /\ \E status \in {"idle", "paused"} : /\ lane' = [status |-> status, current |-> NoItem]
                                               /\ status = "idle" => swapped
  <2>1. CASE SettleIsOurs(t) /\ swapped
    BY <2>1 DEF Settle
  <2>2. CASE SettleIsOurs(t) /\ ~swapped
    BY <2>2 DEF Settle
  <2>3. CASE ~SettleIsOurs(t)
    BY <2>3 DEF Settle
  <2> QED BY <2>1, <2>2, <2>3
<1>4. \A i \in Items : row'[i] = row[i] \/ (row'[i] = "gone" /\ link[i] = r /\ row[i] = "completed")
  BY <1>2 DEF RowOf
<1> QED BY <1>2, <1>3, <1>4

LEMMA TidyWrites ==
    ASSUME LiveTidy
    PROVE  /\ live.pc = "tidy" /\ live' = NoLive
           /\ \/ row' = row
              \/ /\ row' = [row EXCEPT ![live.row] = "gone"] /\ live.outcome = "completed"
                 /\ live.cleared \/ ~RequirePlateClear
<1>1. live.pc = "tidy" /\ live' = NoLive
  BY DEF LiveTidy
<1>2. \/ row' = row
      \/ /\ row' = [row EXCEPT ![live.row] = "gone"] /\ live.outcome = "completed"
         /\ live.cleared \/ ~RequirePlateClear
  <2>1. CASE ~live.held /\ live.outcome = "completed" /\ (live.cleared \/ ~RequirePlateClear)
    BY <2>1 DEF LiveTidy, Tidied
  <2>2. CASE ~(~live.held /\ live.outcome = "completed" /\ (live.cleared \/ ~RequirePlateClear))
    BY <2>2 DEF LiveTidy, Tidied
  <2> QED BY <2>1, <2>2
<1> QED BY <1>1, <1>2

LEMMA SweepRowWrites ==
    ASSUME NEW s \in Sweepers, SweepRow(s), arch[sweep[s].run].status \in Terminal
    PROVE  LET r == sweep[s].run
               outcome == arch[r].status
           IN \/ RowOf(r, "printing") = {} /\ UNCHANGED <<row, lane>>
              \/ \E i \in Items :
                    /\ link[i] = r /\ row[i] = "printing"
                    /\ \/ row' = [row EXCEPT ![i] = outcome]
                       \/ row' = [row EXCEPT ![i] = "gone"] /\ ~RequirePlateClear /\ outcome = "completed"
                    /\ \/ outcome = "failed" /\ lane' = [status |-> "error", current |-> NoItem]
                       \/ outcome = "cancelled" /\ lane' = [status |-> "paused", current |-> NoItem]
                       \/ /\ outcome = "completed" /\ lane.status = "printing" /\ ~SwapOwed(r)
                          /\ lane' = [status |-> "idle", current |-> NoItem]
                       \/ outcome = "completed" /\ (lane.status # "printing" \/ SwapOwed(r)) /\ lane' = lane
<1> DEFINE r == sweep[s].run
           outcome == arch[r].status
<1>1. CASE RowOf(r, "printing") = {}
  BY <1>1 DEF SweepRow
<1>2. CASE RowOf(r, "printing") # {}
  <2>1. PICK i \in RowOf(r, "printing") :
           /\ row' = [row EXCEPT ![i] =
                 IF outcome = "completed" /\ ~SwapOwed(r) /\ ~RequirePlateClear THEN "gone" ELSE outcome]
           /\ lane' = CASE outcome = "failed"    -> [status |-> "error", current |-> NoItem]
                        [] outcome = "cancelled" -> [status |-> "paused", current |-> NoItem]
                        [] outcome = "completed" ->
                             IF lane.status = "printing" /\ ~SwapOwed(r)
                             THEN [status |-> "idle", current |-> NoItem] ELSE lane
    BY <1>2 DEF SweepRow
  <2>2. i \in Items /\ link[i] = r /\ row[i] = "printing"
    BY DEF RowOf
  <2>3. \/ row' = [row EXCEPT ![i] = outcome]
        \/ row' = [row EXCEPT ![i] = "gone"] /\ ~RequirePlateClear /\ outcome = "completed"
    <3>1. CASE outcome = "completed" /\ ~SwapOwed(r) /\ ~RequirePlateClear
      BY <2>1, <3>1
    <3>2. CASE ~(outcome = "completed" /\ ~SwapOwed(r) /\ ~RequirePlateClear)
      BY <2>1, <3>2
    <3> QED BY <3>1, <3>2
  <2>4. \/ outcome = "failed" /\ lane' = [status |-> "error", current |-> NoItem]
        \/ outcome = "cancelled" /\ lane' = [status |-> "paused", current |-> NoItem]
        \/ /\ outcome = "completed" /\ lane.status = "printing" /\ ~SwapOwed(r)
           /\ lane' = [status |-> "idle", current |-> NoItem]
        \/ outcome = "completed" /\ (lane.status # "printing" \/ SwapOwed(r)) /\ lane' = lane
    <3>1. outcome = "failed" \/ outcome = "cancelled" \/ outcome = "completed"
      BY DEF Terminal
    <3>2. CASE outcome = "failed"
      BY <2>1, <3>2
    <3>3. CASE outcome = "cancelled"
      BY <2>1, <3>3
    <3>4. CASE outcome = "completed" /\ lane.status = "printing" /\ ~SwapOwed(r)
      BY <2>1, <3>4
    <3>5. CASE outcome = "completed" /\ ~(lane.status = "printing" /\ ~SwapOwed(r))
      BY <2>1, <3>5
    <3> QED BY <3>1, <3>2, <3>3, <3>4, <3>5
  <2> QED BY <2>2, <2>3, <2>4
<1> QED BY <1>1, <1>2

LEMMA RepairWrites ==
    ASSUME NEW s \in Sweepers, SweepRepair(s)
    PROVE  \/ UNCHANGED <<row, lane>>
           \/ /\ live.pc = "none" /\ dev.state # "printing" /\ Printing = {}
              /\ \A i \in Items : row[i] = "printing" => /\ link[i] # NoRun /\ arch[link[i]].status \in Terminal
              /\ row' = [i \in Items |-> IF row[i] = "printing" THEN arch[link[i]].status ELSE row[i]]
              /\ \E status \in {"error", "paused"} : lane' = [status |-> status, current |-> NoItem]
<1> DEFINE left == {i \in Items : row[i] = "printing"}
           fit == /\ left # {} /\ live.pc = "none" /\ connected
                  /\ dev.state = sweep[s].state /\ dev.state # "printing"
                  /\ lane.current \in left \cup {NoItem}
                  /\ Printing = {}
                  /\ \A i \in left : Repairable(i)
<1>1. CASE fit
  <2>1. /\ row' = [i \in Items |-> IF i \in left THEN arch[link[i]].status ELSE row[i]]
        /\ lane' = [status |-> IF lane.status = "error" THEN "error" ELSE "paused", current |-> NoItem]
    BY <1>1 DEF SweepRepair
  <2>2. row' = [i \in Items |-> IF row[i] = "printing" THEN arch[link[i]].status ELSE row[i]]
    BY <2>1
  <2>3. \E status \in {"error", "paused"} : lane' = [status |-> status, current |-> NoItem]
    BY <2>1
  <2>4. \A i \in Items : row[i] = "printing" => /\ link[i] # NoRun /\ arch[link[i]].status \in Terminal
    BY <1>1 DEF Repairable
  <2> QED BY <1>1, <2>2, <2>3, <2>4
<1>2. CASE ~fit
  BY <1>2 DEF SweepRepair
<1> QED BY <1>1, <1>2

LEMMA AnswersWrite ==
    ASSUME RowOK, NEW r \in Runs, NEW action \in {"clear", "repeat"}, AnswerPlate(r, action), NEW i \in Items
    PROVE  \/ row'[i] = row[i] /\ link'[i] = link[i]
           \/ /\ link[i] = r /\ row[i] \in Terminal
              /\ \/ row'[i] = "pending" /\ link'[i] = NoRun
                 \/ row'[i] = "gone" /\ link'[i] = link[i]
<1> DEFINE rows == {j \in Items : link[j] = r /\ row[j] \in Terminal}
<1>1. row' = [j \in Items |->
         CASE j \in rows /\ action = "repeat"                            -> "pending"
           [] j \in rows /\ action = "clear" /\ row[j] = "completed"     -> "gone"
           [] OTHER                                                      -> row[j]]
      /\ link' = [j \in Items |-> IF j \in rows /\ action = "repeat" THEN NoRun ELSE link[j]]
  BY DEF AnswerPlate
<1>2. CASE i \in rows /\ action = "repeat"
  BY <1>1, <1>2
<1>3. CASE i \in rows /\ action # "repeat" /\ row[i] = "completed"
  BY <1>1, <1>3
<1>4. CASE i \in rows /\ action # "repeat" /\ row[i] # "completed"
  BY <1>1, <1>4
<1>5. CASE i \notin rows
  BY <1>1, <1>5
<1> QED BY <1>2, <1>3, <1>4, <1>5

LEMMA SweepsClosedHolds == OnceInv /\ SwapInv /\ SweepsClosed /\ [Next]_vars => SweepsClosed'
<1> SUFFICES ASSUME OnceInv, SwapInv, SweepsClosed, [Next]_vars PROVE SweepsClosed'
  OBVIOUS
<1>1. ASSUME NEW i \in Items, Start(i) PROVE SweepsClosed'
  <2>1. PICK r \in Runs : arch[r].status = "none" /\ \A q \in Runs \ {r} : arch'[q] = arch[q]
    BY <1>1, Parts, StartWrites
  <2>2. sweep' = sweep
    BY <1>1 DEF Start, actors
  <2>3. "none" \notin Terminal
    BY DEF Terminal
  <2> QED BY <2>1, <2>2, <2>3, Parts DEF SweepsClosed, Known
<1>2. ASSUME NEW outcome \in Terminal, PrintEnds(outcome) PROVE SweepsClosed'
  BY <1>2 DEF PrintEnds, SweepsClosed, db, ram, net, actors, device, past
<1>3. ASSUME PrinterForgets PROVE SweepsClosed'
  BY <1>3 DEF PrinterForgets, SweepsClosed, db, ram, net, actors, device, past
<1>4. ASSUME NEW r \in Runs, PrinterSwaps(r) PROVE SweepsClosed'
  BY <1>4 DEF PrinterSwaps, SweepsClosed, db, ram, net, actors, device, past
<1>5. ASSUME Accept PROVE SweepsClosed'
  <2>1. \A q \in Runs : arch'[q].status = arch[q].status
    BY <1>5, Parts, AcceptWrites
  <2>2. sweep' = sweep
    BY <1>5 DEF Accept
  <2> QED BY <2>1, <2>2, Parts DEF SweepsClosed, Known
<1>6. ASSUME LiveDecide PROVE SweepsClosed'
  BY <1>6 DEF LiveDecide, SweepsClosed, db, ram, net, actors, device, past
<1>7. ASSUME LiveClaim PROVE SweepsClosed'
  <2>1. \A q \in Runs : arch'[q].status = arch[q].status
    BY <1>7, Parts, LiveClaimKeeps DEF Kept
  <2>2. sweep' = sweep
    BY <1>7 DEF LiveClaim
  <2> QED BY <2>1, <2>2, Parts DEF SweepsClosed, Known
<1>8. ASSUME LiveSend PROVE SweepsClosed'
  BY <1>8 DEF LiveSend, SweepsClosed, db, ram, net, actors, device, past
<1>9. ASSUME NEW ok \in BOOLEAN, LiveAnswer(ok) PROVE SweepsClosed'
  <2>1. \A q \in Runs : arch'[q].status = arch[q].status
    <3>1. arch' = [arch EXCEPT ![live.run] = Finished(@, ok)]
      BY <1>9 DEF LiveAnswer
    <3> QED BY <3>1, Parts, AnswerWrites DEF SameStory
  <2>2. sweep' = sweep
    BY <1>9 DEF LiveAnswer
  <2> QED BY <2>1, <2>2, Parts DEF SweepsClosed, Known
<1>10. ASSUME LiveError PROVE SweepsClosed'
  BY <1>10 DEF LiveError, SweepsClosed, db, ram, net, actors, device, past
<1>11. ASSUME LiveHold PROVE SweepsClosed'
  <2>1. \A q \in Runs : arch'[q].status = arch[q].status
    <3>1. arch' = [arch EXCEPT ![live.run].held = TRUE]
      BY <1>11 DEF LiveHold
    <3> QED BY <3>1, Parts, HeldWrites DEF SameStory
  <2>2. sweep' = sweep
    BY <1>11 DEF LiveHold
  <2> QED BY <2>1, <2>2, Parts DEF SweepsClosed, Known
<1>12. ASSUME LiveGate PROVE SweepsClosed'
  BY <1>12 DEF LiveGate, SweepsClosed, db, ram, net, actors, device, past
<1>13. ASSUME LiveFinalize PROVE SweepsClosed'
  <2>1. \A q \in Runs : arch'[q] = arch[q] \/ arch'[q].status \in Terminal
    BY <1>13, Parts, EndsWrites
  <2>2. sweep' = sweep
    BY <1>13 DEF LiveFinalize
  <2> QED BY <2>1, <2>2, Parts DEF SweepsClosed, Known
<1>14. ASSUME LiveTidy PROVE SweepsClosed'
  BY <1>14 DEF LiveTidy, SweepsClosed, db, ram, net, actors, device, past
<1>15. ASSUME NEW s \in Sweepers, SweepBegin(s) PROVE SweepsClosed'
  <2>1. sweep' = [sweep EXCEPT ![s] = [NoSweep EXCEPT !.pc = "repair", !.state = dev.state, !.file = dev.run, !.old = Printing]]
        /\ arch' = arch
    BY <1>15 DEF SweepBegin, db
  <2>2. sweep'[s].pc = "repair" /\ \A q \in Sweepers \ {s} : sweep'[q] = sweep[q]
    BY <2>1, Parts, SweepMoves DEF NoSweep
  <2> QED BY <2>1, <2>2 DEF SweepsClosed
<1>16. ASSUME NEW s \in Sweepers, SweepRepair(s) PROVE SweepsClosed'
  <2>1. PICK X, Y : sweep' = [sweep EXCEPT ![s] = [sweep[s] EXCEPT !.pc = "close", !.orphans = X, !.checkpoints = Y]]
    BY <1>16 DEF SweepRepair
  <2>2. arch' = arch
    BY <1>16 DEF SweepRepair
  <2>3. sweep'[s].pc = "close" /\ \A q \in Sweepers \ {s} : sweep'[q] = sweep[q]
    BY <2>1, Parts, RepairFields
  <2> QED BY <2>2, <2>3 DEF SweepsClosed
<1>17. ASSUME NEW s \in Sweepers, NEW r \in Runs, SweepRecover(s, r) PROVE SweepsClosed'
  <2>1. \A q \in Runs : arch'[q] = arch[q] \/ arch'[q].status \in Terminal
    BY <1>17, Parts, RecoverWrites
  <2>2. sweep' = [sweep EXCEPT ![s] = [sweep[s] EXCEPT !.closed = @ \cup {r}, !.checkpoints = @ \ {r}]]
    BY <1>17 DEF SweepRecover
  <2>3. sweep'[s].pc = "close" /\ \A q \in Sweepers \ {s} : sweep'[q] = sweep[q]
    <3>1. sweep[s].pc = "close" /\ sweep[s] \in SweepRec
      BY <1>17, Parts DEF SweepRecover
    <3> QED BY <2>2, <3>1, Parts, SweepMoves DEF SweepRec
  <2> QED BY <2>1, <2>3, Parts DEF SweepsClosed, Known
<1>18. ASSUME NEW s \in Sweepers, NEW r \in Runs, SweepClose(s, r) PROVE SweepsClosed'
  <2>1. /\ \A q \in Runs \ {r} : arch'[q] = arch[q]
        /\ arch'[r].status \in Terminal
        /\ sweep' = [sweep EXCEPT ![s] = [sweep[s] EXCEPT !.pc = "gate", !.run = r, !.orphans = @ \ {r}]]
    BY <1>18, Parts, ClosingWrites
  <2>2. sweep'[s].run = r /\ \A q \in Sweepers \ {s} : sweep'[q] = sweep[q]
    <3>1. sweep[s] \in SweepRec
      BY Parts
    <3> QED BY <2>1, <3>1, Parts, SweepMoves DEF SweepRec
  <2> QED BY <2>1, <2>2, Parts DEF SweepsClosed, Known
<1>19. ASSUME NEW s \in Sweepers, SweepGate(s) PROVE SweepsClosed'
  <2>1. sweep' = [sweep EXCEPT ![s] = [sweep[s] EXCEPT !.pc = "row"]] /\ arch' = arch /\ sweep[s].pc = "gate"
    BY <1>19 DEF SweepGate
  <2>2. sweep'[s].run = sweep[s].run /\ \A q \in Sweepers \ {s} : sweep'[q] = sweep[q]
    <3>1. sweep[s] \in SweepRec
      BY Parts
    <3> QED BY <2>1, <3>1, Parts, SweepMoves DEF SweepRec
  <2> QED BY <2>1, <2>2, Parts DEF SweepsClosed, Known
<1>20. ASSUME NEW s \in Sweepers, SweepRow(s) PROVE SweepsClosed'
  <2>1. sweep' = [sweep EXCEPT ![s] = [sweep[s] EXCEPT !.pc = "close", !.run = NoRun, !.closed = @ \cup {sweep[s].run}]]
        /\ arch' = arch
    BY <1>20 DEF SweepRow
  <2>2. sweep'[s].pc = "close" /\ \A q \in Sweepers \ {s} : sweep'[q] = sweep[q]
    <3>1. sweep[s] \in SweepRec
      BY Parts
    <3> QED BY <2>1, <3>1, Parts, SweepMoves DEF SweepRec
  <2> QED BY <2>1, <2>2 DEF SweepsClosed
<1>21. ASSUME NEW s \in Sweepers, SweepEnd(s) PROVE SweepsClosed'
  <2>1. sweep' = [sweep EXCEPT ![s] = NoSweep] /\ arch' = arch
    BY <1>21 DEF SweepEnd, db
  <2>2. sweep'[s].pc = "none" /\ \A q \in Sweepers \ {s} : sweep'[q] = sweep[q]
    BY <2>1, Parts, SweepMoves DEF NoSweep
  <2> QED BY <2>1, <2>2 DEF SweepsClosed
<1>22. ASSUME NEW t \in Tasks, ResolveRead(t) PROVE SweepsClosed'
  BY <1>22 DEF ResolveRead, SweepsClosed, db, ram, net, actors, device, past
<1>23. ASSUME NEW t \in Tasks, ResolveClaim(t) PROVE SweepsClosed'
  <2>1. \A q \in Runs : arch'[q].status = arch[q].status
    BY <1>23, Parts, ResolveClaimKeeps DEF Kept
  <2>2. sweep' = sweep
    BY <1>23 DEF ResolveClaim
  <2> QED BY <2>1, <2>2, Parts DEF SweepsClosed, Known
<1>24. ASSUME NEW t \in Tasks, ResolveSend(t) PROVE SweepsClosed'
  BY <1>24 DEF ResolveSend, SweepsClosed, db, ram, net, actors, device, past
<1>25. ASSUME NEW t \in Tasks, NEW ok \in BOOLEAN, ResolveAnswer(t, ok) PROVE SweepsClosed'
  <2>1. \A q \in Runs : arch'[q].status = arch[q].status
    <3>1. arch' = [arch EXCEPT ![task[t].run] = Finished(@, ok)]
      BY <1>25 DEF ResolveAnswer
    <3> QED BY <3>1, Parts, AnswerWrites DEF SameStory
  <2>2. sweep' = sweep
    BY <1>25 DEF ResolveAnswer
  <2> QED BY <2>1, <2>2, Parts DEF SweepsClosed, Known
<1>26. ASSUME NEW t \in Tasks, ResolveError(t) PROVE SweepsClosed'
  BY <1>26 DEF ResolveError, SweepsClosed, db, ram, net, actors, device, past
<1>27. ASSUME NEW t \in Tasks, ResolveSettle(t) PROVE SweepsClosed'
  BY <1>27 DEF ResolveSettle, SweepsClosed, db, ram, net, actors, device, past
<1>28. ASSUME NEW t \in Tasks, ResolveHold(t) PROVE SweepsClosed'
  <2>1. \A q \in Runs : arch'[q].status = arch[q].status
    <3>1. arch' = [arch EXCEPT ![task[t].run].held = TRUE]
      BY <1>28 DEF ResolveHold
    <3> QED BY <3>1, Parts, HeldWrites DEF SameStory
  <2>2. sweep' = sweep
    BY <1>28 DEF ResolveHold
  <2> QED BY <2>1, <2>2, Parts DEF SweepsClosed, Known
<1>29. ASSUME NEW r \in Runs, NEW action \in {"clear", "repeat"}, AnswerPlate(r, action) PROVE SweepsClosed'
  BY <1>29 DEF AnswerPlate, SweepsClosed, db, ram, net, actors, device, past
<1>30. ASSUME Resume PROVE SweepsClosed'
  BY <1>30 DEF Resume, SweepsClosed, db, ram, net, actors, device, past
<1>31. ASSUME Drop PROVE SweepsClosed'
  BY <1>31 DEF Drop, SweepsClosed, db, ram, net, actors, device, past
<1>32. ASSUME Connect PROVE SweepsClosed'
  BY <1>32 DEF Connect, SweepsClosed, db, ram, net, actors, device, past
<1>33. ASSUME Crash PROVE SweepsClosed'
  BY <1>33 DEF Crash, NoSweep, SweepsClosed
<1>34. ASSUME Restart PROVE SweepsClosed'
  BY <1>34 DEF Restart, SweepsClosed, db, ram, net, actors, device, past
<1>35. CASE UNCHANGED vars
  BY <1>35 DEF vars, SweepsClosed, db, ram, net, actors, device, past
<1> QED
  BY <1>1, <1>2, <1>3, <1>4, <1>5, <1>6, <1>7, <1>8, <1>9, <1>10, <1>11, <1>12, <1>13, <1>14, <1>15, <1>16,
     <1>17, <1>18, <1>19, <1>20, <1>21, <1>22, <1>23, <1>24, <1>25, <1>26, <1>27, <1>28, <1>29, <1>30, <1>31,
     <1>32, <1>33, <1>34, <1>35
     DEF Next, Printer, Live, Operator, Sweep, Resolve

(* A completion at work knows its row. *)
LiveRow == live.pc # "none" => live.row \in Items
LEMMA LiveRowHolds == OnceInv /\ SwapInv /\ LiveRow /\ [Next]_vars => LiveRow'
<1> SUFFICES ASSUME OnceInv, SwapInv, LiveRow, [Next]_vars PROVE LiveRow'
  OBVIOUS
<1>1. ASSUME NEW i \in Items, Start(i) PROVE LiveRow'
  BY <1>1 DEF Start, LiveRow, db, ram, net, actors, device, past
<1>2. ASSUME NEW outcome \in Terminal, PrintEnds(outcome) PROVE LiveRow'
  BY <1>2 DEF PrintEnds, LiveRow, db, ram, net, actors, device, past
<1>3. ASSUME PrinterForgets PROVE LiveRow'
  BY <1>3 DEF PrinterForgets, LiveRow, db, ram, net, actors, device, past
<1>4. ASSUME NEW r \in Runs, PrinterSwaps(r) PROVE LiveRow'
  BY <1>4 DEF PrinterSwaps, LiveRow, db, ram, net, actors, device, past
<1>5. ASSUME Accept PROVE LiveRow'
  <2>1. PICK i \in Items : live' = [pc |-> "decide", run |-> report.run, row |-> i, outcome |-> report.outcome,
                                     proven |-> proven, cleared |-> FALSE, held |-> FALSE]
    BY <1>5, Parts, AcceptWrites
  <2> QED BY <2>1 DEF LiveRow
<1>6. ASSUME LiveDecide PROVE LiveRow'
  BY <1>6, Parts, DecideMoves DEF SameLive, LiveRow
<1>7. ASSUME LiveClaim PROVE LiveRow'
  BY <1>7, Parts, ClaimMoves DEF SameLive, LiveRow
<1>8. ASSUME LiveSend PROVE LiveRow'
  BY <1>8, Parts, SendMoves DEF SameLive, LiveRow
<1>9. ASSUME NEW ok \in BOOLEAN, LiveAnswer(ok) PROVE LiveRow'
  BY <1>9, Parts, LiveAnswerMoves DEF SameLive, LiveRow
<1>10. ASSUME LiveError PROVE LiveRow'
  BY <1>10, Parts, ErrorMoves DEF SameLive, LiveRow
<1>11. ASSUME LiveHold PROVE LiveRow'
  BY <1>11, Parts, HoldMoves DEF SameLive, LiveRow
<1>12. ASSUME LiveGate PROVE LiveRow'
  BY <1>12, Parts, LiveGateMoves DEF SameLive, LiveRow
<1>13. ASSUME LiveFinalize PROVE LiveRow'
  <2>1. live' = [live EXCEPT !.pc = "tidy"] \/ live' = NoLive
    BY <1>13 DEF LiveFinalize
  <2>2. live.pc = "finalize"
    BY <1>13 DEF LiveFinalize
  <2> QED BY <2>1, <2>2, Parts, TidyFields, NoLiveFields DEF SameLive, LiveRow
<1>14. ASSUME LiveTidy PROVE LiveRow'
  BY <1>14, NoLiveFields DEF LiveTidy, LiveRow
<1>15. ASSUME NEW s \in Sweepers, SweepBegin(s) PROVE LiveRow'
  BY <1>15 DEF SweepBegin, LiveRow, db, ram, net, actors, device, past
<1>16. ASSUME NEW s \in Sweepers, SweepRepair(s) PROVE LiveRow'
  BY <1>16 DEF SweepRepair, LiveRow, db, ram, net, actors, device, past
<1>17. ASSUME NEW s \in Sweepers, NEW r \in Runs, SweepRecover(s, r) PROVE LiveRow'
  BY <1>17 DEF SweepRecover, LiveRow, db, ram, net, actors, device, past
<1>18. ASSUME NEW s \in Sweepers, NEW r \in Runs, SweepClose(s, r) PROVE LiveRow'
  BY <1>18 DEF SweepClose, LiveRow, db, ram, net, actors, device, past
<1>19. ASSUME NEW s \in Sweepers, SweepGate(s) PROVE LiveRow'
  BY <1>19 DEF SweepGate, LiveRow, db, ram, net, actors, device, past
<1>20. ASSUME NEW s \in Sweepers, SweepRow(s) PROVE LiveRow'
  BY <1>20 DEF SweepRow, LiveRow, db, ram, net, actors, device, past
<1>21. ASSUME NEW s \in Sweepers, SweepEnd(s) PROVE LiveRow'
  BY <1>21 DEF SweepEnd, LiveRow, db, ram, net, actors, device, past
<1>22. ASSUME NEW t \in Tasks, ResolveRead(t) PROVE LiveRow'
  BY <1>22 DEF ResolveRead, LiveRow, db, ram, net, actors, device, past, SetTask
<1>23. ASSUME NEW t \in Tasks, ResolveClaim(t) PROVE LiveRow'
  BY <1>23 DEF ResolveClaim, LiveRow, db, ram, net, actors, device, past, SetTask
<1>24. ASSUME NEW t \in Tasks, ResolveSend(t) PROVE LiveRow'
  BY <1>24 DEF ResolveSend, LiveRow, db, ram, net, actors, device, past, SetTask
<1>25. ASSUME NEW t \in Tasks, NEW ok \in BOOLEAN, ResolveAnswer(t, ok) PROVE LiveRow'
  BY <1>25 DEF ResolveAnswer, LiveRow, db, ram, net, actors, device, past, SetTask
<1>26. ASSUME NEW t \in Tasks, ResolveError(t) PROVE LiveRow'
  BY <1>26 DEF ResolveError, LiveRow, db, ram, net, actors, device, past, SetTask
<1>27. ASSUME NEW t \in Tasks, ResolveSettle(t) PROVE LiveRow'
  BY <1>27 DEF ResolveSettle, LiveRow, db, ram, net, actors, device, past, SetTask
<1>28. ASSUME NEW t \in Tasks, ResolveHold(t) PROVE LiveRow'
  BY <1>28 DEF ResolveHold, LiveRow, db, ram, net, actors, device, past, SetTask
<1>29. ASSUME NEW r \in Runs, NEW action \in {"clear", "repeat"}, AnswerPlate(r, action) PROVE LiveRow'
  BY <1>29 DEF AnswerPlate, LiveRow, db, ram, net, actors, device, past
<1>30. ASSUME Resume PROVE LiveRow'
  BY <1>30 DEF Resume, LiveRow, db, ram, net, actors, device, past
<1>31. ASSUME Drop PROVE LiveRow'
  BY <1>31 DEF Drop, LiveRow, db, ram, net, actors, device, past
<1>32. ASSUME Connect PROVE LiveRow'
  BY <1>32 DEF Connect, LiveRow, db, ram, net, actors, device, past
<1>33. ASSUME Crash PROVE LiveRow'
  BY <1>33, NoLiveFields DEF Crash, LiveRow
<1>34. ASSUME Restart PROVE LiveRow'
  BY <1>34 DEF Restart, LiveRow, db, ram, net, actors, device, past
<1>35. CASE UNCHANGED vars
  BY <1>35 DEF vars, LiveRow, db, ram, net, actors, device, past
<1> QED
  BY <1>1, <1>2, <1>3, <1>4, <1>5, <1>6, <1>7, <1>8, <1>9, <1>10, <1>11, <1>12, <1>13, <1>14, <1>15, <1>16,
     <1>17, <1>18, <1>19, <1>20, <1>21, <1>22, <1>23, <1>24, <1>25, <1>26, <1>27, <1>28, <1>29, <1>30, <1>31,
     <1>32, <1>33, <1>34, <1>35
     DEF Next, Printer, Live, Operator, Sweep, Resolve

LEMMA RowOKHolds == OnceInv /\ SwapInv /\ SweepsClosed /\ RowOK /\ [Next]_vars => RowOK'
<1> SUFFICES ASSUME OnceInv, SwapInv, SweepsClosed, RowOK, [Next]_vars PROVE RowOK'
  OBVIOUS
<1>1. ASSUME NEW i \in Items, Start(i) PROVE RowOK'
  <2>1. PICK r \in Runs : row' = [row EXCEPT ![i] = "printing"] /\ link' = [link EXCEPT ![i] = r]
    BY <1>1, Parts, StartWrites
  <2> QED BY <2>1 DEF RowOK, RowStates
<1>2. ASSUME NEW outcome \in Terminal, PrintEnds(outcome) PROVE RowOK'
  BY <1>2 DEF PrintEnds, RowOK, db, ram, net, actors, device, past
<1>3. ASSUME PrinterForgets PROVE RowOK'
  BY <1>3 DEF PrinterForgets, RowOK, db, ram, net, actors, device, past
<1>4. ASSUME NEW r \in Runs, PrinterSwaps(r) PROVE RowOK'
  BY <1>4 DEF PrinterSwaps, RowOK, db, ram, net, actors, device, past
<1>5. ASSUME Accept PROVE RowOK'
  BY <1>5 DEF Accept, RowOK, db, ram, net, actors, device, past
<1>6. ASSUME LiveDecide PROVE RowOK'
  BY <1>6 DEF LiveDecide, RowOK, db, ram, net, actors, device, past
<1>7. ASSUME LiveClaim PROVE RowOK'
  BY <1>7 DEF LiveClaim, RowOK, db, ram, net, actors, device, past
<1>8. ASSUME LiveSend PROVE RowOK'
  BY <1>8 DEF LiveSend, RowOK, db, ram, net, actors, device, past
<1>9. ASSUME NEW ok \in BOOLEAN, LiveAnswer(ok) PROVE RowOK'
  BY <1>9 DEF LiveAnswer, RowOK, db, ram, net, actors, device, past
<1>10. ASSUME LiveError PROVE RowOK'
  BY <1>10 DEF LiveError, RowOK, db, ram, net, actors, device, past
<1>11. ASSUME LiveHold PROVE RowOK'
  BY <1>11 DEF LiveHold, RowOK, db, ram, net, actors, device, past
<1>12. ASSUME LiveGate PROVE RowOK'
  BY <1>12 DEF LiveGate, RowOK, db, ram, net, actors, device, past
<1>13. ASSUME LiveFinalize PROVE RowOK'
  <2>1. link' = link /\ (row' = row \/ (live.outcome \in Terminal /\ row' = [row EXCEPT ![live.row] = live.outcome]))
    BY <1>13, Parts, EndsWrites DEF LiveFinalize
  <2> QED BY <2>1 DEF RowOK, RowStates
<1>14. ASSUME LiveTidy PROVE RowOK'
  <2>1. link' = link /\ (row' = row \/ row' = [row EXCEPT ![live.row] = "gone"])
    BY <1>14, TidyWrites DEF LiveTidy
  <2> QED BY <2>1 DEF RowOK, RowStates
<1>15. ASSUME NEW s \in Sweepers, SweepBegin(s) PROVE RowOK'
  BY <1>15 DEF SweepBegin, RowOK, db, ram, net, actors, device, past
<1>16. ASSUME NEW s \in Sweepers, SweepRepair(s) PROVE RowOK'
  <2>1. link' = link
    BY <1>16 DEF SweepRepair
  <2>2. CASE row' = row
    BY <2>1, <2>2 DEF RowOK
  <2>3. CASE /\ \A i \in Items : row[i] = "printing" => link[i] # NoRun /\ arch[link[i]].status \in Terminal
             /\ row' = [i \in Items |-> IF row[i] = "printing" THEN arch[link[i]].status ELSE row[i]]
    BY <2>1, <2>3 DEF RowOK, RowStates
  <2> QED BY <1>16, <2>2, <2>3, RepairWrites
<1>17. ASSUME NEW s \in Sweepers, NEW r \in Runs, SweepRecover(s, r) PROVE RowOK'
  <2>1. PICK i \in Items : row' = [row EXCEPT ![i] = arch[r].outcome] /\ arch[r].outcome \in Terminal
    BY <1>17, Parts, RecoverWrites
  <2>2. link' = link
    BY <1>17 DEF SweepRecover
  <2> QED BY <2>1, <2>2 DEF RowOK, RowStates
<1>18. ASSUME NEW s \in Sweepers, NEW r \in Runs, SweepClose(s, r) PROVE RowOK'
  BY <1>18 DEF SweepClose, RowOK, db, ram, net, actors, device, past
<1>19. ASSUME NEW s \in Sweepers, SweepGate(s) PROVE RowOK'
  BY <1>19 DEF SweepGate, RowOK, db, ram, net, actors, device, past
<1>20. ASSUME NEW s \in Sweepers, SweepRow(s) PROVE RowOK'
  <2>1. link' = link /\ arch[sweep[s].run].status \in Terminal
    BY <1>20 DEF SweepRow, SweepsClosed
  <2>2. \/ row' = row
        \/ \E i \in Items : \/ row' = [row EXCEPT ![i] = arch[sweep[s].run].status]
                            \/ row' = [row EXCEPT ![i] = "gone"]
    BY <1>20, <2>1, SweepRowWrites
  <2> QED BY <2>1, <2>2 DEF RowOK, RowStates
<1>21. ASSUME NEW s \in Sweepers, SweepEnd(s) PROVE RowOK'
  BY <1>21 DEF SweepEnd, RowOK, db, ram, net, actors, device, past
<1>22. ASSUME NEW t \in Tasks, ResolveRead(t) PROVE RowOK'
  BY <1>22 DEF ResolveRead, RowOK, db, ram, net, actors, device, past
<1>23. ASSUME NEW t \in Tasks, ResolveClaim(t) PROVE RowOK'
  BY <1>23 DEF ResolveClaim, RowOK, db, ram, net, actors, device, past
<1>24. ASSUME NEW t \in Tasks, ResolveSend(t) PROVE RowOK'
  BY <1>24 DEF ResolveSend, RowOK, db, ram, net, actors, device, past
<1>25. ASSUME NEW t \in Tasks, NEW ok \in BOOLEAN, ResolveAnswer(t, ok) PROVE RowOK'
  BY <1>25 DEF ResolveAnswer, RowOK, db, ram, net, actors, device, past
<1>26. ASSUME NEW t \in Tasks, ResolveError(t) PROVE RowOK'
  BY <1>26 DEF ResolveError, RowOK, db, ram, net, actors, device, past
<1>27. ASSUME NEW t \in Tasks, ResolveSettle(t) PROVE RowOK'
  <2>1. link' = link /\ (row' = row \/ row' = [i \in Items |-> IF i \in RowOf(task[t].run, "completed") THEN "gone" ELSE row[i]])
    BY <1>27, SettleWrites DEF ResolveSettle
  <2> QED BY <2>1 DEF RowOK, RowStates
<1>28. ASSUME NEW t \in Tasks, ResolveHold(t) PROVE RowOK'
  <2>1. link' = link /\ (row' = row \/ row' = [i \in Items |-> IF i \in RowOf(task[t].run, "completed") THEN "gone" ELSE row[i]])
    BY <1>28, SettleWrites DEF ResolveHold
  <2> QED BY <2>1 DEF RowOK, RowStates
<1>29. ASSUME NEW r \in Runs, NEW action \in {"clear", "repeat"}, AnswerPlate(r, action) PROVE RowOK'
  <2>1. /\ \E f \in [Items -> {"pending", "gone"} \cup RowStates] : row' = f
        /\ \E f \in [Items -> Runs \cup {NoRun}] : link' = f
    <3>1. \A i \in Items : row'[i] \in RowStates /\ link'[i] \in Runs \cup {NoRun}
      BY <1>29, AnswersWrite DEF RowOK, RowStates
    <3>2. row' = [i \in Items |-> row'[i]] /\ link' = [i \in Items |-> link'[i]]
      BY <1>29 DEF AnswerPlate
    <3> QED BY <3>1, <3>2
  <2> QED BY <2>1 DEF RowStates, RowOK
<1>30. ASSUME Resume PROVE RowOK'
  BY <1>30 DEF Resume, RowOK, db, ram, net, actors, device, past
<1>31. ASSUME Drop PROVE RowOK'
  BY <1>31 DEF Drop, RowOK, db, ram, net, actors, device, past
<1>32. ASSUME Connect PROVE RowOK'
  BY <1>32 DEF Connect, RowOK, db, ram, net, actors, device, past
<1>33. ASSUME Crash PROVE RowOK'
  BY <1>33 DEF Crash, RowOK, db, ram, net, actors, device, past
<1>34. ASSUME Restart PROVE RowOK'
  BY <1>34 DEF Restart, RowOK, db, ram, net, actors, device, past
<1>35. CASE UNCHANGED vars
  BY <1>35 DEF vars, RowOK, db, ram, net, actors, device, past
<1> QED
  BY <1>1, <1>2, <1>3, <1>4, <1>5, <1>6, <1>7, <1>8, <1>9, <1>10, <1>11, <1>12, <1>13, <1>14, <1>15, <1>16,
     <1>17, <1>18, <1>19, <1>20, <1>21, <1>22, <1>23, <1>24, <1>25, <1>26, <1>27, <1>28, <1>29, <1>30, <1>31,
     <1>32, <1>33, <1>34, <1>35
     DEF Next, Printer, Live, Operator, Sweep, Resolve

LEMMA RowInvHolds == OnceInv /\ SwapInv /\ SweepsClosed /\ LiveRow /\ RowOK /\ RowInv /\ [Next]_vars => RowInv'
<1> SUFFICES ASSUME OnceInv, SwapInv, SweepsClosed, LiveRow, RowOK, RowInv, [Next]_vars PROVE RowInv'
  OBVIOUS
<1>1. ASSUME NEW i \in Items, Start(i) PROVE RowInv'
  <2>1. PICK r \in Runs :
           /\ arch[r].status = "none" /\ \A q \in Runs \ {r} : arch'[q] = arch[q]
           /\ arch'[r].status = "printing"
           /\ row' = [row EXCEPT ![i] = "printing"] /\ link' = [link EXCEPT ![i] = r]
    BY <1>1, Parts, StartWrites
  <2>2. /\ row'[i] = "printing" /\ link'[i] = r
        /\ \A j \in Items \ {i} : row'[j] = row[j] /\ link'[j] = link[j] /\ link[j] # r
    BY <2>1, RunsAreNumbers DEF RowOK, RowInv, LinkMade
  <2>3. \A j \in Items : link[j] # NoRun => link[j] \in Runs
    BY DEF RowOK
  <2>4. LinkMade'
    BY <2>1, <2>2, <2>3 DEF RowInv, LinkMade
  <2>5. PrintingLinked' /\ LinkInjective'
    BY <2>2, RunsAreNumbers DEF RowInv, PrintingLinked, LinkInjective
  <2>6. RowAgreesWithRun'
    <3>1. "printing" \notin Terminal
      BY DEF Terminal
    <3> QED BY <2>1, <2>2, <2>3, <3>1 DEF RowInv, RowAgreesWithRun
  <2> QED BY <2>4, <2>5, <2>6 DEF RowInv
<1>2. ASSUME NEW outcome \in Terminal, PrintEnds(outcome) PROVE RowInv'
  BY <1>2 DEF PrintEnds, RowInv, LinkMade, PrintingLinked, LinkInjective, RowAgreesWithRun, db, ram, net,
     actors, device, past
<1>3. ASSUME PrinterForgets PROVE RowInv'
  BY <1>3 DEF PrinterForgets, RowInv, LinkMade, PrintingLinked, LinkInjective, RowAgreesWithRun, db, ram, net,
     actors, device, past
<1>4. ASSUME NEW r \in Runs, PrinterSwaps(r) PROVE RowInv'
  BY <1>4 DEF PrinterSwaps, RowInv, LinkMade, PrintingLinked, LinkInjective, RowAgreesWithRun, db, ram, net,
     actors, device, past
<1>5. ASSUME Accept PROVE RowInv'
  <2>1. \A q \in Runs : arch'[q].status = arch[q].status
    BY <1>5, Parts, AcceptWrites
  <2>2. UNCHANGED <<row, link>>
    BY <1>5 DEF Accept
  <2> QED BY <2>1, <2>2, RowsOnlyGo
<1>6. ASSUME LiveDecide PROVE RowInv'
  BY <1>6 DEF LiveDecide, RowInv, LinkMade, PrintingLinked, LinkInjective, RowAgreesWithRun, db, ram, net,
     actors, device, past
<1>7. ASSUME LiveClaim PROVE RowInv'
  <2>1. \A q \in Runs : arch'[q].status = arch[q].status
    BY <1>7, QuietKeeps DEF Quiet, SameStory
  <2>2. UNCHANGED <<row, link>>
    BY <1>7 DEF LiveClaim
  <2> QED BY <2>1, <2>2, RowsOnlyGo
<1>8. ASSUME LiveSend PROVE RowInv'
  BY <1>8 DEF LiveSend, RowInv, LinkMade, PrintingLinked, LinkInjective, RowAgreesWithRun, db, ram, net,
     actors, device, past
<1>9. ASSUME NEW ok \in BOOLEAN, LiveAnswer(ok) PROVE RowInv'
  <2>1. \A q \in Runs : arch'[q].status = arch[q].status
    BY <1>9, QuietKeeps DEF Quiet, SameStory
  <2>2. UNCHANGED <<row, link>>
    BY <1>9 DEF LiveAnswer
  <2> QED BY <2>1, <2>2, RowsOnlyGo
<1>10. ASSUME LiveError PROVE RowInv'
  BY <1>10 DEF LiveError, RowInv, LinkMade, PrintingLinked, LinkInjective, RowAgreesWithRun, db, ram, net,
     actors, device, past
<1>11. ASSUME LiveHold PROVE RowInv'
  <2>1. \A q \in Runs : arch'[q].status = arch[q].status
    BY <1>11, QuietKeeps DEF Quiet, SameStory
  <2>2. UNCHANGED <<row, link>>
    BY <1>11 DEF LiveHold
  <2> QED BY <2>1, <2>2, RowsOnlyGo
<1>12. ASSUME LiveGate PROVE RowInv'
  BY <1>12 DEF LiveGate, RowInv, LinkMade, PrintingLinked, LinkInjective, RowAgreesWithRun, db, ram, net,
     actors, device, past
<1>13. ASSUME LiveFinalize PROVE RowInv'
  <2>1. link' = link /\ live.run \in Runs /\ live.row \in Items
    BY <1>13, Parts DEF LiveFinalize, LiveTruth, LiveRow
  <2>2. CASE UNCHANGED <<row, arch>>
    BY <2>1, <2>2, RowsOnlyGo
  <2>3. CASE ~UNCHANGED <<row, arch>>
    <3>1. /\ live.outcome \in Terminal
          /\ row[live.row] = "printing" /\ link[live.row] = live.run /\ arch[live.run].status = "printing"
          /\ row' = [row EXCEPT ![live.row] = live.outcome]
          /\ \A q \in Runs \ {live.run} : arch'[q].status = arch[q].status
          /\ arch'[live.run].status = live.outcome
      BY <1>13, <2>1, <2>3, Parts, EndsWrites
    <3> QED BY <2>1, <3>1, RunEnds
  <2> QED BY <2>2, <2>3
<1>14. ASSUME LiveTidy PROVE RowInv'
  <2>1. arch' = arch /\ link' = link
    BY <1>14 DEF LiveTidy
  <2>2. \A i \in Items : row'[i] = row[i] \/ row'[i] = "gone"
    BY <1>14, TidyWrites DEF RowOK
  <2> QED BY <2>1, <2>2, RowsOnlyGo
<1>15. ASSUME NEW s \in Sweepers, SweepBegin(s) PROVE RowInv'
  BY <1>15 DEF SweepBegin, RowInv, LinkMade, PrintingLinked, LinkInjective, RowAgreesWithRun, db, ram, net,
     actors, device, past
<1>16. ASSUME NEW s \in Sweepers, SweepRepair(s) PROVE RowInv'
  <2>1. link' = link /\ arch' = arch
    BY <1>16 DEF SweepRepair
  <2>2. CASE row' = row
    BY <2>1, <2>2, RowsOnlyGo
  <2>3. CASE /\ \A i \in Items : row[i] = "printing" => link[i] # NoRun /\ arch[link[i]].status \in Terminal
             /\ row' = [i \in Items |-> IF row[i] = "printing" THEN arch[link[i]].status ELSE row[i]]
    <3>1. \A i \in Items : row'[i] = row[i] \/ (row'[i] = arch[link[i]].status /\ row'[i] # "printing")
      BY <2>3 DEF Terminal
    <3> QED BY <2>1, <3>1 DEF RowInv, LinkMade, PrintingLinked, LinkInjective, RowAgreesWithRun
  <2> QED BY <1>16, <2>2, <2>3, RepairWrites
<1>17. ASSUME NEW s \in Sweepers, NEW r \in Runs, SweepRecover(s, r) PROVE RowInv'
  <2>1. PICK i \in Items :
           /\ row[i] = "printing" /\ link[i] = r /\ row' = [row EXCEPT ![i] = arch[r].outcome]
           /\ arch[r].outcome \in Terminal /\ arch[r].status # "none"
           /\ arch'[r].status = arch[r].outcome /\ \A q \in Runs \ {r} : arch'[q] = arch[q]
    BY <1>17, Parts, RecoverWrites
  <2>2. link' = link
    BY <1>17 DEF SweepRecover
  <2> QED BY <2>1, <2>2, RunEnds
<1>18. ASSUME NEW s \in Sweepers, NEW r \in Runs, SweepClose(s, r) PROVE RowInv'
  <2>1. /\ \A q \in Runs \ {r} : arch'[q] = arch[q]
        /\ arch[r].status = "printing" /\ arch'[r].status \in Terminal
    BY <1>18, Parts, ClosingWrites
  <2>2. UNCHANGED <<row, link>>
    BY <1>18 DEF SweepClose
  <2>3. "none" \notin Terminal /\ "printing" \notin Terminal
    BY DEF Terminal
  <2>4. \A j \in Items : link[j] # NoRun => link[j] \in Runs
    BY DEF RowOK
  <2>5. LinkMade' /\ PrintingLinked' /\ LinkInjective'
    BY <2>1, <2>2, <2>3, <2>4 DEF RowInv, LinkMade, PrintingLinked, LinkInjective
  <2>6. RowAgreesWithRun'
    BY <2>1, <2>2, <2>3, <2>4 DEF RowInv, RowAgreesWithRun
  <2> QED BY <2>5, <2>6 DEF RowInv
<1>19. ASSUME NEW s \in Sweepers, SweepGate(s) PROVE RowInv'
  BY <1>19 DEF SweepGate, RowInv, LinkMade, PrintingLinked, LinkInjective, RowAgreesWithRun, db, ram, net,
     actors, device, past
<1>20. ASSUME NEW s \in Sweepers, SweepRow(s) PROVE RowInv'
  <2>1. link' = link /\ arch' = arch /\ arch[sweep[s].run].status \in Terminal
    BY <1>20 DEF SweepRow, SweepsClosed
  <2>2. \A i \in Items : \/ row'[i] = row[i] \/ row'[i] = "gone"
                         \/ link[i] = sweep[s].run /\ row'[i] = arch[sweep[s].run].status
    BY <1>20, <2>1, SweepRowWrites DEF RowOK
  <2>3. "gone" \notin Terminal /\ "printing" \notin Terminal
    BY DEF Terminal
  <2> QED BY <2>1, <2>2, <2>3 DEF RowInv, LinkMade, PrintingLinked, LinkInjective, RowAgreesWithRun
<1>21. ASSUME NEW s \in Sweepers, SweepEnd(s) PROVE RowInv'
  BY <1>21 DEF SweepEnd, RowInv, LinkMade, PrintingLinked, LinkInjective, RowAgreesWithRun, db, ram, net,
     actors, device, past
<1>22. ASSUME NEW t \in Tasks, ResolveRead(t) PROVE RowInv'
  BY <1>22 DEF ResolveRead, RowInv, LinkMade, PrintingLinked, LinkInjective, RowAgreesWithRun, db, ram, net,
     actors, device, past
<1>23. ASSUME NEW t \in Tasks, ResolveClaim(t) PROVE RowInv'
  <2>1. \A q \in Runs : arch'[q].status = arch[q].status
    BY <1>23, QuietKeeps DEF Quiet, SameStory
  <2>2. UNCHANGED <<row, link>>
    BY <1>23 DEF ResolveClaim
  <2> QED BY <2>1, <2>2, RowsOnlyGo
<1>24. ASSUME NEW t \in Tasks, ResolveSend(t) PROVE RowInv'
  BY <1>24 DEF ResolveSend, RowInv, LinkMade, PrintingLinked, LinkInjective, RowAgreesWithRun, db, ram, net,
     actors, device, past
<1>25. ASSUME NEW t \in Tasks, NEW ok \in BOOLEAN, ResolveAnswer(t, ok) PROVE RowInv'
  <2>1. \A q \in Runs : arch'[q].status = arch[q].status
    BY <1>25, QuietKeeps DEF Quiet, SameStory
  <2>2. UNCHANGED <<row, link>>
    BY <1>25 DEF ResolveAnswer
  <2> QED BY <2>1, <2>2, RowsOnlyGo
<1>26. ASSUME NEW t \in Tasks, ResolveError(t) PROVE RowInv'
  BY <1>26 DEF ResolveError, RowInv, LinkMade, PrintingLinked, LinkInjective, RowAgreesWithRun, db, ram, net,
     actors, device, past
<1>27. ASSUME NEW t \in Tasks, ResolveSettle(t) PROVE RowInv'
  <2>1. arch' = arch
    BY <1>27 DEF ResolveSettle
  <2>2. link' = link /\ \A i \in Items : row'[i] = row[i] \/ row'[i] = "gone"
    BY <1>27, SettleWrites DEF ResolveSettle
  <2> QED BY <2>1, <2>2, RowsOnlyGo
<1>28. ASSUME NEW t \in Tasks, ResolveHold(t) PROVE RowInv'
  <2>1. \A q \in Runs : arch'[q].status = arch[q].status
    BY <1>28, QuietKeeps DEF Quiet, SameStory
  <2>2. link' = link /\ \A i \in Items : row'[i] = row[i] \/ row'[i] = "gone"
    BY <1>28, SettleWrites DEF ResolveHold
  <2> QED BY <2>1, <2>2, RowsOnlyGo
<1>29. ASSUME NEW r \in Runs, NEW action \in {"clear", "repeat"}, AnswerPlate(r, action) PROVE RowInv'
  <2>1. arch' = arch
    BY <1>29 DEF AnswerPlate
  <2>2. \A i \in Items : \/ row'[i] = row[i] /\ link'[i] = link[i]
                         \/ link'[i] = NoRun /\ row'[i] = "pending"
                         \/ link'[i] = link[i] /\ row'[i] = "gone"
    BY <1>29, AnswersWrite
  <2>3. "gone" \notin Terminal /\ "pending" \notin Terminal
    BY DEF Terminal
  <2> QED BY <2>1, <2>2, <2>3 DEF RowInv, LinkMade, PrintingLinked, LinkInjective, RowAgreesWithRun
<1>30. ASSUME Resume PROVE RowInv'
  BY <1>30 DEF Resume, RowInv, LinkMade, PrintingLinked, LinkInjective, RowAgreesWithRun, db, ram, net,
     actors, device, past
<1>31. ASSUME Drop PROVE RowInv'
  BY <1>31 DEF Drop, RowInv, LinkMade, PrintingLinked, LinkInjective, RowAgreesWithRun, db, ram, net, actors,
     device, past
<1>32. ASSUME Connect PROVE RowInv'
  BY <1>32 DEF Connect, RowInv, LinkMade, PrintingLinked, LinkInjective, RowAgreesWithRun, db, ram, net,
     actors, device, past
<1>33. ASSUME Crash PROVE RowInv'
  BY <1>33 DEF Crash, RowInv, LinkMade, PrintingLinked, LinkInjective, RowAgreesWithRun, db, ram, net, actors,
     device, past
<1>34. ASSUME Restart PROVE RowInv'
  BY <1>34 DEF Restart, RowInv, LinkMade, PrintingLinked, LinkInjective, RowAgreesWithRun, db, ram, net,
     actors, device, past
<1>35. CASE UNCHANGED vars
  BY <1>35 DEF vars, RowInv, LinkMade, PrintingLinked, LinkInjective, RowAgreesWithRun, db, ram, net, actors, device, past
<1> QED
  BY <1>1, <1>2, <1>3, <1>4, <1>5, <1>6, <1>7, <1>8, <1>9, <1>10, <1>11, <1>12, <1>13, <1>14, <1>15, <1>16,
     <1>17, <1>18, <1>19, <1>20, <1>21, <1>22, <1>23, <1>24, <1>25, <1>26, <1>27, <1>28, <1>29, <1>30, <1>31,
     <1>32, <1>33, <1>34, <1>35
     DEF Next, Printer, Live, Operator, Sweep, Resolve


(* Where a lane may go but by the start of a print. *)
Freed(status) == [status |-> status, current |-> NoItem]

LEMMA HaltWrites ==
    ASSUME NEW status \in Halted, NEW i
    PROVE  Halt(status, i) = lane \/ (lane.current = i /\ Halt(status, i) = Freed(status))
  BY DEF Halt, Freed

LEMMA LaneAfterWrites ==
    ASSUME NEW outcome \in Terminal, NEW i
    PROVE  \/ LaneAfter(outcome, i) = lane
           \/ /\ lane.current = i
              /\ \/ outcome # "completed" /\ \E status \in Halted : LaneAfter(outcome, i) = Freed(status)
                 \/ outcome = "completed" /\ lane.status = "printing" /\ LaneAfter(outcome, i) = Freed("idle")
<1>1. CASE outcome = "completed"
  <2>1. LaneAfter(outcome, i) = Release(i)
    BY <1>1 DEF LaneAfter
  <2> QED BY <1>1, <2>1 DEF Release, Freed
<1>2. CASE outcome = "failed"
  <2>1. LaneAfter(outcome, i) = Halt("error", i)
    BY <1>2 DEF LaneAfter
  <2> QED BY <1>2, <2>1, HaltWrites DEF Halted
<1>3. CASE outcome = "cancelled"
  <2>1. LaneAfter(outcome, i) = Halt("paused", i)
    BY <1>3 DEF LaneAfter
  <2> QED BY <1>3, <2>1, HaltWrites DEF Halted
<1> QED BY <1>1, <1>2, <1>3 DEF Terminal

(* What each step that is not a start does to the lane. *)
LaneStays == lane' = lane
LaneIdles == lane' = Freed("idle")
LaneHalts == \E status \in Halted : lane' = Freed(status)

LEMMA LaneOfFree == ASSUME NEW status \in {"idle"} \cup Halted PROVE Freed(status) \in LaneRec
  BY DEF Freed, LaneRec, Halted

LEMMA LaneOKHolds == OnceInv /\ SwapInv /\ SweepsClosed /\ RowOK /\ LaneOK /\ [Next]_vars => LaneOK'
<1> SUFFICES ASSUME OnceInv, SwapInv, SweepsClosed, RowOK, LaneOK, [Next]_vars PROVE LaneOK'
  OBVIOUS
<1>1. ASSUME NEW i \in Items, Start(i) PROVE LaneOK'
  <2>1. lane' = [status |-> "printing", current |-> i]
    BY <1>1, Parts, StartWrites
  <2> QED BY <2>1 DEF LaneOK, LaneRec
<1>2. ASSUME NEW outcome \in Terminal, PrintEnds(outcome) PROVE LaneOK'
  BY <1>2 DEF PrintEnds, LaneOK, db, ram, net, actors, device, past
<1>3. ASSUME PrinterForgets PROVE LaneOK'
  BY <1>3 DEF PrinterForgets, LaneOK, db, ram, net, actors, device, past
<1>4. ASSUME NEW r \in Runs, PrinterSwaps(r) PROVE LaneOK'
  BY <1>4 DEF PrinterSwaps, LaneOK, db, ram, net, actors, device, past
<1>5. ASSUME Accept PROVE LaneOK'
  BY <1>5 DEF Accept, LaneOK, db, ram, net, actors, device, past
<1>6. ASSUME LiveDecide PROVE LaneOK'
  BY <1>6 DEF LiveDecide, LaneOK, db, ram, net, actors, device, past
<1>7. ASSUME LiveClaim PROVE LaneOK'
  BY <1>7 DEF LiveClaim, LaneOK, db, ram, net, actors, device, past
<1>8. ASSUME LiveSend PROVE LaneOK'
  BY <1>8 DEF LiveSend, LaneOK, db, ram, net, actors, device, past
<1>9. ASSUME NEW ok \in BOOLEAN, LiveAnswer(ok) PROVE LaneOK'
  <2>1. lane' = lane \/ lane' = Halt("paused", live.row)
    BY <1>9 DEF LiveAnswer
  <2> QED BY <2>1, HaltWrites, LaneOfFree DEF LaneOK, Halted
<1>10. ASSUME LiveError PROVE LaneOK'
  BY <1>10 DEF LiveError, LaneOK, db, ram, net, actors, device, past
<1>11. ASSUME LiveHold PROVE LaneOK'
  <2>1. lane' = lane \/ lane' = Halt("paused", live.row)
    BY <1>11 DEF LiveHold
  <2> QED BY <2>1, HaltWrites, LaneOfFree DEF LaneOK, Halted
<1>12. ASSUME LiveGate PROVE LaneOK'
  BY <1>12 DEF LiveGate, LaneOK, db, ram, net, actors, device, past
<1>13. ASSUME LiveFinalize PROVE LaneOK'
  <2>1. live.outcome \in Terminal /\ (lane' = lane \/ lane' = LaneAfter(live.outcome, live.row))
    BY <1>13, Parts, EndsWrites
  <2>2. lane' = lane \/ \E status \in {"idle"} \cup Halted : lane' = Freed(status)
    <3>1. CASE lane' = lane
      BY <3>1
    <3>2. CASE lane' = LaneAfter(live.outcome, live.row)
      <4>1. \/ LaneAfter(live.outcome, live.row) = lane
            \/ \E status \in Halted : LaneAfter(live.outcome, live.row) = Freed(status)
            \/ LaneAfter(live.outcome, live.row) = Freed("idle")
        BY <2>1, LaneAfterWrites
      <4> QED BY <3>2, <4>1
    <3> QED BY <2>1, <3>1, <3>2
  <2> QED BY <2>2, LaneOfFree DEF LaneOK
<1>14. ASSUME LiveTidy PROVE LaneOK'
  BY <1>14 DEF LiveTidy, LaneOK, db, ram, net, actors, device, past
<1>15. ASSUME NEW s \in Sweepers, SweepBegin(s) PROVE LaneOK'
  BY <1>15 DEF SweepBegin, LaneOK, db, ram, net, actors, device, past
<1>16. ASSUME NEW s \in Sweepers, SweepRepair(s) PROVE LaneOK'
  <2>1. lane' = lane \/ \E status \in Halted : lane' = Freed(status)
    BY <1>16, RepairWrites DEF Halted, Freed
  <2> QED BY <2>1, LaneOfFree DEF LaneOK
<1>17. ASSUME NEW s \in Sweepers, NEW r \in Runs, SweepRecover(s, r) PROVE LaneOK'
  <2>1. \E i \in Items : lane' = Halt("paused", i)
    BY <1>17, Parts, RecoverWrites
  <2> QED BY <2>1, HaltWrites, LaneOfFree DEF LaneOK, Halted
<1>18. ASSUME NEW s \in Sweepers, NEW r \in Runs, SweepClose(s, r) PROVE LaneOK'
  BY <1>18 DEF SweepClose, LaneOK, db, ram, net, actors, device, past
<1>19. ASSUME NEW s \in Sweepers, SweepGate(s) PROVE LaneOK'
  BY <1>19 DEF SweepGate, LaneOK, db, ram, net, actors, device, past
<1>20. ASSUME NEW s \in Sweepers, SweepRow(s) PROVE LaneOK'
  <2>1. lane' = lane \/ \E status \in {"idle"} \cup Halted : lane' = Freed(status)
    <3>1. arch[sweep[s].run].status \in Terminal
      BY <1>20 DEF SweepRow, SweepsClosed
    <3> QED BY <1>20, <3>1, SweepRowWrites DEF Halted, Freed
  <2> QED BY <2>1, LaneOfFree DEF LaneOK
<1>21. ASSUME NEW s \in Sweepers, SweepEnd(s) PROVE LaneOK'
  BY <1>21 DEF SweepEnd, LaneOK, db, ram, net, actors, device, past
<1>22. ASSUME NEW t \in Tasks, ResolveRead(t) PROVE LaneOK'
  BY <1>22 DEF ResolveRead, LaneOK, db, ram, net, actors, device, past
<1>23. ASSUME NEW t \in Tasks, ResolveClaim(t) PROVE LaneOK'
  BY <1>23 DEF ResolveClaim, LaneOK, db, ram, net, actors, device, past
<1>24. ASSUME NEW t \in Tasks, ResolveSend(t) PROVE LaneOK'
  BY <1>24 DEF ResolveSend, LaneOK, db, ram, net, actors, device, past
<1>25. ASSUME NEW t \in Tasks, NEW ok \in BOOLEAN, ResolveAnswer(t, ok) PROVE LaneOK'
  BY <1>25 DEF ResolveAnswer, LaneOK, db, ram, net, actors, device, past
<1>26. ASSUME NEW t \in Tasks, ResolveError(t) PROVE LaneOK'
  BY <1>26 DEF ResolveError, LaneOK, db, ram, net, actors, device, past
<1>27. ASSUME NEW t \in Tasks, ResolveSettle(t) PROVE LaneOK'
  <2>1. lane' = lane \/ \E status \in {"idle"} \cup Halted : lane' = Freed(status)
    BY <1>27, SettleWrites DEF ResolveSettle, Halted, Freed
  <2> QED BY <2>1, LaneOfFree DEF LaneOK
<1>28. ASSUME NEW t \in Tasks, ResolveHold(t) PROVE LaneOK'
  <2>1. lane' = lane \/ \E status \in {"idle"} \cup Halted : lane' = Freed(status)
    BY <1>28, SettleWrites DEF ResolveHold, Halted, Freed
  <2> QED BY <2>1, LaneOfFree DEF LaneOK
<1>29. ASSUME NEW r \in Runs, NEW action \in {"clear", "repeat"}, AnswerPlate(r, action) PROVE LaneOK'
  BY <1>29 DEF AnswerPlate, LaneOK, db, ram, net, actors, device, past
<1>30. ASSUME Resume PROVE LaneOK'
  <2>1. lane' = Freed("idle")
    BY <1>30 DEF Resume, Freed
  <2> QED BY <2>1, LaneOfFree DEF LaneOK
<1>31. ASSUME Drop PROVE LaneOK'
  BY <1>31 DEF Drop, LaneOK, db, ram, net, actors, device, past
<1>32. ASSUME Connect PROVE LaneOK'
  BY <1>32 DEF Connect, LaneOK, db, ram, net, actors, device, past
<1>33. ASSUME Crash PROVE LaneOK'
  BY <1>33 DEF Crash, LaneOK, db, ram, net, actors, device, past
<1>34. ASSUME Restart PROVE LaneOK'
  BY <1>34 DEF Restart, LaneOK, db, ram, net, actors, device, past
<1>35. CASE UNCHANGED vars
  BY <1>35 DEF vars, LaneOK, db, ram, net, actors, device, past
<1> QED
  BY <1>1, <1>2, <1>3, <1>4, <1>5, <1>6, <1>7, <1>8, <1>9, <1>10, <1>11, <1>12, <1>13, <1>14, <1>15, <1>16,
     <1>17, <1>18, <1>19, <1>20, <1>21, <1>22, <1>23, <1>24, <1>25, <1>26, <1>27, <1>28, <1>29, <1>30, <1>31,
     <1>32, <1>33, <1>34, <1>35
     DEF Next, Printer, Live, Operator, Sweep, Resolve

LEMMA RamOKHolds == OnceInv /\ SwapInv /\ RamOK /\ [Next]_vars => RamOK'
<1> SUFFICES ASSUME OnceInv, SwapInv, RamOK, [Next]_vars PROVE RamOK'
  OBVIOUS
<1>1. ASSUME NEW i \in Items, Start(i) PROVE RamOK'
  <2>1. \E r \in Runs : bound' = r /\ config' \in {r, NoRun}
    BY <1>1, Parts, StartWrites
  <2> QED BY <1>1, <2>1 DEF Start, RamOK, net, past
<1>2. ASSUME NEW outcome \in Terminal, PrintEnds(outcome) PROVE RamOK'
  BY <1>2 DEF PrintEnds, RamOK, Fault, db, ram, net, actors, device, past
<1>3. ASSUME PrinterForgets PROVE RamOK'
  BY <1>3 DEF PrinterForgets, RamOK, Fault, db, ram, net, actors, device, past
<1>4. ASSUME NEW r \in Runs, PrinterSwaps(r) PROVE RamOK'
  BY <1>4 DEF PrinterSwaps, RamOK, Fault, db, ram, net, actors, device, past
<1>5. ASSUME Accept PROVE RamOK'
  BY <1>5 DEF Accept, RamOK, Fault, db, ram, net, actors, device, past
<1>6. ASSUME LiveDecide PROVE RamOK'
  BY <1>6 DEF LiveDecide, RamOK, Fault, db, ram, net, actors, device, past
<1>7. ASSUME LiveClaim PROVE RamOK'
  <2>1. live.run \in Runs
    BY <1>7, Parts DEF LiveClaim, LiveTruth
  <2> QED BY <1>7, <2>1 DEF LiveClaim, RamOK, net, device
<1>8. ASSUME LiveSend PROVE RamOK'
  <2>1. live.run \in Runs
    BY <1>8, Parts DEF LiveSend, LiveTruth
  <2> QED BY <1>8, <2>1 DEF LiveSend, RamOK, db, ram, net, device
<1>9. ASSUME NEW ok \in BOOLEAN, LiveAnswer(ok) PROVE RamOK'
  BY <1>9 DEF LiveAnswer, RamOK, Fault, db, ram, net, actors, device, past
<1>10. ASSUME LiveError PROVE RamOK'
  BY <1>10, BoundsAssumption DEF LiveError, Fault, RamOK, db, ram, net, actors, device, past
<1>11. ASSUME LiveHold PROVE RamOK'
  BY <1>11 DEF LiveHold, RamOK, Fault, db, ram, net, actors, device, past
<1>12. ASSUME LiveGate PROVE RamOK'
  <2>1. live.run \in Runs
    BY <1>12, Parts DEF LiveGate, LiveTruth
  <2> QED BY <1>12, <2>1 DEF LiveGate, RamOK, ram, net, device
<1>13. ASSUME LiveFinalize PROVE RamOK'
  BY <1>13 DEF LiveFinalize, RamOK, Fault, db, ram, net, actors, device, past
<1>14. ASSUME LiveTidy PROVE RamOK'
  BY <1>14 DEF LiveTidy, RamOK, Fault, db, ram, net, actors, device, past
<1>15. ASSUME NEW s \in Sweepers, SweepBegin(s) PROVE RamOK'
  <2>1. dev.run \in Runs \cup {NoRun}
    BY Parts DEF OtherOK
  <2>2. bound' \in {dev.run, bound}
    BY <1>15 DEF SweepBegin
  <2> QED BY <1>15, <2>1, <2>2 DEF SweepBegin, RamOK, db, device
<1>16. ASSUME NEW s \in Sweepers, SweepRepair(s) PROVE RamOK'
  BY <1>16 DEF SweepRepair, RamOK, Fault, db, ram, net, actors, device, past
<1>17. ASSUME NEW s \in Sweepers, NEW r \in Runs, SweepRecover(s, r) PROVE RamOK'
  BY <1>17 DEF SweepRecover, RamOK, Fault, db, ram, net, actors, device, past
<1>18. ASSUME NEW s \in Sweepers, NEW r \in Runs, SweepClose(s, r) PROVE RamOK'
  BY <1>18 DEF SweepClose, RamOK, Fault, db, ram, net, actors, device, past
<1>19. ASSUME NEW s \in Sweepers, SweepGate(s) PROVE RamOK'
  <2>1. sweep[s].run \in Runs
    BY <1>19, Parts DEF SweepGate, Known
  <2> QED BY <1>19, <2>1 DEF SweepGate, RamOK, ram, net, device
<1>20. ASSUME NEW s \in Sweepers, SweepRow(s) PROVE RamOK'
  BY <1>20 DEF SweepRow, RamOK, Fault, db, ram, net, actors, device, past
<1>21. ASSUME NEW s \in Sweepers, SweepEnd(s) PROVE RamOK'
  BY <1>21 DEF SweepEnd, RamOK, Fault, db, ram, net, actors, device, past
<1>22. ASSUME NEW t \in Tasks, ResolveRead(t) PROVE RamOK'
  BY <1>22 DEF ResolveRead, RamOK, Fault, db, ram, net, actors, device, past
<1>23. ASSUME NEW t \in Tasks, ResolveClaim(t) PROVE RamOK'
  <2>1. task[t].run \in Runs
    BY <1>23, Parts DEF ResolveClaim, TaskOwns
  <2> QED BY <1>23, <2>1 DEF ResolveClaim, RamOK, net, device
<1>24. ASSUME NEW t \in Tasks, ResolveSend(t) PROVE RamOK'
  <2>1. task[t].run \in Runs
    BY <1>24, Parts DEF ResolveSend, TaskOwns
  <2> QED BY <1>24, <2>1 DEF ResolveSend, RamOK, db, ram, net, device
<1>25. ASSUME NEW t \in Tasks, NEW ok \in BOOLEAN, ResolveAnswer(t, ok) PROVE RamOK'
  BY <1>25 DEF ResolveAnswer, RamOK, Fault, db, ram, net, actors, device, past
<1>26. ASSUME NEW t \in Tasks, ResolveError(t) PROVE RamOK'
  BY <1>26, BoundsAssumption DEF ResolveError, Fault, RamOK, db, ram, net, actors, device, past
<1>27. ASSUME NEW t \in Tasks, ResolveSettle(t) PROVE RamOK'
  BY <1>27 DEF ResolveSettle, RamOK, Fault, db, ram, net, actors, device, past
<1>28. ASSUME NEW t \in Tasks, ResolveHold(t) PROVE RamOK'
  BY <1>28 DEF ResolveHold, RamOK, Fault, db, ram, net, actors, device, past
<1>29. ASSUME NEW r \in Runs, NEW action \in {"clear", "repeat"}, AnswerPlate(r, action) PROVE RamOK'
  BY <1>29 DEF AnswerPlate, RamOK, Fault, db, ram, net, actors, device, past
<1>30. ASSUME Resume PROVE RamOK'
  BY <1>30 DEF Resume, RamOK, Fault, db, ram, net, actors, device, past
<1>31. ASSUME Drop PROVE RamOK'
  BY <1>31, BoundsAssumption DEF Drop, Fault, RamOK, db, ram, net, actors, device, past
<1>32. ASSUME Connect PROVE RamOK'
  BY <1>32 DEF Connect, RamOK, Fault, db, ram, net, actors, device, past
<1>33. ASSUME Crash PROVE RamOK'
  BY <1>33, BoundsAssumption DEF Crash, Fault, RamOK, db, ram, net, actors, device, past
<1>34. ASSUME Restart PROVE RamOK'
  BY <1>34 DEF Restart, RamOK, Fault, db, ram, net, actors, device, past
<1>35. CASE UNCHANGED vars
  BY <1>35 DEF vars, RamOK, db, ram, net, actors, device, past
<1> QED
  BY <1>1, <1>2, <1>3, <1>4, <1>5, <1>6, <1>7, <1>8, <1>9, <1>10, <1>11, <1>12, <1>13, <1>14, <1>15, <1>16,
     <1>17, <1>18, <1>19, <1>20, <1>21, <1>22, <1>23, <1>24, <1>25, <1>26, <1>27, <1>28, <1>29, <1>30, <1>31,
     <1>32, <1>33, <1>34, <1>35
     DEF Next, Printer, Live, Operator, Sweep, Resolve

LEMMA FlagsOKHolds == FlagsOK /\ [Next]_vars => FlagsOK'
<1> SUFFICES ASSUME FlagsOK, [Next]_vars PROVE FlagsOK'
  OBVIOUS
<1>1. ASSUME NEW i \in Items, Start(i) PROVE FlagsOK'
  BY <1>1, Zenon DEF Start, FlagsOK, db, ram, net, actors, device, past
<1>2. ASSUME NEW outcome \in Terminal, PrintEnds(outcome) PROVE FlagsOK'
  <2>1. onPlate' \in BOOLEAN
    BY <1>2 DEF PrintEnds
  <2> QED BY <1>2, <2>1, Zenon DEF PrintEnds, FlagsOK, net, device
<1>3. ASSUME PrinterForgets PROVE FlagsOK'
  BY <1>3, Zenon DEF PrinterForgets, FlagsOK, db, ram, net, actors, device, past
<1>4. ASSUME NEW r \in Runs, PrinterSwaps(r) PROVE FlagsOK'
  BY <1>4, Zenon DEF PrinterSwaps, FlagsOK, db, ram, net, actors, device, past
<1>5. ASSUME Accept PROVE FlagsOK'
  BY <1>5, Zenon DEF Accept, FlagsOK, db, ram, net, actors, device, past
<1>6. ASSUME LiveDecide PROVE FlagsOK'
  BY <1>6, Zenon DEF LiveDecide, FlagsOK, db, ram, net, actors, device, past
<1>7. ASSUME LiveClaim PROVE FlagsOK'
  BY <1>7, Zenon DEF LiveClaim, FlagsOK, db, ram, net, actors, device, past
<1>8. ASSUME LiveSend PROVE FlagsOK'
  BY <1>8, Zenon DEF LiveSend, FlagsOK, db, ram, net, actors, device, past
<1>9. ASSUME NEW ok \in BOOLEAN, LiveAnswer(ok) PROVE FlagsOK'
  BY <1>9, Zenon DEF LiveAnswer, FlagsOK, db, ram, net, actors, device, past
<1>10. ASSUME LiveError PROVE FlagsOK'
  BY <1>10, Zenon DEF LiveError, FlagsOK, db, ram, net, actors, device, past
<1>11. ASSUME LiveHold PROVE FlagsOK'
  BY <1>11, Zenon DEF LiveHold, FlagsOK, db, ram, net, actors, device, past
<1>12. ASSUME LiveGate PROVE FlagsOK'
  BY <1>12, Zenon DEF LiveGate, FlagsOK, db, ram, net, actors, device, past
<1>13. ASSUME LiveFinalize PROVE FlagsOK'
  BY <1>13, Zenon DEF LiveFinalize, FlagsOK, db, ram, net, actors, device, past
<1>14. ASSUME LiveTidy PROVE FlagsOK'
  BY <1>14, Zenon DEF LiveTidy, FlagsOK, db, ram, net, actors, device, past
<1>15. ASSUME NEW s \in Sweepers, SweepBegin(s) PROVE FlagsOK'
  BY <1>15, Zenon DEF SweepBegin, FlagsOK, db, ram, net, actors, device, past
<1>16. ASSUME NEW s \in Sweepers, SweepRepair(s) PROVE FlagsOK'
  BY <1>16, Zenon DEF SweepRepair, FlagsOK, db, ram, net, actors, device, past
<1>17. ASSUME NEW s \in Sweepers, NEW r \in Runs, SweepRecover(s, r) PROVE FlagsOK'
  BY <1>17, Zenon DEF SweepRecover, FlagsOK, db, ram, net, actors, device, past
<1>18. ASSUME NEW s \in Sweepers, NEW r \in Runs, SweepClose(s, r) PROVE FlagsOK'
  BY <1>18, Zenon DEF SweepClose, FlagsOK, db, ram, net, actors, device, past
<1>19. ASSUME NEW s \in Sweepers, SweepGate(s) PROVE FlagsOK'
  BY <1>19, Zenon DEF SweepGate, FlagsOK, db, ram, net, actors, device, past
<1>20. ASSUME NEW s \in Sweepers, SweepRow(s) PROVE FlagsOK'
  BY <1>20, Zenon DEF SweepRow, FlagsOK, db, ram, net, actors, device, past
<1>21. ASSUME NEW s \in Sweepers, SweepEnd(s) PROVE FlagsOK'
  BY <1>21, Zenon DEF SweepEnd, FlagsOK, db, ram, net, actors, device, past
<1>22. ASSUME NEW t \in Tasks, ResolveRead(t) PROVE FlagsOK'
  BY <1>22, Zenon DEF ResolveRead, FlagsOK, db, ram, net, actors, device, past
<1>23. ASSUME NEW t \in Tasks, ResolveClaim(t) PROVE FlagsOK'
  BY <1>23, Zenon DEF ResolveClaim, FlagsOK, db, ram, net, actors, device, past
<1>24. ASSUME NEW t \in Tasks, ResolveSend(t) PROVE FlagsOK'
  BY <1>24, Zenon DEF ResolveSend, FlagsOK, db, ram, net, actors, device, past
<1>25. ASSUME NEW t \in Tasks, NEW ok \in BOOLEAN, ResolveAnswer(t, ok) PROVE FlagsOK'
  BY <1>25, Zenon DEF ResolveAnswer, FlagsOK, db, ram, net, actors, device, past
<1>26. ASSUME NEW t \in Tasks, ResolveError(t) PROVE FlagsOK'
  BY <1>26, Zenon DEF ResolveError, FlagsOK, db, ram, net, actors, device, past
<1>27. ASSUME NEW t \in Tasks, ResolveSettle(t) PROVE FlagsOK'
  BY <1>27, Zenon DEF ResolveSettle, FlagsOK, db, ram, net, actors, device, past
<1>28. ASSUME NEW t \in Tasks, ResolveHold(t) PROVE FlagsOK'
  BY <1>28, Zenon DEF ResolveHold, FlagsOK, db, ram, net, actors, device, past
<1>29. ASSUME NEW r \in Runs, NEW action \in {"clear", "repeat"}, AnswerPlate(r, action) PROVE FlagsOK'
  BY <1>29, Zenon DEF AnswerPlate, FlagsOK, db, ram, net, actors, device, past
<1>30. ASSUME Resume PROVE FlagsOK'
  BY <1>30, Zenon DEF Resume, FlagsOK, db, ram, net, actors, device, past
<1>31. ASSUME Drop PROVE FlagsOK'
  BY <1>31, Zenon DEF Drop, FlagsOK, db, ram, net, actors, device, past
<1>32. ASSUME Connect PROVE FlagsOK'
  BY <1>32, Zenon DEF Connect, FlagsOK, db, ram, net, actors, device, past
<1>33. ASSUME Crash PROVE FlagsOK'
  BY <1>33, Zenon DEF Crash, FlagsOK, db, ram, net, actors, device, past
<1>34. ASSUME Restart PROVE FlagsOK'
  BY <1>34, Zenon DEF Restart, FlagsOK, db, ram, net, actors, device, past
<1>35. CASE UNCHANGED vars
  BY <1>35, Zenon DEF vars, FlagsOK, db, ram, net, actors, device, past
<1> QED
  BY <1>1, <1>2, <1>3, <1>4, <1>5, <1>6, <1>7, <1>8, <1>9, <1>10, <1>11, <1>12, <1>13, <1>14, <1>15, <1>16,
     <1>17, <1>18, <1>19, <1>20, <1>21, <1>22, <1>23, <1>24, <1>25, <1>26, <1>27, <1>28, <1>29, <1>30, <1>31,
     <1>32, <1>33, <1>34, <1>35
     DEF Next, Printer, Live, Operator, Sweep, Resolve


Made(r) == arch[r].status # "none"

(* What every step but the start of a print leaves alone: the runs there    *)
(* are, whose the lane is, the row of a run, what the printer prints.       *)
NoStart ==
    /\ \A q \in Runs : Made(q)' <=> Made(q)
    /\ lane' = lane \/ \E status \in {"idle"} \cup Halted : lane' = Freed(status)
    /\ \A i \in Items : link'[i] \in {link[i], NoRun}
    /\ dev' = dev \/ dev'.state # "printing"

StartOrNot == (\E i \in Items : Start(i)) \/ NoStart

LEMMA StepFrame == OnceInv /\ SwapInv /\ SweepsClosed /\ RowOK /\ [Next]_vars => StartOrNot
<1> SUFFICES ASSUME OnceInv, SwapInv, SweepsClosed, RowOK, [Next]_vars PROVE StartOrNot
  OBVIOUS
<1>1. ASSUME NEW i \in Items, Start(i) PROVE StartOrNot
  BY <1>1 DEF StartOrNot
<1>2. ASSUME NEW outcome \in Terminal, PrintEnds(outcome) PROVE StartOrNot
  <2>1. \A q \in Runs : Made(q)' <=> Made(q)
    BY <1>2 DEF PrintEnds, Made, db, ram, net, actors, device, past
  <2>2. lane' = lane \/ \E status \in {"idle"} \cup Halted : lane' = Freed(status)
    BY <1>2 DEF PrintEnds, db, ram, net, actors, device, past
  <2>3. \A i \in Items : link'[i] \in {link[i], NoRun}
    BY <1>2 DEF PrintEnds, db, ram, net, actors, device, past
  <2>4. dev' = dev \/ dev'.state # "printing"
    <3>1. dev' = [dev EXCEPT !.state = IF outcome = "completed" THEN "finished" ELSE "failed"]
          /\ dev \in [state : {"idle", "printing", "finished", "failed"}, run : Runs \cup {NoRun}]
      BY <1>2, Parts DEF PrintEnds, OtherOK
    <3> QED BY <3>1
  <2> QED BY <2>1, <2>2, <2>3, <2>4 DEF StartOrNot, NoStart
<1>3. ASSUME PrinterForgets PROVE StartOrNot
  BY <1>3 DEF PrinterForgets, StartOrNot, NoStart, Made, db, ram, net, actors, device, past
<1>4. ASSUME NEW r \in Runs, PrinterSwaps(r) PROVE StartOrNot
  BY <1>4 DEF PrinterSwaps, StartOrNot, NoStart, Made, db, ram, net, actors, device, past
<1>5. ASSUME Accept PROVE StartOrNot
  <2>1. \A q \in Runs : Made(q)' <=> Made(q)
    BY <1>5, Parts, AcceptWrites DEF Made
  <2>2. lane' = lane \/ \E status \in {"idle"} \cup Halted : lane' = Freed(status)
    BY <1>5 DEF Accept, db, ram, net, actors, device, past
  <2>3. \A i \in Items : link'[i] \in {link[i], NoRun}
    BY <1>5 DEF Accept, db, ram, net, actors, device, past
  <2>4. dev' = dev \/ dev'.state # "printing"
    BY <1>5 DEF Accept, db, ram, net, actors, device, past
  <2> QED BY <2>1, <2>2, <2>3, <2>4 DEF StartOrNot, NoStart
<1>6. ASSUME LiveDecide PROVE StartOrNot
  BY <1>6 DEF LiveDecide, StartOrNot, NoStart, Made, db, ram, net, actors, device, past
<1>7. ASSUME LiveClaim PROVE StartOrNot
  <2>1. \A q \in Runs : Made(q)' <=> Made(q)
    BY <1>7, QuietKeeps DEF Quiet, SameStory, Made
  <2>2. lane' = lane \/ \E status \in {"idle"} \cup Halted : lane' = Freed(status)
    BY <1>7 DEF LiveClaim, db, ram, net, actors, device, past
  <2>3. \A i \in Items : link'[i] \in {link[i], NoRun}
    BY <1>7 DEF LiveClaim, db, ram, net, actors, device, past
  <2>4. dev' = dev \/ dev'.state # "printing"
    BY <1>7 DEF LiveClaim, db, ram, net, actors, device, past
  <2> QED BY <2>1, <2>2, <2>3, <2>4 DEF StartOrNot, NoStart
<1>8. ASSUME LiveSend PROVE StartOrNot
  BY <1>8 DEF LiveSend, StartOrNot, NoStart, Made, db, ram, net, actors, device, past
<1>9. ASSUME NEW ok \in BOOLEAN, LiveAnswer(ok) PROVE StartOrNot
  <2>1. \A q \in Runs : Made(q)' <=> Made(q)
    BY <1>9, QuietKeeps DEF Quiet, SameStory, Made
  <2>2. lane' = lane \/ \E status \in {"idle"} \cup Halted : lane' = Freed(status)
    <3>1. lane' = lane \/ lane' = Halt("paused", live.row)
      BY <1>9 DEF LiveAnswer
    <3> QED BY <3>1, HaltWrites DEF Halted
  <2>3. \A i \in Items : link'[i] \in {link[i], NoRun}
    BY <1>9 DEF LiveAnswer, db, ram, net, actors, device, past
  <2>4. dev' = dev \/ dev'.state # "printing"
    BY <1>9 DEF LiveAnswer, db, ram, net, actors, device, past
  <2> QED BY <2>1, <2>2, <2>3, <2>4 DEF StartOrNot, NoStart
<1>10. ASSUME LiveError PROVE StartOrNot
  BY <1>10 DEF LiveError, StartOrNot, NoStart, Made, db, ram, net, actors, device, past
<1>11. ASSUME LiveHold PROVE StartOrNot
  <2>1. \A q \in Runs : Made(q)' <=> Made(q)
    BY <1>11, QuietKeeps DEF Quiet, SameStory, Made
  <2>2. lane' = lane \/ \E status \in {"idle"} \cup Halted : lane' = Freed(status)
    <3>1. lane' = lane \/ lane' = Halt("paused", live.row)
      BY <1>11 DEF LiveHold
    <3> QED BY <3>1, HaltWrites DEF Halted
  <2>3. \A i \in Items : link'[i] \in {link[i], NoRun}
    BY <1>11 DEF LiveHold, db, ram, net, actors, device, past
  <2>4. dev' = dev \/ dev'.state # "printing"
    BY <1>11 DEF LiveHold, db, ram, net, actors, device, past
  <2> QED BY <2>1, <2>2, <2>3, <2>4 DEF StartOrNot, NoStart
<1>12. ASSUME LiveGate PROVE StartOrNot
  BY <1>12 DEF LiveGate, StartOrNot, NoStart, Made, db, ram, net, actors, device, past
<1>13. ASSUME LiveFinalize PROVE StartOrNot
  <2>1. \A q \in Runs : Made(q)' <=> Made(q)
    <3>1. \A q \in Runs : arch'[q] = arch[q] \/ (arch'[q].status \in Terminal /\ arch[q].status = "printing")
      BY <1>13, Parts, EndsWrites
    <3> QED BY <3>1 DEF Made, Terminal
  <2>2. lane' = lane \/ \E status \in {"idle"} \cup Halted : lane' = Freed(status)
    <3>1. live.outcome \in Terminal /\ (lane' = lane \/ lane' = LaneAfter(live.outcome, live.row))
      BY <1>13, Parts, EndsWrites
    <3>2. CASE lane' = LaneAfter(live.outcome, live.row)
      <4>1. \/ LaneAfter(live.outcome, live.row) = lane
            \/ \E status \in Halted : LaneAfter(live.outcome, live.row) = Freed(status)
            \/ LaneAfter(live.outcome, live.row) = Freed("idle")
        BY <3>1, LaneAfterWrites
      <4> QED BY <3>2, <4>1
    <3> QED BY <3>1, <3>2
  <2>3. \A i \in Items : link'[i] \in {link[i], NoRun}
    BY <1>13 DEF LiveFinalize, db, ram, net, actors, device, past
  <2>4. dev' = dev \/ dev'.state # "printing"
    BY <1>13 DEF LiveFinalize, db, ram, net, actors, device, past
  <2> QED BY <2>1, <2>2, <2>3, <2>4 DEF StartOrNot, NoStart
<1>14. ASSUME LiveTidy PROVE StartOrNot
  BY <1>14 DEF LiveTidy, StartOrNot, NoStart, Made, db, ram, net, actors, device, past
<1>15. ASSUME NEW s \in Sweepers, SweepBegin(s) PROVE StartOrNot
  BY <1>15 DEF SweepBegin, StartOrNot, NoStart, Made, db, ram, net, actors, device, past
<1>16. ASSUME NEW s \in Sweepers, SweepRepair(s) PROVE StartOrNot
  <2>1. \A q \in Runs : Made(q)' <=> Made(q)
    BY <1>16 DEF SweepRepair, Made, db, ram, net, actors, device, past
  <2>2. lane' = lane \/ \E status \in {"idle"} \cup Halted : lane' = Freed(status)
    BY <1>16, RepairWrites DEF Halted, Freed
  <2>3. \A i \in Items : link'[i] \in {link[i], NoRun}
    BY <1>16 DEF SweepRepair, db, ram, net, actors, device, past
  <2>4. dev' = dev \/ dev'.state # "printing"
    BY <1>16 DEF SweepRepair, db, ram, net, actors, device, past
  <2> QED BY <2>1, <2>2, <2>3, <2>4 DEF StartOrNot, NoStart
<1>17. ASSUME NEW s \in Sweepers, NEW r \in Runs, SweepRecover(s, r) PROVE StartOrNot
  <2>1. \A q \in Runs : Made(q)' <=> Made(q)
    <3>1. /\ \A q \in Runs \ {r} : arch'[q] = arch[q]
          /\ arch[r].status # "none" /\ arch'[r].status \in Terminal
      BY <1>17, Parts, RecoverWrites
    <3> QED BY <3>1 DEF Made, Terminal
  <2>2. lane' = lane \/ \E status \in {"idle"} \cup Halted : lane' = Freed(status)
    <3>1. \E i \in Items : lane' = Halt("paused", i)
      BY <1>17, Parts, RecoverWrites
    <3> QED BY <3>1, HaltWrites DEF Halted
  <2>3. \A i \in Items : link'[i] \in {link[i], NoRun}
    BY <1>17 DEF SweepRecover, db, ram, net, actors, device, past
  <2>4. dev' = dev \/ dev'.state # "printing"
    BY <1>17 DEF SweepRecover, db, ram, net, actors, device, past
  <2> QED BY <2>1, <2>2, <2>3, <2>4 DEF StartOrNot, NoStart
<1>18. ASSUME NEW s \in Sweepers, NEW r \in Runs, SweepClose(s, r) PROVE StartOrNot
  <2>1. \A q \in Runs : Made(q)' <=> Made(q)
    <3>1. /\ \A q \in Runs \ {r} : arch'[q] = arch[q]
          /\ arch[r].status # "none" /\ arch'[r].status \in Terminal
      BY <1>18, Parts, ClosingWrites
    <3> QED BY <3>1 DEF Made, Terminal
  <2>2. lane' = lane \/ \E status \in {"idle"} \cup Halted : lane' = Freed(status)
    BY <1>18 DEF SweepClose, db, ram, net, actors, device, past
  <2>3. \A i \in Items : link'[i] \in {link[i], NoRun}
    BY <1>18 DEF SweepClose, db, ram, net, actors, device, past
  <2>4. dev' = dev \/ dev'.state # "printing"
    BY <1>18 DEF SweepClose, db, ram, net, actors, device, past
  <2> QED BY <2>1, <2>2, <2>3, <2>4 DEF StartOrNot, NoStart
<1>19. ASSUME NEW s \in Sweepers, SweepGate(s) PROVE StartOrNot
  BY <1>19 DEF SweepGate, StartOrNot, NoStart, Made, db, ram, net, actors, device, past
<1>20. ASSUME NEW s \in Sweepers, SweepRow(s) PROVE StartOrNot
  <2>1. \A q \in Runs : Made(q)' <=> Made(q)
    BY <1>20 DEF SweepRow, Made, db, ram, net, actors, device, past
  <2>2. lane' = lane \/ \E status \in {"idle"} \cup Halted : lane' = Freed(status)
    <3>1. arch[sweep[s].run].status \in Terminal
      BY <1>20 DEF SweepRow, SweepsClosed
    <3> QED BY <1>20, <3>1, SweepRowWrites DEF Halted, Freed
  <2>3. \A i \in Items : link'[i] \in {link[i], NoRun}
    BY <1>20 DEF SweepRow, db, ram, net, actors, device, past
  <2>4. dev' = dev \/ dev'.state # "printing"
    BY <1>20 DEF SweepRow, db, ram, net, actors, device, past
  <2> QED BY <2>1, <2>2, <2>3, <2>4 DEF StartOrNot, NoStart
<1>21. ASSUME NEW s \in Sweepers, SweepEnd(s) PROVE StartOrNot
  BY <1>21 DEF SweepEnd, StartOrNot, NoStart, Made, db, ram, net, actors, device, past
<1>22. ASSUME NEW t \in Tasks, ResolveRead(t) PROVE StartOrNot
  BY <1>22 DEF ResolveRead, StartOrNot, NoStart, Made, db, ram, net, actors, device, past
<1>23. ASSUME NEW t \in Tasks, ResolveClaim(t) PROVE StartOrNot
  <2>1. \A q \in Runs : Made(q)' <=> Made(q)
    BY <1>23, QuietKeeps DEF Quiet, SameStory, Made
  <2>2. lane' = lane \/ \E status \in {"idle"} \cup Halted : lane' = Freed(status)
    BY <1>23 DEF ResolveClaim, db, ram, net, actors, device, past
  <2>3. \A i \in Items : link'[i] \in {link[i], NoRun}
    BY <1>23 DEF ResolveClaim, db, ram, net, actors, device, past
  <2>4. dev' = dev \/ dev'.state # "printing"
    BY <1>23 DEF ResolveClaim, db, ram, net, actors, device, past
  <2> QED BY <2>1, <2>2, <2>3, <2>4 DEF StartOrNot, NoStart
<1>24. ASSUME NEW t \in Tasks, ResolveSend(t) PROVE StartOrNot
  BY <1>24 DEF ResolveSend, StartOrNot, NoStart, Made, db, ram, net, actors, device, past
<1>25. ASSUME NEW t \in Tasks, NEW ok \in BOOLEAN, ResolveAnswer(t, ok) PROVE StartOrNot
  <2>1. \A q \in Runs : Made(q)' <=> Made(q)
    BY <1>25, QuietKeeps DEF Quiet, SameStory, Made
  <2>2. lane' = lane \/ \E status \in {"idle"} \cup Halted : lane' = Freed(status)
    BY <1>25 DEF ResolveAnswer, db, ram, net, actors, device, past
  <2>3. \A i \in Items : link'[i] \in {link[i], NoRun}
    BY <1>25 DEF ResolveAnswer, db, ram, net, actors, device, past
  <2>4. dev' = dev \/ dev'.state # "printing"
    BY <1>25 DEF ResolveAnswer, db, ram, net, actors, device, past
  <2> QED BY <2>1, <2>2, <2>3, <2>4 DEF StartOrNot, NoStart
<1>26. ASSUME NEW t \in Tasks, ResolveError(t) PROVE StartOrNot
  BY <1>26 DEF ResolveError, StartOrNot, NoStart, Made, db, ram, net, actors, device, past
<1>27. ASSUME NEW t \in Tasks, ResolveSettle(t) PROVE StartOrNot
  <2>1. \A q \in Runs : Made(q)' <=> Made(q)
    BY <1>27 DEF ResolveSettle, Made, db, ram, net, actors, device, past
  <2>2. lane' = lane \/ \E status \in {"idle"} \cup Halted : lane' = Freed(status)
    BY <1>27, SettleWrites DEF ResolveSettle, Halted, Freed
  <2>3. \A i \in Items : link'[i] \in {link[i], NoRun}
    BY <1>27 DEF ResolveSettle, db, ram, net, actors, device, past
  <2>4. dev' = dev \/ dev'.state # "printing"
    BY <1>27 DEF ResolveSettle, db, ram, net, actors, device, past
  <2> QED BY <2>1, <2>2, <2>3, <2>4 DEF StartOrNot, NoStart
<1>28. ASSUME NEW t \in Tasks, ResolveHold(t) PROVE StartOrNot
  <2>1. \A q \in Runs : Made(q)' <=> Made(q)
    BY <1>28, QuietKeeps DEF Quiet, SameStory, Made
  <2>2. lane' = lane \/ \E status \in {"idle"} \cup Halted : lane' = Freed(status)
    BY <1>28, SettleWrites DEF ResolveHold, Halted, Freed
  <2>3. \A i \in Items : link'[i] \in {link[i], NoRun}
    BY <1>28 DEF ResolveHold, db, ram, net, actors, device, past
  <2>4. dev' = dev \/ dev'.state # "printing"
    BY <1>28 DEF ResolveHold, db, ram, net, actors, device, past
  <2> QED BY <2>1, <2>2, <2>3, <2>4 DEF StartOrNot, NoStart
<1>29. ASSUME NEW r \in Runs, NEW action \in {"clear", "repeat"}, AnswerPlate(r, action) PROVE StartOrNot
  <2>1. \A q \in Runs : Made(q)' <=> Made(q)
    BY <1>29 DEF AnswerPlate, Made, db, ram, net, actors, device, past
  <2>2. lane' = lane \/ \E status \in {"idle"} \cup Halted : lane' = Freed(status)
    BY <1>29 DEF AnswerPlate, db, ram, net, actors, device, past
  <2>3. \A i \in Items : link'[i] \in {link[i], NoRun}
    BY <1>29, AnswersWrite
  <2>4. dev' = dev \/ dev'.state # "printing"
    BY <1>29 DEF AnswerPlate, db, ram, net, actors, device, past
  <2> QED BY <2>1, <2>2, <2>3, <2>4 DEF StartOrNot, NoStart
<1>30. ASSUME Resume PROVE StartOrNot
  <2>1. \A q \in Runs : Made(q)' <=> Made(q)
    BY <1>30 DEF Resume, Made, db, ram, net, actors, device, past
  <2>2. lane' = lane \/ \E status \in {"idle"} \cup Halted : lane' = Freed(status)
    BY <1>30 DEF Resume, Freed
  <2>3. \A i \in Items : link'[i] \in {link[i], NoRun}
    BY <1>30 DEF Resume, db, ram, net, actors, device, past
  <2>4. dev' = dev \/ dev'.state # "printing"
    BY <1>30 DEF Resume, db, ram, net, actors, device, past
  <2> QED BY <2>1, <2>2, <2>3, <2>4 DEF StartOrNot, NoStart
<1>31. ASSUME Drop PROVE StartOrNot
  BY <1>31 DEF Drop, StartOrNot, NoStart, Made, db, ram, net, actors, device, past
<1>32. ASSUME Connect PROVE StartOrNot
  BY <1>32 DEF Connect, StartOrNot, NoStart, Made, db, ram, net, actors, device, past
<1>33. ASSUME Crash PROVE StartOrNot
  BY <1>33 DEF Crash, StartOrNot, NoStart, Made, db, ram, net, actors, device, past
<1>34. ASSUME Restart PROVE StartOrNot
  BY <1>34 DEF Restart, StartOrNot, NoStart, Made, db, ram, net, actors, device, past
<1>35. CASE UNCHANGED vars
  BY <1>35 DEF vars, StartOrNot, NoStart, Made, db, ram, net, actors, device, past
<1> QED
  BY <1>1, <1>2, <1>3, <1>4, <1>5, <1>6, <1>7, <1>8, <1>9, <1>10, <1>11, <1>12, <1>13, <1>14, <1>15, <1>16,
     <1>17, <1>18, <1>19, <1>20, <1>21, <1>22, <1>23, <1>24, <1>25, <1>26, <1>27, <1>28, <1>29, <1>30, <1>31,
     <1>32, <1>33, <1>34, <1>35
     DEF Next, Printer, Live, Operator, Sweep, Resolve


(* A run that no later one has followed is the last there is. *)
LEMMA LastRun ==
    ASSUME NEW q \in Runs, NEW r \in Runs, Made(q), Made(r), OwnsEffect(q), OwnsEffect(r)
    PROVE  q = r
<1>1. q \in Nat /\ r \in Nat
  BY RunsAreNumbers
<1>2. ~(q > r) /\ ~(r > q)
  BY DEF OwnsEffect, Made
<1> QED BY <1>1, <1>2

(* Runs are made in their order, and the last of them has the lane and the  *)
(* printer, if any has.                                                     *)
MadeInOrder == \A q, r \in Runs : q < r /\ Made(r) => Made(q)
CurrentPrints == lane.current # NoItem => lane.status = "printing"
LaneIsLast == \A i \in Items : lane.current = i /\ link[i] # NoRun => OwnsEffect(link[i])
DevIsLast == dev.state = "printing" => OwnsEffect(dev.run)
OrderInv == MadeInOrder /\ CurrentPrints /\ LaneIsLast /\ DevIsLast

LEMMA OrderHolds ==
    OnceInv /\ SwapInv /\ SweepsClosed /\ RowOK /\ OrderInv /\ [Next]_vars => OrderInv'
<1> SUFFICES ASSUME OnceInv, SwapInv, SweepsClosed, RowOK, OrderInv, [Next]_vars PROVE OrderInv'
  OBVIOUS
<1>1. ASSUME NEW i \in Items, Start(i) PROVE OrderInv'
  <2>1. PICK r \in Runs :
           /\ arch[r].status = "none" /\ \A q \in Runs : q < r => arch[q].status # "none"
           /\ \A q \in Runs \ {r} : arch'[q] = arch[q]
           /\ arch'[r].status = "printing"
           /\ link' = [link EXCEPT ![i] = r]
           /\ lane' = [status |-> "printing", current |-> i]
           /\ dev' = [state |-> "printing", run |-> r]
    BY <1>1, Parts, StartWrites
  <2>2. \A q \in Runs : q > r => arch[q].status = "none"
    BY <2>1, RunsAreNumbers DEF OrderInv, MadeInOrder, Made
  <2>3. \A q \in Runs : q # r => ~(q > r /\ q < r) /\ (q > r \/ q < r)
    BY RunsAreNumbers
  <2>4. MadeInOrder'
    BY <2>1, <2>2, <2>3, RunsAreNumbers DEF OrderInv, MadeInOrder, Made
  <2>5. \A q \in Runs : q > r => arch'[q].status = "none"
    BY <2>1, <2>2, RunsAreNumbers
  <2>6. OwnsEffect(r)'
    BY <2>5 DEF OwnsEffect
  <2>7. dev'.run = r /\ lane'.status = "printing" /\ lane'.current = i /\ link'[i] = r
    BY <2>1 DEF RowOK
  <2>8. CurrentPrints' /\ LaneIsLast' /\ DevIsLast'
    BY <2>6, <2>7 DEF CurrentPrints, LaneIsLast, DevIsLast
  <2> QED BY <2>4, <2>8 DEF OrderInv
<1>2. CASE NoStart
  <2>1. \A q \in Runs : arch'[q].status = "none" <=> arch[q].status = "none"
    BY <1>2 DEF NoStart, Made
  <2>2. MadeInOrder'
    BY <1>2 DEF NoStart, OrderInv, MadeInOrder
  <2>3. lane' = lane \/ lane'.current = NoItem
    BY <1>2 DEF NoStart, Freed
  <2>4. CurrentPrints'
    BY <2>3 DEF OrderInv, CurrentPrints
  <2>5. LaneIsLast'
    <3> SUFFICES ASSUME NEW i \in Items, lane'.current = i, link'[i] # NoRun,
                        NEW q \in Runs, q > link'[i]
                 PROVE  arch'[q].status = "none"
      BY DEF LaneIsLast, OwnsEffect
    <3>1. lane.current = i /\ link'[i] = link[i]
      BY <1>2, <2>3, ConstantsAssumption DEF NoStart
    <3>2. arch[q].status = "none"
      BY <3>1 DEF OrderInv, LaneIsLast, OwnsEffect
    <3> QED BY <2>1, <3>2
  <2>6. DevIsLast'
    <3> SUFFICES ASSUME dev'.state = "printing", NEW q \in Runs, q > dev'.run
                 PROVE  arch'[q].status = "none"
      BY DEF DevIsLast, OwnsEffect
    <3>1. dev' = dev
      BY <1>2 DEF NoStart
    <3>2. arch[q].status = "none"
      BY <3>1 DEF OrderInv, DevIsLast, OwnsEffect
    <3> QED BY <2>1, <3>2
  <2> QED BY <2>2, <2>4, <2>5, <2>6 DEF OrderInv
<1> QED BY <1>1, <1>2, StepFrame DEF StartOrNot

-----------------------------------------------------------------------------

(* The rows beside their archives: with OnceInv and SwapInv, inductive. *)
RowsInv == RestOK /\ SweepsClosed /\ LiveRow /\ RowInv /\ OrderInv

LEMMA RowsInit == Init => RowsInv
<1> SUFFICES ASSUME Init PROVE RowsInv
  OBVIOUS
<1> USE DEF Init
<1>1. NoRun \in Runs \cup {NoRun} /\ \A r \in Runs : arch[r].status = "none"
  BY DEF NoArchive
<1>2. RowOK /\ LaneOK
  BY DEF RowOK, LaneOK, LaneRec, RowStates
<1>3. RamOK
  BY BoundsAssumption DEF RamOK
<1>4. FlagsOK
  BY DEF FlagsOK
<1>5. SweepsClosed /\ LiveRow
  BY DEF SweepsClosed, LiveRow, NoSweep, NoLive
<1>6. RowInv
  BY DEF RowInv, LinkMade, PrintingLinked, LinkInjective, RowAgreesWithRun
<1>7. OrderInv
  BY <1>1 DEF OrderInv, MadeInOrder, CurrentPrints, LaneIsLast, DevIsLast, Made
<1> QED BY <1>2, <1>3, <1>4, <1>5, <1>6, <1>7 DEF RowsInv, RestOK

LEMMA RowsInvHolds == Spec => []RowsInv
<1>1. OnceInv /\ SwapInv /\ RowsInv /\ [Next]_vars => RowsInv'
  <2> SUFFICES ASSUME OnceInv, SwapInv, RowsInv, [Next]_vars PROVE RowsInv'
    OBVIOUS
  <2>1. SweepsClosed /\ LiveRow /\ RowOK /\ LaneOK /\ RamOK /\ FlagsOK /\ RowInv /\ OrderInv
    BY DEF RowsInv, RestOK
  <2>2. SweepsClosed' /\ LiveRow'
    BY <2>1, SweepsClosedHolds, LiveRowHolds
  <2>3. RowOK' /\ LaneOK' /\ RamOK' /\ FlagsOK'
    BY <2>1, RowOKHolds, LaneOKHolds, RamOKHolds, FlagsOKHolds
  <2>4. RowInv' /\ OrderInv'
    BY <2>1, RowInvHolds, OrderHolds
  <2> QED BY <2>2, <2>3, <2>4 DEF RowsInv, RestOK
<1> QED BY <1>1, RowsInit, OnceInvHolds, SwapInvHolds, PTL DEF Spec

(* Every variable keeps its type. *)
THEOREM TypesHold == Spec => []TypeOK
<1>1. OnceInv /\ SwapInv /\ RowsInv => TypeOK
  <2> SUFFICES ASSUME OnceInv, SwapInv, RowsInv PROVE TypeOK
    OBVIOUS
  <2>1. ArchOK /\ LiveOK /\ SweepOK /\ OtherOK /\ SwapTypes /\ RowOK /\ LaneOK /\ RamOK /\ FlagsOK /\ Once
    BY DEF OnceInv, Types, SwapInv, RowsInv, RestOK
  <2>2. row \in [Items -> {"pending", "printing", "gone"} \cup Terminal] /\ link \in [Items -> Runs \cup {NoRun}]
    BY <2>1 DEF RowOK, RowStates
  <2>3. lane \in [status : {"idle", "printing"} \cup Halted, current : Items \cup {NoItem}]
    BY <2>1 DEF LaneOK, LaneRec
  <2>4. arch \in [Runs -> [status : {"none", "printing"} \cup Terminal, owes : BOOLEAN, baked : Facts \cup {"no"},
                           claim : {"none", "owed", "attempted"} \cup Answered,
                           marker : {"none", "accepted", "db_finalized", "recovered_uncertain"},
                           outcome : {"none"} \cup Terminal, uncertain : {"no", "outcome", "effects"}, held : BOOLEAN]]
    BY <2>1 DEF ArchOK, ArchRec
  <2>5. {up, connected, sweepDue, proven, onPlate, swapMode} \subseteq BOOLEAN
    BY <2>1 DEF FlagsOK, OtherOK
  <2>6. /\ gate \in Runs \cup {NoRun} /\ receipt \in [Runs -> {"none", "clear", "repeat"}]
        /\ faults \in 0 .. MaxFaults
        /\ {bound, config} \subseteq Runs \cup {NoRun}
        /\ {sending, command, moved} \subseteq SUBSET Runs
    BY <2>1 DEF RamOK
  <2>7. live.pc \in {"none", "decide", "claim", "send", "sent", "hold", "gate", "finalize", "tidy"}
    BY <2>1 DEF LiveOK, LiveRec
  <2>8. \A s \in Sweepers : sweep[s].pc \in {"none", "repair", "close", "gate", "row"}
    BY <2>1 DEF SweepOK, SweepRec
  <2>9. \A t \in Tasks : task[t].pc \in {"none", "read", "claim", "send", "sent", "hold", "settle"}
    BY <2>1 DEF SwapTypes, TaskRec
  <2>10. /\ dev \in [state : {"idle", "printing", "finished", "failed"}, run : Runs \cup {NoRun}]
         /\ report \in [run : Runs \cup {NoRun}, outcome : {"none"} \cup Terminal]
         /\ accepted \in [Runs -> Nat]
    BY <2>1 DEF OtherOK
  <2>11. ended \in [Runs -> {"none"} \cup Terminal] /\ commands \in [Runs -> Nat]
    BY <2>1 DEF SwapTypes
  <2> QED BY <2>2, <2>3, <2>4, <2>5, <2>6, <2>7, <2>8, <2>9, <2>10, <2>11 DEF TypeOK
<1> QED BY <1>1, OnceInvHolds, SwapInvHolds, RowsInvHolds, PTL

(* Whoever closes a run, through crashes and beside any number of sweeps,   *)
(* its row says what its archive says.                                      *)
THEOREM RowTellsTheStory == Spec => []RowAgreesWithRun
<1>1. RowsInv => RowAgreesWithRun
  BY DEF RowsInv, RowInv
<1> QED BY <1>1, RowsInvHolds, PTL

=============================================================================
