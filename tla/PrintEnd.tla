------------------------------ MODULE PrintEnd ------------------------------
(***************************************************************************)
(* The end of a print on one printer: the completion callback (main.py),    *)
(* the connect-edge sweep that closes what a dead process left behind       *)
(* (print_reconciliation.py), the table swap both may owe                   *)
(* (swap_terminal.py), and the plate gate with the operator's answer        *)
(* (plate_hold.py, plate_answers.py).                                       *)
(*                                                                         *)
(* A run r is an execution archive.  How a run gets to the printer is       *)
(* Dispatch's subject: here Start is one action.                            *)
(***************************************************************************)
EXTENDS Naturals, FiniteSets

CONSTANTS
    Items,              \* rows of the queue
    NoItem,             \* the lane has no current row
    Facts,              \* what a source may declare about its own swap sequence
    RequirePlateClear,  \* Printer.require_plate_clear
    Sweepers,           \* sweeps that may run at once
    Tasks,              \* swap resolutions that may run at once
    MaxRuns,            \* bound: prints
    MaxFaults           \* bound: crashes, lost connections and exceptions

ASSUME BoundsAssumption == MaxRuns \in Nat /\ MaxFaults \in Nat
ASSUME ConstantsAssumption == NoItem \notin Items /\ RequirePlateClear \in BOOLEAN

Runs == 1 .. MaxRuns
NoRun == 0

VARIABLES
    row, link,          \* print_queue: status; archive_id (NoRun when none)
    lane,               \* printer_queues: status and current row
    arch,               \* print_archives
    gate,               \* printers.awaiting_plate_clear_archive_id: the run that holds the plate
    receipt,            \* print_completion_receipts: the plate's answer
    faults, up, connected, sweepDue, \* the server and its link to the printer
    bound, proven, config, sending,  \* its RAM: run binding, swap config, live claims
    live, sweep, task,  \* completion callback, sweeps, swap resolutions
    swapMode,           \* Printer.swap_mode_enabled
    dev, onPlate, report, command, moved,  \* the printer
    ended, commands, accepted    \* history

db     == <<row, link, lane, arch, gate, receipt>>
ram    == <<bound, proven, config, sending>>
net    == <<faults, up, connected, sweepDue>>
actors == <<live, sweep, task>>
device == <<swapMode, dev, onPlate, report, command, moved>>
past   == <<ended, commands, accepted>>
vars   == <<db, ram, net, actors, device, past>>

Terminal == {"completed", "failed", "cancelled"}
Halted   == {"paused", "error"}
Answered == {"finished", "failed"}

NoArchive == [status |-> "none", owes |-> FALSE, baked |-> "no", claim |-> "none",
              marker |-> "none", outcome |-> "none", uncertain |-> "no", held |-> FALSE]
NoLive  == [pc |-> "none", run |-> NoRun, row |-> NoItem, outcome |-> "none", proven |-> FALSE,
            cleared |-> FALSE, held |-> FALSE]
NoSweep == [pc |-> "none", state |-> "idle", file |-> NoRun, old |-> {}, orphans |-> {},
            checkpoints |-> {}, run |-> NoRun, closed |-> {}]
NoTask  == [pc |-> "none", run |-> NoRun, row |-> NoItem, claimed |-> FALSE, swapped |-> FALSE]

TypeOK ==
    /\ row \in [Items -> {"pending", "printing", "gone"} \cup Terminal]
    /\ link \in [Items -> Runs \cup {NoRun}]
    /\ lane \in [status : {"idle", "printing"} \cup Halted, current : Items \cup {NoItem}]
    /\ arch \in [Runs -> [status : {"none", "printing"} \cup Terminal, owes : BOOLEAN, baked : Facts \cup {"no"},
                          claim : {"none", "owed", "attempted"} \cup Answered,
                          marker : {"none", "accepted", "db_finalized", "recovered_uncertain"},
                          outcome : {"none"} \cup Terminal, uncertain : {"no", "outcome", "effects"}, held : BOOLEAN]]
    /\ gate \in Runs \cup {NoRun}
    /\ receipt \in [Runs -> {"none", "clear", "repeat"}]
    /\ faults \in 0 .. MaxFaults /\ {up, connected, sweepDue, proven, onPlate, swapMode} \subseteq BOOLEAN
    /\ {bound, config} \subseteq Runs \cup {NoRun}
    /\ {sending, command, moved} \subseteq SUBSET Runs
    /\ live.pc \in {"none", "decide", "claim", "send", "sent", "hold", "gate", "finalize", "tidy"}
    /\ \A s \in Sweepers : sweep[s].pc \in {"none", "repair", "close", "gate", "row"}
    /\ \A t \in Tasks : task[t].pc \in {"none", "read", "claim", "send", "sent", "hold", "settle"}
    /\ dev \in [state : {"idle", "printing", "finished", "failed"}, run : Runs \cup {NoRun}]
    /\ report \in [run : Runs \cup {NoRun}, outcome : {"none"} \cup Terminal]
    /\ ended \in [Runs -> {"none"} \cup Terminal]
    /\ commands \in [Runs -> Nat] /\ accepted \in [Runs -> Nat]

NoReport == [run |-> NoRun, outcome |-> "none"]

Init ==
    /\ row = [i \in Items |-> "pending"] /\ link = [i \in Items |-> NoRun]
    /\ lane = [status |-> "idle", current |-> NoItem]
    /\ arch = [r \in Runs |-> NoArchive]
    /\ gate = NoRun /\ receipt = [r \in Runs |-> "none"]
    /\ faults = 0 /\ up = TRUE /\ connected = TRUE /\ sweepDue = FALSE
    /\ bound = NoRun /\ proven = FALSE /\ config = NoRun /\ sending = {}
    /\ live = NoLive /\ sweep = [s \in Sweepers |-> NoSweep] /\ task = [t \in Tasks |-> NoTask]
    /\ swapMode \in BOOLEAN
    /\ dev = [state |-> "idle", run |-> NoRun] /\ onPlate = FALSE /\ report = NoReport
    /\ command = {} /\ moved = {}
    /\ ended = [r \in Runs |-> "none"]
    /\ commands = [r \in Runs |-> 0] /\ accepted = [r \in Runs |-> 0]

-----------------------------------------------------------------------------
(* The queue's header and the questions asked of it.                        *)

RowOf(r, status) == {i \in Items : link[i] = r /\ row[i] = status}

Halt(status, i) ==                      \* set_queue_error, set_queue_paused with expected_item_id
    IF lane.current = i THEN [status |-> status, current |-> NoItem] ELSE lane

Release(i) ==                           \* set_queue_idle with expected_item_id
    IF lane.status = "printing" /\ lane.current = i
    THEN [status |-> "idle", current |-> NoItem] ELSE lane

Printing == {r \in Runs : arch[r].status = "printing"}

AnotherRunActive(r) ==
    \/ dev.state = "printing"
    \/ Printing \ {r} # {}

(* The printer's queue still prints exactly this run. *)
HoldsItsPrinter(r, status) ==
    /\ \E i \in RowOf(r, status) : lane = [status |-> "printing", current |-> i]
    /\ ~AnotherRunActive(r)

(* A later run has taken the printer: an older completion must not touch it. *)
OwnsEffect(r) == \A q \in Runs : q > r => arch[q].status = "none"

(* change_table_hold: why our command does not run; nothing is sent then. *)
Holds(completed, owned, r) ==
    \/ ~completed
    \/ ~owned
    \/ arch[r].baked # "no"
    \/ ~swapMode

NothingSentUnanswered(r) == arch[r].claim \in {"owed", "attempted"}

(* The stage of the claim that proves nothing was sent. *)
NothingSent(r) == arch[r].claim = "owed"

(* claim_change_table: what the archive says under the lane's lock. *)
ClaimIsFree(r, allowAbsent) ==
    /\ arch[r].owes
    /\ \/ NothingSent(r)
       \/ allowAbsent /\ arch[r].claim = "none"

(* finish_change_table *)
Finished(a, ok) ==
    [a EXCEPT !.claim = IF ok THEN "finished" ELSE "failed", !.owes = FALSE,
              !.held = @ /\ ~ok]

Fault == faults < MaxFaults /\ faults' = faults + 1

-----------------------------------------------------------------------------
(* The printer and the prints it is given.                                  *)

Start(i) ==
    /\ up /\ connected /\ lane.status = "idle" /\ gate = NoRun
    /\ row[i] = "pending" /\ dev.state # "printing" /\ command = {}
    /\ \E r \in Runs, owes \in BOOLEAN, fact \in Facts :
          /\ arch[r].status = "none" /\ \A q \in Runs : q < r => arch[q].status # "none"
          /\ row' = [row EXCEPT ![i] = "printing"]
          /\ link' = [link EXCEPT ![i] = r]
          /\ lane' = [status |-> "printing", current |-> i]
          /\ arch' = [arch EXCEPT ![r] = [NoArchive EXCEPT !.status = "printing", !.owes = owes,
                                                           !.baked = fact]]
          /\ bound' = r /\ proven' = TRUE
          /\ config' = IF owes THEN r ELSE NoRun
          /\ dev' = [state |-> "printing", run |-> r]
    /\ onPlate' = TRUE
    /\ UNCHANGED <<gate, receipt, sending, net, actors, swapMode, report, command, moved, past>>

(* A source that carries its own swap sequence leaves a clear plate.  The   *)
(* report reaches a callback only while a connection knows the run.         *)
PrintEnds(outcome) ==
    /\ dev.state = "printing"
    /\ LET r == dev.run IN
         /\ dev' = [dev EXCEPT !.state = IF outcome = "completed" THEN "finished" ELSE "failed"]
         /\ onPlate' = (outcome # "completed" \/ arch[r].baked # "yes")
         /\ report' = IF up /\ connected /\ bound = r THEN [run |-> r, outcome |-> outcome] ELSE NoReport
         /\ ended' = [ended EXCEPT ![r] = outcome]
    /\ UNCHANGED <<db, ram, net, actors, swapMode, command, moved, commands, accepted>>

(* Switched off and on: the printer forgets the file it printed. *)
PrinterForgets ==
    /\ dev.state \in {"finished", "failed"} /\ ~connected
    /\ dev' = [state |-> "idle", run |-> NoRun]
    /\ UNCHANGED <<db, ram, net, actors, swapMode, onPlate, report, command, moved, past>>

(* The printer runs the macro, or the command never reached it. *)
PrinterSwaps(r) ==
    /\ r \in command
    /\ command' = command \ {r}
    /\ \/ onPlate' = FALSE /\ moved' = moved \cup {r}
       \/ UNCHANGED <<onPlate, moved>>
    /\ UNCHANGED <<db, ram, net, actors, swapMode, dev, report, past>>

-----------------------------------------------------------------------------
(* The live completion (on_print_complete).                                 *)

AcceptUnclaimed ==
    LET r == report.run IN
    /\ up /\ r # NoRun /\ bound = r
    /\ live.pc = "none" \/ live.run = r
    /\ arch[r].status = "printing"
    /\ \E i \in RowOf(r, "printing") :
          live' = [pc |-> "decide", run |-> r, row |-> i, outcome |-> report.outcome,
                   proven |-> proven, cleared |-> FALSE, held |-> FALSE]
    /\ accepted' = [accepted EXCEPT ![r] = IF @ < 2 THEN @ + 1 ELSE @]
    /\ UNCHANGED <<db, ram, net, sweep, task, device, ended, commands>>

(* _accept_bound_terminal_run: the attempt is claimed before any effect. *)
Accept ==
    LET r == report.run IN
    /\ up /\ r # NoRun /\ bound = r
    /\ live.pc = "none" \/ live.run = r
    /\ arch[r].status = "printing" /\ arch[r].marker # "accepted"
    /\ \E i \in RowOf(r, "printing") :
          live' = [pc |-> "decide", run |-> r, row |-> i, outcome |-> report.outcome,
                   proven |-> proven, cleared |-> FALSE, held |-> FALSE]
    /\ arch' = [arch EXCEPT ![r].marker = "accepted", ![r].outcome = report.outcome]
    /\ accepted' = [accepted EXCEPT ![r] = @ + 1]
    /\ bound' = NoRun
    /\ UNCHANGED <<row, link, lane, gate, receipt, proven, config, sending, net, sweep, task,
                   device, ended, commands>>

(* The swap decision, taken once from what dispatch left owed. *)
LiveDecide ==
    LET r == live.run
        asked == config = r \/ arch[r].owes
        hold == Holds(live.outcome = "completed", HoldsItsPrinter(r, "printing"), r)
    IN
    /\ live.pc = "decide"
    /\ live' = [live EXCEPT
         !.pc = IF ~asked THEN "gate" ELSE IF hold THEN "hold" ELSE "claim",
         !.cleared = ~asked /\ live.outcome = "completed" /\ live.proven /\ arch[r].baked = "yes"]
    /\ config' = IF OwnsEffect(r) THEN NoRun ELSE config
    /\ UNCHANGED <<db, bound, proven, sending, net, sweep, task, device, past>>

LiveClaim ==
    LET r == live.run
        claimed == ClaimIsFree(r, TRUE) /\ HoldsItsPrinter(r, "printing")
    IN
    /\ live.pc = "claim"
    /\ IF OwnsEffect(r) /\ claimed
       THEN /\ arch' = [arch EXCEPT ![r].claim = "attempted"]
            /\ sending' = sending \cup {r}
       ELSE UNCHANGED <<arch, sending>>
    /\ live' = [live EXCEPT !.pc = IF ~OwnsEffect(r) THEN "gate" ELSE IF claimed THEN "send" ELSE "hold"]
    /\ UNCHANGED <<row, link, lane, gate, receipt, bound, proven, config, net, sweep, task, device, past>>

LiveSendUnfenced ==
    LET r == live.run IN
    /\ live.pc = "send"
    /\ command' = command \cup {r}
    /\ commands' = [commands EXCEPT ![r] = @ + 1]
    /\ live' = [live EXCEPT !.pc = "sent"]
    /\ UNCHANGED <<db, ram, net, sweep, task, swapMode, dev, onPlate, report, moved, ended, accepted>>

(* execute_macro_and_wait with its fence may_run. *)
LiveSend ==
    LET r == live.run IN
    /\ live.pc = "send" /\ OwnsEffect(r)
    /\ command' = command \cup {r}
    /\ commands' = [commands EXCEPT ![r] = @ + 1]
    /\ live' = [live EXCEPT !.pc = "sent"]
    /\ UNCHANGED <<db, ram, net, sweep, task, swapMode, dev, onPlate, report, moved, ended, accepted>>

(* The answer, its bookkeeping and, after a failure, the pause. *)
LiveAnswer(ok) ==
    LET r == live.run IN
    /\ \/ live.pc = "sent" /\ (ok => r \in moved)
       \/ live.pc = "send" /\ ~OwnsEffect(r) /\ ~ok
    /\ arch' = [arch EXCEPT ![r] = Finished(@, ok)]
    /\ sending' = sending \ {r}
    /\ lane' = IF ~ok /\ OwnsEffect(r) THEN Halt("paused", live.row) ELSE lane
    /\ live' = [live EXCEPT !.pc = "gate", !.cleared = ok /\ OwnsEffect(r)]
    /\ UNCHANGED <<row, link, gate, receipt, bound, proven, config, net, sweep, task, device, past>>

(* An exception on the way: the claim, if taken, stays attempted for good,  *)
(* and the swap is held unless its answer had already come.                 *)
LiveError ==
    /\ Fault
    /\ live.pc \in {"claim", "send", "sent"}
    /\ \/ live' = [live EXCEPT !.pc = "hold"]
       \/ live.pc = "sent" /\ live.run \in moved /\ live' = [live EXCEPT !.pc = "gate"]
    /\ sending' = IF live.pc = "claim" THEN sending ELSE sending \ {live.run}
    /\ UNCHANGED <<db, bound, proven, config, up, connected, sweepDue, sweep, task, device, past>>

(* _hold_for_owed_swap *)
LiveHold ==
    LET r == live.run IN
    /\ live.pc = "hold"
    /\ arch' = [arch EXCEPT ![r].held = TRUE]
    /\ lane' = IF OwnsEffect(r) THEN Halt("paused", live.row) ELSE lane
    /\ live' = [live EXCEPT !.pc = "gate", !.held = TRUE]
    /\ UNCHANGED <<row, link, gate, receipt, ram, net, sweep, task, device, past>>

(* The gate is armed before the queue is released. *)
LiveGate ==
    LET r == live.run IN
    /\ live.pc = "gate"
    /\ gate' = IF RequirePlateClear /\ ~live.cleared /\ OwnsEffect(r) THEN r ELSE gate
    /\ live' = [live EXCEPT !.pc = "finalize"]
    /\ UNCHANGED <<row, link, lane, arch, receipt, ram, net, sweep, task, device, past>>

(* The lane after a run ended this way: a failure stops it, a cancel pauses it. *)
LaneAfter(outcome, i) ==
    CASE outcome = "completed" -> Release(i)
      [] outcome = "failed"    -> Halt("error", i)
      [] outcome = "cancelled" -> Halt("paused", i)

LiveFinalizeByRow ==
    LET r == live.run
        i == live.row
        ours == row[i] = "printing" /\ link[i] = r
    IN
    /\ live.pc = "finalize"
    /\ IF ours
       THEN /\ row' = [row EXCEPT ![i] = live.outcome]
            /\ lane' = LaneAfter(live.outcome, i)
            /\ live' = [live EXCEPT !.pc = "tidy"]
            /\ arch' = IF arch[r].status = "printing"
                       THEN [arch EXCEPT ![r].status = live.outcome, ![r].marker = "db_finalized"] ELSE arch
       ELSE /\ live' = NoLive
            /\ UNCHANGED <<row, arch, lane>>
    /\ UNCHANGED <<link, gate, receipt, ram, net, sweep, task, device, past>>

(* Row and archive become terminal in one commit, or neither does. *)
LiveFinalize ==
    LET r == live.run
        i == live.row
        ours == row[i] = "printing" /\ link[i] = r /\ arch[r].status = "printing"
    IN
    /\ live.pc = "finalize"
    /\ IF ours
       THEN /\ row' = [row EXCEPT ![i] = live.outcome]
            /\ arch' = [arch EXCEPT ![r].status = live.outcome, ![r].marker = "db_finalized"]
            /\ lane' = LaneAfter(live.outcome, i)
            /\ live' = [live EXCEPT !.pc = "tidy"]
       ELSE /\ live' = NoLive
            /\ UNCHANGED <<row, arch, lane>>
    /\ UNCHANGED <<link, gate, receipt, ram, net, sweep, task, device, past>>

(* clean_up_finished_row: a completed row goes unless somebody is asked about it. *)
Tidied(i, outcome, cleared) ==
    IF outcome = "completed" /\ (cleared \/ ~RequirePlateClear)
    THEN [row EXCEPT ![i] = "gone"] ELSE row

(* A row whose swap is held is the record of the hold, and stays. *)
LiveTidy ==
    /\ live.pc = "tidy"
    /\ row' = IF live.held THEN row ELSE Tidied(live.row, live.outcome, live.cleared)
    /\ live' = NoLive
    /\ UNCHANGED <<link, lane, arch, gate, receipt, ram, net, sweep, task, device, past>>

Live ==
    \/ Accept \/ LiveDecide \/ LiveClaim \/ LiveSend \/ LiveError \/ LiveHold
    \/ LiveGate \/ LiveFinalize \/ LiveTidy
    \/ \E ok \in BOOLEAN : LiveAnswer(ok)

-----------------------------------------------------------------------------
(* The connect-edge sweep (_sweep_printer_prints).  What the printer said   *)
(* on connecting is kept for the whole sweep.                               *)

(* A print that still runs is bound again before its end can be reported. *)
SweepBegin(s) ==
    /\ up /\ connected /\ sweepDue /\ sweep[s].pc = "none"
    /\ sweepDue' = FALSE
    /\ sweep' = [sweep EXCEPT ![s] = [NoSweep EXCEPT !.pc = "repair", !.state = dev.state, !.file = dev.run,
                                    !.old = Printing]]
    /\ bound' = IF dev.state = "printing" THEN dev.run ELSE bound
    /\ UNCHANGED <<db, proven, config, sending, faults, up, connected, live, task, device, past>>

(* _repair_terminal_queue_items: a row left printing by an archive that is  *)
(* terminal takes its outcome, structurally, and the queue is paused.  Then *)
(* the archives still printing are loaded.                                  *)
Repairable(i) ==
    /\ row[i] = "printing" /\ link[i] # NoRun
    /\ arch[link[i]].status \in Terminal /\ arch[link[i]].uncertain # "outcome"

SweepRepair(s) ==
    LET left == {i \in Items : row[i] = "printing"}
        fit == /\ left # {} /\ live.pc = "none" /\ connected
               /\ dev.state = sweep[s].state /\ dev.state # "printing"
               /\ lane.current \in left \cup {NoItem}
               /\ Printing = {}
               /\ \A i \in left : Repairable(i)
    IN
    /\ sweep[s].pc = "repair"
    /\ IF fit
       THEN /\ row' = [i \in Items |-> IF i \in left THEN arch[link[i]].status ELSE row[i]]
            /\ lane' = [status |-> IF lane.status = "error" THEN "error" ELSE "paused", current |-> NoItem]
       ELSE UNCHANGED <<row, lane>>
    /\ sweep' = [sweep EXCEPT ![s].pc = "close",
                              ![s].orphans = {r \in Printing : arch[r].marker # "accepted"},
                              ![s].checkpoints = {r \in Printing : arch[r].marker = "accepted"}]
    /\ UNCHANGED <<link, arch, gate, receipt, ram, net, live, task, device, past>>

VerdictUntranslated(s, r) ==
    IF r \notin sweep[s].old THEN "leave"
    ELSE IF sweep[s].file # r THEN "uncertain"
    ELSE CASE sweep[s].state = "printing"             -> "leave"
           [] sweep[s].state = "failed"               -> "aborted"
           [] sweep[s].state \in {"finished", "idle"} -> "completed"

VerdictByState(s, r) ==
    IF r \notin sweep[s].old THEN "leave"
    ELSE CASE sweep[s].state = "printing"             -> "leave"
           [] sweep[s].state = "failed"               -> "failed"
           [] sweep[s].state \in {"finished", "idle"} -> "completed"

VerdictOfKnownFile(s, r) ==
    IF r \notin sweep[s].old THEN "leave"
    ELSE IF sweep[s].file # r THEN "leave"
    ELSE CASE sweep[s].state = "printing"             -> "leave"
           [] sweep[s].state = "failed"               -> "failed"
           [] sweep[s].state \in {"finished", "idle"} -> "completed"

(* _classify, and the grace of an archive younger than the sweep. *)
Verdict(s, r) ==
    IF r \notin sweep[s].old THEN "leave"
    ELSE IF sweep[s].file # r THEN "uncertain"
    ELSE CASE sweep[s].state = "printing"             -> "leave"
           [] sweep[s].state = "failed"               -> "failed"
           [] sweep[s].state \in {"finished", "idle"} -> "completed"

(* _recover_accepted_terminal_checkpoint: no effect of an accepted finish   *)
(* is replayed; the run is closed and the queue paused.                     *)
SweepRecover(s, r) ==
    /\ sweep[s].pc = "close" /\ sweep[s].state # "printing"
    /\ r \in sweep[s].checkpoints
    /\ \E i \in RowOf(r, "printing") :
          /\ row' = [row EXCEPT ![i] = arch[r].outcome]
          /\ lane' = Halt("paused", i)
    /\ arch' = [arch EXCEPT ![r].status = arch[r].outcome, ![r].marker = "recovered_uncertain",
                            ![r].uncertain = "effects"]
    /\ sweep' = [sweep EXCEPT ![s].closed = @ \cup {r}, ![s].checkpoints = @ \ {r}]
    /\ UNCHANGED <<link, gate, receipt, ram, net, live, task, device, past>>

(* _reconcile_complete_archive up to its first commit: the archive. *)
SweepClose(s, r) ==
    LET verdict == Verdict(s, r)
        status == IF verdict = "uncertain" THEN "cancelled" ELSE verdict
        a == arch[r]
    IN
    /\ sweep[s].pc = "close" /\ r \in sweep[s].orphans
    /\ a.status = "printing" /\ verdict # "leave"
    /\ arch' = [arch EXCEPT ![r] = [a EXCEPT
          !.status = status,
          !.uncertain = IF verdict = "uncertain" THEN "outcome" ELSE a.uncertain,
          !.claim = IF status = "completed" /\ a.owes /\ a.marker = "none" /\ a.claim = "none"
                    THEN "owed" ELSE a.claim]]
    /\ sweep' = [sweep EXCEPT ![s].pc = "gate", ![s].run = r, ![s].orphans = @ \ {r}]
    /\ UNCHANGED <<row, link, lane, gate, receipt, ram, net, live, task, device, past>>

SwapOwedByAnyRun(r) == arch[r].status = "completed"

SwapOwed(r) == arch[r].status = "completed" /\ arch[r].owes

SweepGateOnFailure(s) ==
    LET r == sweep[s].run IN
    /\ sweep[s].pc = "gate"
    /\ gate' = IF RequirePlateClear /\ arch[r].status # "completed" THEN r ELSE gate
    /\ sweep' = [sweep EXCEPT ![s].pc = "row"]
    /\ UNCHANGED <<row, link, lane, arch, receipt, ram, net, live, task, device, past>>

SweepGate(s) ==
    LET r == sweep[s].run IN
    /\ sweep[s].pc = "gate"
    /\ gate' = IF RequirePlateClear /\ ~SwapOwed(r) THEN r ELSE gate
    /\ sweep' = [sweep EXCEPT ![s].pc = "row"]
    /\ UNCHANGED <<row, link, lane, arch, receipt, ram, net, live, task, device, past>>

(* The rest: the row, the lane and the clean-up.  While a swap is owed the  *)
(* row stays and keeps the lane.  Failures and cancels are not addressed.   *)
SweepRow(s) ==
    LET r == sweep[s].run
        outcome == arch[r].status
    IN
    /\ sweep[s].pc = "row"
    /\ IF RowOf(r, "printing") # {}
       THEN \E i \in RowOf(r, "printing") :
              /\ row' = [row EXCEPT ![i] =
                    IF outcome = "completed" /\ ~SwapOwed(r) /\ ~RequirePlateClear THEN "gone" ELSE outcome]
              /\ lane' = CASE outcome = "failed"    -> [status |-> "error", current |-> NoItem]
                           [] outcome = "cancelled" -> [status |-> "paused", current |-> NoItem]
                           [] outcome = "completed" ->
                                IF lane.status = "printing" /\ ~SwapOwed(r)
                                THEN [status |-> "idle", current |-> NoItem] ELSE lane
       ELSE UNCHANGED <<row, lane>>
    /\ sweep' = [sweep EXCEPT ![s].pc = "close", ![s].run = NoRun, ![s].closed = @ \cup {r}]
    /\ UNCHANGED <<link, arch, gate, receipt, ram, net, live, task, device, past>>

(* _stranded_swaps: the completed run that still holds the lane, unsettled. *)
Stranded(s) ==
    {r \in Runs \ sweep[s].closed :
        /\ live.pc = "none" /\ lane.status = "printing" /\ r \notin sending
        /\ arch[r].status = "completed"
        /\ \E i \in RowOf(r, "completed") : lane.current = i
        /\ arch[r].owes \/ arch[r].claim \in Answered}

NothingLeft(s) ==
    /\ \A r \in sweep[s].orphans : arch[r].status # "printing" \/ Verdict(s, r) = "leave"
    /\ \A r \in sweep[s].checkpoints : sweep[s].state = "printing" \/ RowOf(r, "printing") = {}

(* A resolution is spawned for every run the sweep closed or found stranded. *)
SweepEnd(s) ==
    LET open == {r \in sweep[s].closed \cup Stranded(s) :
                    arch[r].owes \/ arch[r].claim \in Answered}
        idle == {t \in Tasks : task[t].pc = "none"}
    IN
    /\ sweep[s].pc = "close" /\ NothingLeft(s)
    /\ Cardinality(open) <= Cardinality(idle)
    /\ \E given \in [open -> idle] :
          /\ \A q, r \in open : given[q] = given[r] => q = r
          /\ task' = [t \in Tasks |-> IF \E r \in open : given[r] = t
                                      THEN [NoTask EXCEPT !.pc = "read", !.run = CHOOSE r \in open : given[r] = t]
                                      ELSE task[t]]
    /\ sweep' = [sweep EXCEPT ![s] = NoSweep]
    /\ UNCHANGED <<db, ram, net, live, device, past>>

Sweep(s) ==
    \/ SweepBegin(s) \/ SweepRepair(s) \/ SweepGate(s) \/ SweepRow(s) \/ SweepEnd(s)
    \/ \E r \in Runs : SweepRecover(s, r) \/ SweepClose(s, r)

-----------------------------------------------------------------------------
(* The resolution of a swap a dead process left owed (_resolve_pending_swaps). *)

SetTask(t, pc) == task' = [task EXCEPT ![t].pc = pc]

(* Which of the four it is: nothing to do, the bookkeeping of an answer,    *)
(* a hold, or a command that may still go out once.                         *)
ResolveRead(t) ==
    LET r == task[t].run
        rows == RowOf(r, "completed")
        i == IF rows = {} THEN NoItem ELSE CHOOSE j \in rows : TRUE
        next ==
          IF arch[r].status # "completed" \/ r \in sending \/ (~arch[r].owes /\ arch[r].claim \notin Answered)
          THEN "none"
          ELSE IF ~arch[r].owes THEN "settle"
          ELSE IF \/ arch[r].uncertain # "no" \/ ~NothingSent(r)
                  \/ Holds(TRUE, i # NoItem /\ ~AnotherRunActive(r), r)
          THEN "hold"
          ELSE "claim"
    IN
    /\ task[t].pc = "read"
    /\ task' = [task EXCEPT ![t] =
         IF next = "none" THEN NoTask
         ELSE [pc |-> next, run |-> r, row |-> i, claimed |-> FALSE, swapped |-> next = "settle" /\ arch[r].claim = "finished"]]
    /\ UNCHANGED <<db, ram, net, live, sweep, device, past>>

ResolveClaim(t) ==
    LET r == task[t].run IN
    /\ task[t].pc = "claim"
    /\ IF ClaimIsFree(r, FALSE) /\ HoldsItsPrinter(r, "completed")
       THEN /\ arch' = [arch EXCEPT ![r].claim = "attempted"]
            /\ sending' = sending \cup {r}
            /\ task' = [task EXCEPT ![t].pc = "send", ![t].claimed = TRUE]
       ELSE /\ IF arch[r].owes /\ arch[r].claim = "attempted" /\ r \in sending
               THEN task' = [task EXCEPT ![t] = NoTask]        \* CLAIM_BUSY: its owner settles it
               ELSE SetTask(t, "hold")
            /\ UNCHANGED <<arch, sending>>
    /\ UNCHANGED <<row, link, lane, gate, receipt, bound, proven, config, net, live, sweep, device, past>>

ResolveSend(t) ==
    LET r == task[t].run IN
    /\ task[t].pc = "send"
    /\ command' = command \cup {r}
    /\ commands' = [commands EXCEPT ![r] = @ + 1]
    /\ SetTask(t, "sent")
    /\ UNCHANGED <<db, ram, net, live, sweep, swapMode, dev, onPlate, report, moved, ended, accepted>>

ResolveAnswer(t, ok) ==
    LET r == task[t].run IN
    /\ task[t].pc = "sent" /\ (ok => r \in moved)
    /\ arch' = [arch EXCEPT ![r] = Finished(@, ok)]
    /\ task' = [task EXCEPT ![t].pc = "settle", ![t].swapped = ok]
    /\ UNCHANGED <<row, link, lane, gate, receipt, ram, net, live, sweep, device, past>>

ResolveError(t) ==
    /\ Fault
    /\ task[t].pc \in {"claim", "send", "sent"}
    /\ SetTask(t, "hold")
    /\ UNCHANGED <<db, ram, up, connected, sweepDue, live, sweep, device, past>>

(* _swap_settle's question: does this run still hold the queue? *)
SettleIsOurs(t) ==
    /\ lane.status = "printing"
    /\ lane.current # NoItem => row[lane.current] # "printing"
    /\ \/ task[t].row # NoItem /\ lane.current = task[t].row
       \/ ~AnotherRunActive(task[t].run)

Settle(t, swapped) ==
    LET r == task[t].run
        rows == IF task[t].row = NoItem THEN {} ELSE RowOf(r, "completed")
    IN
    /\ lane' = IF SettleIsOurs(t)
               THEN [status |-> IF swapped THEN "idle" ELSE "paused", current |-> NoItem] ELSE lane
    /\ row' = IF swapped /\ SettleIsOurs(t)
              THEN [i \in Items |-> IF i \in rows THEN "gone" ELSE row[i]] ELSE row
    /\ task' = [task EXCEPT ![t] = NoTask]

ResolveSettle(t) ==
    /\ task[t].pc = "settle"
    /\ Settle(t, task[t].swapped)
    /\ sending' = IF task[t].claimed THEN sending \ {task[t].run} ELSE sending
    /\ UNCHANGED <<link, arch, gate, receipt, bound, proven, config, net, live, sweep, device, past>>

(* _swap_record_hold, then the settlement without a swap. *)
ResolveHold(t) ==
    /\ task[t].pc = "hold"
    /\ arch' = [arch EXCEPT ![task[t].run].held = TRUE]
    /\ Settle(t, FALSE)
    /\ sending' = IF task[t].claimed THEN sending \ {task[t].run} ELSE sending
    /\ UNCHANGED <<link, gate, receipt, bound, proven, config, net, live, sweep, device, past>>

Resolve(t) ==
    \/ ResolveRead(t) \/ ResolveClaim(t) \/ ResolveSend(t) \/ ResolveError(t)
    \/ ResolveSettle(t) \/ ResolveHold(t)
    \/ \E ok \in BOOLEAN : ResolveAnswer(t, ok)

-----------------------------------------------------------------------------
(* The operator.                                                            *)

(* answer_plate_run, addressed by a completion card of run r: any card ever *)
(* shown may be pressed.  The bed is empty when it is answered.             *)
Answerable(r) ==
    /\ gate = r /\ receipt[r] = "none"
    /\ \/ \E i \in Items : link[i] = r /\ row[i] \in Terminal
       \/ arch[r].status \in Terminal /\ \A i \in Items : link[i] = r => row[i] = "gone"

AnswerPlate(r, action) ==
    LET rows == {i \in Items : link[i] = r /\ row[i] \in Terminal} IN
    /\ up /\ Answerable(r)
    /\ action = "repeat" => rows # {}
    /\ row' = [i \in Items |->
         CASE i \in rows /\ action = "repeat"                            -> "pending"
           [] i \in rows /\ action = "clear" /\ row[i] = "completed"     -> "gone"
           [] OTHER                                                      -> row[i]]
    /\ link' = [i \in Items |-> IF i \in rows /\ action = "repeat" THEN NoRun ELSE link[i]]
    /\ receipt' = [receipt EXCEPT ![r] = action]
    /\ gate' = NoRun /\ onPlate' = FALSE
    /\ UNCHANGED <<lane, arch, ram, net, actors, swapMode, dev, report, command, moved, past>>

(* Resume of a halted lane, by a person who has looked at the printer. *)
Resume ==
    /\ up /\ lane.status \in Halted /\ dev.state # "printing"
    /\ lane' = [status |-> "idle", current |-> NoItem]
    /\ onPlate' = FALSE
    /\ UNCHANGED <<row, link, arch, gate, receipt, ram, net, actors, swapMode, dev, report, command, moved, past>>

-----------------------------------------------------------------------------
(* Faults.                                                                  *)

Drop ==
    /\ Fault /\ up /\ connected /\ connected' = FALSE
    /\ report' = NoReport
    /\ UNCHANGED <<db, ram, up, sweepDue, actors, swapMode, dev, onPlate, command, moved, past>>

Connect ==
    /\ up /\ ~connected
    /\ connected' = TRUE /\ sweepDue' = TRUE
    /\ UNCHANGED <<db, ram, faults, up, actors, device, past>>

Crash ==
    /\ Fault /\ up
    /\ up' = FALSE /\ connected' = FALSE /\ sweepDue' = FALSE
    /\ bound' = NoRun /\ proven' = FALSE /\ config' = NoRun /\ sending' = {}
    /\ live' = NoLive /\ sweep' = [s \in Sweepers |-> NoSweep] /\ task' = [t \in Tasks |-> NoTask]
    /\ report' = NoReport
    /\ UNCHANGED <<db, swapMode, dev, onPlate, command, moved, past>>

Restart ==
    /\ ~up /\ up' = TRUE
    /\ UNCHANGED <<db, ram, faults, connected, sweepDue, actors, device, past>>

-----------------------------------------------------------------------------

Printer  == PrinterForgets \/ (\E o \in Terminal : PrintEnds(o)) \/ (\E r \in Runs : PrinterSwaps(r))
Operator == Resume \/ \E r \in Runs, a \in {"clear", "repeat"} : AnswerPlate(r, a)

Next ==
    \/ \E i \in Items : Start(i)
    \/ Printer \/ Live \/ Operator
    \/ \E s \in Sweepers : Sweep(s)
    \/ \E t \in Tasks : Resolve(t)
    \/ Drop \/ Connect \/ Crash \/ Restart

(* The server's own tasks run on, the printer answers a command it was sent *)
(* or loses it, and a dead or disconnected server comes back.  Nothing is   *)
(* assumed of people, of prints or of faults.                               *)
Fairness ==
    /\ WF_vars(Live)
    /\ \A s \in Sweepers : WF_vars(Sweep(s))
    /\ \A t \in Tasks : WF_vars(Resolve(t))
    /\ \A r \in Runs : WF_vars(PrinterSwaps(r))
    /\ WF_vars(Connect) /\ WF_vars(Restart)

Spec == Init /\ [][Next]_vars /\ Fairness

-----------------------------------------------------------------------------
(* Properties.                                                              *)

(* The queue never offers the printer to the next job with the last part    *)
(* still on the bed, unless the printer is one that asks for no plate       *)
(* confirmation: a lane is idle and ungated only over an empty bed.         *)
NoDispatchOverPlate ==
    RequirePlateClear /\ lane.status = "idle" /\ gate = NoRun => ~onPlate

(* What the plate is safe under.  Nothing in the code keeps a dispatch from *)
(* starting while a sweep or a resolution of an earlier print is at work;   *)
(* the sweep writes the lane without asking whose it is.                    *)
SweptFirst ==
    (\E i \in Items : Start(i)) =>
        (\A s \in Sweepers : sweep[s].pc = "none") /\ (\A t \in Tasks : task[t].pc = "none")

SweptStarts == [][SweptFirst]_vars

(* The effects of a terminal report run at most once per print, whatever    *)
(* reports are repeated and whoever else closes the run.                    *)
EffectsRunOnce == \A r \in Runs : accepted[r] <= 1

(* A run the server calls completed did complete. *)
CompletedRunsCompleted ==
    \A r \in Runs : arch[r].status = "completed" => ended[r] = "completed"

(* A table swap runs only on a printer that is not printing. *)
SwapsBetweenPrints == [][\A r \in Runs : commands'[r] # commands[r] => dev.state # "printing"]_vars

(* Whoever closes a run -- the live completion, a sweep or a recovery -- the *)
(* row and the archive tell the same story of it.                           *)
RowAgreesWithRun ==
    \A i \in Items : link[i] # NoRun /\ row[i] \in Terminal => row[i] = arch[link[i]].status

(* The lane of a print that has ended does not stay with it: it is set idle  *)
(* or halted, with two exceptions the code leaves to a person: an outcome    *)
(* nobody knows (its row is never repaired), and a run a sweep closed while  *)
(* the live completion was at it (neither of them releases the lane).       *)
ClosedUnderCompletion(r) == arch[r].marker = "accepted" /\ arch[r].status \in Terminal

LaneIsReleased ==
    \A r \in Runs :
        (/\ lane.status = "printing" /\ dev.state # "printing"
         /\ \E i \in Items : lane.current = i /\ link[i] = r)
        ~> \/ lane.status # "printing" \/ dev.state = "printing"
           \/ arch[r].uncertain = "outcome" \/ ClosedUnderCompletion(r)

(* A print that has ended gets a terminal archive. *)
RunIsClosed ==
    \A r \in Runs : (ended[r] # "none") ~> (arch[r].status \in Terminal)

-----------------------------------------------------------------------------
(* The terminal swap, as TableSwap promises it.                             *)

(* The claim on the archive, and the claims this process is sending. *)
Claim(r) ==
    CASE arch[r].claim \in {"none", "owed"}               -> "open"
      [] arch[r].claim = "attempted" /\ r \in sending     -> "intended"
      [] arch[r].claim = "attempted" /\ r \notin sending  -> "unknown"
      [] arch[r].claim \in Answered                       -> "answered"

EndedWell == {r \in Runs : ended[r] = "completed"}
Claims == [r \in Runs |-> Claim(r)]

Swap == INSTANCE TableSwap WITH completed <- EndedWell, claim <- Claims, commands <- commands

(* Through crashes, two connections and a sweep beside the live completion,  *)
(* the change_table of a print is sent at most once, after the print ended   *)
(* well and after its intent was committed.                                 *)
RefinesTableSwap == Swap!SwapSpec
=============================================================================
