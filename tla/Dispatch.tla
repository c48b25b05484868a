------------------------------- MODULE Dispatch -------------------------------
(***************************************************************************)
(* One printer's queue (its "lane"), the attempts to print its rows, and    *)
(* the printer.  The actors are the scheduler (print_scheduler.py), the     *)
(* dispatcher's jobs (background_dispatch.py, filament_deferred.py), the    *)
(* MQTT callbacks (main.py), the recovery services and the operator's       *)
(* HTTP requests.  They share the database rows and interleave at every     *)
(* await.                                                                  *)
(*                                                                         *)
(* An attempt is a number k.  It stands for the claim (a row's started_at), *)
(* for the job that carries it and for the execution archive the job makes. *)
(* A row's archive_id is NoLink, Source (the archive a reprint repeats) or  *)
(* the attempt whose execution archive it names.                           *)
(***************************************************************************)
EXTENDS Naturals, FiniteSets

CONSTANTS
    Items,               \* rows of the queue
    Directs,             \* rows made by "print now": they appear already claimed
    Reprints,            \* rows whose source is an archive
    Swaps,               \* rows whose job may run a swap-start macro
    NoItem, External,    \* the lane is nobody's; it is an external print's
    DispatchMaxAttempts, \* DISPATCH_MAX_ATTEMPTS
    MaxClaims,           \* bound: attempts
    MaxBoots,            \* bound: server processes
    SlowStop,            \* may a Stop request wait between its read and its write?
    RetryOvertakes,      \* where an attempt may still be when its row is retried
    StaleResume,         \* may Resume act on an outdated picture of the queue?
    MaxIntents           \* bound: the operator's requests to print one row

ASSUME ConstantsAssumption ==
    /\ NoItem \notin Items /\ External \notin Items /\ NoItem # External
    /\ Directs \subseteq Items /\ Reprints \subseteq Items /\ Swaps \subseteq Items
    /\ DispatchMaxAttempts \in Nat \ {0} /\ StaleResume \in BOOLEAN /\ SlowStop \in BOOLEAN
    /\ RetryOvertakes \subseteq {"spawned", "admitted", "prepared"}
    /\ MaxClaims \in Nat /\ MaxBoots \in Nat /\ MaxIntents \in Nat

Claims == 1 .. MaxClaims
NoLink == 0
Source == MaxClaims + 1

VARIABLES
    status, startedAt, attempts, link,          \* print_queue rows
    laneStatus, current, isPaused, external,    \* the printer_queues row; the external print's row
    item, direct, pc, cancel, token, orig, fact, outcome,     \* jobs
    archive, phase, archBoot, swapRan,          \* execution archives
    boot, open, bound, hold, watching,          \* the server's RAM
    wire, onPrinter,                            \* starts under way; the print on the printer
    stopping,                                   \* a Stop request between its read and its write
    claims, published, intents                  \* history

rows    == <<status, startedAt, attempts, link>>
lane    == <<laneStatus, current, isPaused, external>>
jobs    == <<item, direct, pc, cancel, token, orig, fact, outcome>>
jobData == <<item, direct, cancel, token, orig, fact>>
archs   == <<archive, phase, archBoot, swapRan>>
server  == <<boot, open, bound, hold, watching>>
device  == <<wire, onPrinter>>
history == <<claims, published, intents>>
vars    == <<rows, lane, jobs, archs, server, device, stopping, history>>

-----------------------------------------------------------------------------

Halted      == {"paused", "error"}
Terminal    == {"completed", "failed", "cancelled"}
BeforeTry   == {"spawned", "admitted", "prepared", "archived"}
InTry       == {"uploading", "bound", "ready", "verified", "sending"}
AfterSend   == {"published", "sent"}
Active      == BeforeTry \cup InTry \cup AfterSend
Unfinished  == Active \cup {"queued", "settle"}

RowsOK ==
    /\ status \in [Items -> {"absent", "pending", "printing"} \cup Terminal]
    /\ startedAt \in [Items -> Claims \cup {0}]
    /\ attempts \in [Items -> Nat]
    /\ link \in [Items -> Claims \cup {NoLink, Source}]

LaneOK ==
    /\ laneStatus \in {"idle", "printing"} \cup Halted
    /\ current \in Items \cup {NoItem, External}
    /\ isPaused \in BOOLEAN
    /\ external \in Claims \cup {0}

JobsOK ==
    /\ item \in [Claims -> Items \cup {NoItem}]
    /\ \A k \in Claims : pc[k] \in Unfinished => item[k] \in Items
    /\ direct \in [Claims -> BOOLEAN]
    /\ pc \in [Claims -> Unfinished \cup {"none", "done", "withdrawn", "lost"}]
    /\ cancel \in [Claims -> BOOLEAN]
    /\ token \in [Claims -> Claims \cup {0}]
    /\ orig \in [Claims -> Claims \cup {NoLink, Source}]
    /\ fact \in [Claims -> {"none", "refused", "sent", "accepted"}]
    /\ outcome \in [Claims -> {"none", "success", "wait", "refuse", "turned_away",
                               "cancelled", "failed", "uncertain"}]

ArchivesOK ==
    /\ archive \in [Claims -> {"none", "printing"} \cup Terminal]
    /\ phase \in [Claims -> {"none", "prepared", "sending", "sent", "accepted"}]
    /\ archBoot \in [Claims -> Nat]
    /\ swapRan \in [Claims -> BOOLEAN]

(* An attempt the watchdog follows has a row. *)
ServerOK ==
    /\ boot \in Nat \ {0}
    /\ open \in BOOLEAN
    /\ bound \in Claims \cup {0}
    /\ hold \in BOOLEAN
    /\ watching \in SUBSET {k \in Claims : item[k] \in Items}

DeviceOK ==
    /\ wire \in SUBSET Claims
    /\ onPrinter \in Claims \cup {0}
    /\ stopping \in Items \cup {NoItem}

HistoryOK ==
    /\ claims \in 0 .. MaxClaims
    /\ published \in SUBSET Claims
    /\ intents \in [Items -> Nat]

TypeOK ==
    RowsOK /\ LaneOK /\ JobsOK /\ ArchivesOK /\ ServerOK /\ DeviceOK /\ HistoryOK

SourceLink(i) == IF i \in Reprints THEN Source ELSE NoLink

Init ==
    /\ status = [i \in Items |-> IF i \in Directs THEN "absent" ELSE "pending"]
    /\ startedAt = [i \in Items |-> 0]
    /\ attempts = [i \in Items |-> 0]
    /\ link = [i \in Items |-> SourceLink(i)]
    /\ laneStatus = "idle" /\ current = NoItem /\ isPaused = FALSE /\ external = 0
    /\ item = [k \in Claims |-> NoItem]
    /\ direct = [k \in Claims |-> FALSE]
    /\ pc = [k \in Claims |-> "none"]
    /\ cancel = [k \in Claims |-> FALSE]
    /\ token = [k \in Claims |-> 0]
    /\ orig = [k \in Claims |-> NoLink]
    /\ fact = [k \in Claims |-> "none"]
    /\ outcome = [k \in Claims |-> "none"]
    /\ archive = [k \in Claims |-> "none"]
    /\ phase = [k \in Claims |-> "none"]
    /\ archBoot = [k \in Claims |-> 0]
    /\ swapRan = [k \in Claims |-> FALSE]
    /\ boot = 1 /\ open = TRUE /\ bound = 0 /\ hold = FALSE /\ watching = {}
    /\ wire = {} /\ onPrinter = 0
    /\ stopping = NoItem
    /\ claims = 0 /\ published = {}
    /\ intents = [i \in Items |-> IF i \in Directs THEN 0 ELSE 1]

-----------------------------------------------------------------------------
(* The lane's header (queue_counters.py). *)

SetQueueError(i) ==
    IF current = i THEN laneStatus' = "error" /\ current' = NoItem
    ELSE UNCHANGED <<laneStatus, current>>

SetQueuePaused == laneStatus' = "paused" /\ current' = NoItem

(* Mutant: the release is not conditional on the persisted state. *)
SetQueueIdleAlways(i) == laneStatus' = "idle" /\ current' = NoItem

SetQueueIdle(i) ==
    IF laneStatus = "printing" /\ current = i THEN laneStatus' = "idle" /\ current' = NoItem
    ELSE UNCHANGED <<laneStatus, current>>

(* Mutant: the lane's header alone is believed. *)
LaneFreeByHeader == ~isPaused /\ laneStatus = "idle" /\ external = 0

(* read_queue_occupancy, require_scheduler_claim, require_direct_admission. *)
LaneFree ==
    /\ ~isPaused /\ laneStatus = "idle"
    /\ \A i \in Items : status[i] # "printing"
    /\ external = 0

(* has_work_for_printer and has_dispatch_in_flight. *)
NoWork     == \A k \in Claims : pc[k] \notin Active \cup {"queued"}
NoInFlight == \A k \in Claims : pc[k] \notin Unfinished

NoPrintingArchive == \A k \in Claims : archive[k] # "printing"

-----------------------------------------------------------------------------
(* Claims. *)

(* The claim commits and spawns the dispatch task, which registers its job  *)
(* with the dispatcher at once.                                            *)
NewJob(i, isDirect, start) ==
    LET k == claims + 1 IN
    /\ claims < MaxClaims
    /\ claims' = k
    /\ status' = [status EXCEPT ![i] = "printing"]
    /\ startedAt' = [startedAt EXCEPT ![i] = k]
    /\ laneStatus' = "printing" /\ current' = i
    /\ item' = [item EXCEPT ![k] = i]
    /\ direct' = [direct EXCEPT ![k] = isDirect]
    /\ token' = [token EXCEPT ![k] = IF isDirect THEN k ELSE 0]
    /\ pc' = [pc EXCEPT ![k] = start]
    /\ UNCHANGED <<link, isPaused, external, cancel, orig, fact, outcome, archs, server,
                   device, stopping, published>>

(* Mutant: the claim does not spend an attempt. *)
ClaimUncounted(i) ==
    /\ open /\ LaneFree /\ onPrinter = 0 /\ ~hold
    /\ status[i] = "pending" /\ attempts[i] < DispatchMaxAttempts
    /\ NewJob(i, FALSE, "spawned")
    /\ UNCHANGED <<attempts, intents>>

(* _claim_for_dispatch: a compare-and-set of a pending row. *)
Claim(i) ==
    /\ open /\ LaneFree /\ onPrinter = 0 /\ ~hold
    /\ status[i] = "pending" /\ attempts[i] < DispatchMaxAttempts
    /\ attempts' = [attempts EXCEPT ![i] = @ + 1]
    /\ NewJob(i, FALSE, "spawned")
    /\ UNCHANGED intents

(* The same reading of a row whose attempts are spent. *)
ClaimSpent(i) ==
    /\ open /\ LaneFree /\ onPrinter = 0 /\ ~hold
    /\ status[i] = "pending" /\ attempts[i] >= DispatchMaxAttempts
    /\ status' = [status EXCEPT ![i] = "failed"]
    /\ laneStatus' = "error" /\ current' = NoItem
    /\ UNCHANGED <<startedAt, attempts, link, isPaused, external, jobs, archs, server,
                   device, stopping, history>>

(* "Print now": the row is born claimed and its job is queued. *)
ClaimDirect(i) ==
    /\ open /\ LaneFree /\ onPrinter = 0 /\ NoWork /\ bound = 0
    /\ i \in Directs /\ status[i] = "absent"
    /\ intents' = [intents EXCEPT ![i] = 1]
    /\ NewJob(i, TRUE, "queued")
    /\ UNCHANGED attempts

MoveTo(k, where) == pc' = [pc EXCEPT ![k] = where] /\ UNCHANGED outcome

(* _dispatcher_loop takes a queued job. *)
TakeJob(k) ==
    /\ pc[k] = "queued"
    /\ MoveTo(k, "spawned")
    /\ UNCHANGED <<rows, lane, jobData, archs, server, device, stopping, history>>

(* cancel_job of a job still queued. *)
CancelQueued(k) ==
    /\ pc[k] = "queued"
    /\ MoveTo(k, "withdrawn")
    /\ UNCHANGED <<rows, lane, jobData, archs, server, device, stopping, history>>

(* cancel_job of an active job. *)
CancelJob(k) ==
    /\ pc[k] \in Active /\ ~cancel[k]
    /\ cancel' = [cancel EXCEPT ![k] = TRUE]
    /\ UNCHANGED <<rows, lane, item, direct, pc, token, orig, fact, outcome, archs, server,
                   device, stopping, history>>

-----------------------------------------------------------------------------
(* A job's way to the start command. *)

Published(k) == fact[k] \in {"sent", "accepted"}

(* Mutant: the run binding of a start that was not sent is kept. *)
RunnerEndsBound(k, how) ==
    /\ pc' = [pc EXCEPT ![k] = "settle"]
    /\ outcome' = [outcome EXCEPT ![k] = how]
    /\ UNCHANGED server

(* The runner leaves with an outcome.  A job that has not published takes   *)
(* its expected print and its run binding back on the way out.             *)
RunnerEnds(k, how) ==
    /\ pc' = [pc EXCEPT ![k] = "settle"]
    /\ outcome' = [outcome EXCEPT ![k] = how]
    /\ bound' = IF bound = k /\ ~Published(k) THEN 0 ELSE bound
    /\ UNCHANGED <<boot, open, hold, watching>>

(* _mark_dispatch_archive_terminal, abort_execution_archive. *)
CloseArchive(k, result) ==
    /\ archive' = IF archive[k] = "printing" THEN [archive EXCEPT ![k] = result] ELSE archive
    /\ UNCHANGED <<phase, archBoot, swapRan>>

(* farm_startup_guard.require(), and a direct job's strict stagger gate. *)
Admit(k) ==
    /\ pc[k] = "spawned"
    /\ \/ open /\ MoveTo(k, "admitted") /\ UNCHANGED server
       \/ ~open /\ RunnerEnds(k, "wait")
       \/ open /\ direct[k] /\ RunnerEnds(k, "turned_away")
    /\ UNCHANGED <<rows, lane, jobData, archs, device, stopping, history>>

(* _prepare_filament_routing: the claim is read here. *)
Prepare(k) ==
    LET i == item[k] IN
    /\ pc[k] = "admitted"
    /\ IF status[i] = "printing"
       THEN /\ token' = [token EXCEPT ![k] = startedAt[i]]
            /\ orig' = [orig EXCEPT ![k] = link[i]]
            /\ MoveTo(k, "prepared")
            /\ UNCHANGED server
       ELSE RunnerEnds(k, "wait") /\ UNCHANGED <<token, orig>>
    /\ UNCHANGED <<rows, lane, item, direct, cancel, fact, archs, device, stopping, history>>

(* The execution archive; the row is pointed at it whoever holds the row.  *)
CreateArchive(k) ==
    /\ pc[k] = "prepared"
    /\ archive' = [archive EXCEPT ![k] = "printing"]
    /\ phase' = [phase EXCEPT ![k] = "prepared"]
    /\ archBoot' = [archBoot EXCEPT ![k] = boot]
    /\ link' = [link EXCEPT ![item[k]] = k]
    /\ MoveTo(k, "archived")
    /\ UNCHANGED <<status, startedAt, attempts, lane, jobData, swapRan, server, device,
                   stopping, history>>

(* A cancel noticed before the runner's own try: nobody closes the archive, *)
(* and the scheduler, told neither of a cancel nor of success, fails it.   *)
CancelBeforeTry(k) ==
    /\ pc[k] = "archived" /\ cancel[k]
    /\ RunnerEnds(k, IF direct[k] THEN "cancelled" ELSE "failed")
    /\ UNCHANGED <<rows, lane, jobData, archs, device, stopping, history>>

Upload(k) ==
    /\ pc[k] = "archived" /\ ~cancel[k]
    /\ MoveTo(k, "uploading")
    /\ UNCHANGED <<rows, lane, jobData, archs, server, device, stopping, history>>

CancelInTry(k) ==
    /\ pc[k] \in {"uploading", "bound", "ready"} /\ cancel[k]
    /\ RunnerEnds(k, "cancelled")
    /\ CloseArchive(k, "cancelled")
    /\ UNCHANGED <<rows, lane, jobData, device, stopping, history>>

(* bind_prepared_print_run: any other context vetoes. *)
Bind(k) ==
    /\ pc[k] = "uploading" /\ ~cancel[k]
    /\ IF bound \in {0, k}
       THEN bound' = k /\ MoveTo(k, "bound") /\ UNCHANGED <<boot, open, hold, watching>>
       ELSE RunnerEnds(k, "wait")
    /\ UNCHANGED <<rows, lane, jobData, archs, device, stopping, history>>

(* _run_swap_macro_if_needed: "possibly_fired" is committed before the     *)
(* command may leave, so the command counts as run from here on.  Nothing   *)
(* runs for a row that asks for none, or when no macro fits the printer.    *)
RunSwapMacro(k) ==
    /\ pc[k] = "bound" /\ ~cancel[k]
    /\ \/ /\ item[k] \in Swaps
          /\ swapRan' = [swapRan EXCEPT ![k] = TRUE]
          /\ UNCHANGED <<phase, archBoot>>
          /\ \/ MoveTo(k, "ready") /\ UNCHANGED <<server, archive>>
             \/ /\ RunnerEnds(k, "failed")
                /\ archive' = [archive EXCEPT ![k] = IF @ = "printing" THEN "failed" ELSE @]
       \/ MoveTo(k, "ready") /\ UNCHANGED <<server, archs>>
    /\ UNCHANGED <<rows, lane, jobData, device, stopping, history>>

(* Mutant: any claim of the row will do. *)
OwnsClaimOfAnyAttempt(k) == status[item[k]] = "printing"

(* Mutant: the attempt is recognised by the archive its row points at. *)
OwnsClaimByArchive(k) == status[item[k]] = "printing" /\ link[item[k]] = k

(* _claim_change_detail *)
OwnsClaim(k) == status[item[k]] = "printing" /\ startedAt[item[k]] = token[k]

(* _verify_routing_claim, the last look at the row. *)
Verify(k) ==
    /\ pc[k] = "ready"
    /\ IF OwnsClaim(k) THEN MoveTo(k, "verified") /\ UNCHANGED server
                       ELSE RunnerEnds(k, "wait")
    /\ UNCHANGED <<rows, lane, jobData, archs, device, stopping, history>>

(* A refusal that names the attempt's own preparation, or any other error.  *)
Deferred(k) ==
    /\ pc[k] \in {"prepared", "archived", "uploading", "bound", "ready", "verified"}
    /\ \E how \in {"wait", "refuse"} : RunnerEnds(k, how)
    /\ UNCHANGED <<rows, lane, jobData, archs, device, stopping, history>>

RunnerFails(k) ==
    /\ pc[k] \in {"admitted", "prepared", "archived", "uploading", "bound", "ready", "verified"}
    /\ RunnerEnds(k, "failed")
    /\ CloseArchive(k, "failed")
    /\ UNCHANGED <<rows, lane, jobData, device, stopping, history>>

(* _send_start: the compare-and-set of "sending" comes first. *)
CommitSending(k) ==
    /\ pc[k] = "verified"
    /\ IF archive[k] = "printing" /\ phase[k] = "prepared" /\ archBoot[k] = boot
       THEN /\ phase' = [phase EXCEPT ![k] = "sending"]
            /\ MoveTo(k, "sending")
            /\ UNCHANGED <<archive, archBoot, swapRan, server>>
       ELSE RunnerEnds(k, "failed") /\ CloseArchive(k, "failed")
    /\ UNCHANGED <<rows, lane, jobData, device, stopping, history>>

(* start(): the guard's last word, then the publish.  A call that raised    *)
(* counts as sent; PrinterDrops covers what never reached the printer.     *)
Publish(k) ==
    /\ pc[k] = "sending"
    /\ \/ /\ open
          /\ published' = published \cup {k}
          /\ wire' = wire \cup {k}
          /\ fact' = [fact EXCEPT ![k] = "sent"]
          /\ MoveTo(k, "published")
          /\ UNCHANGED server
       \/ /\ fact' = [fact EXCEPT ![k] = "refused"]
          /\ RunnerEnds(k, "wait")
          /\ UNCHANGED <<published, wire>>
    /\ UNCHANGED <<rows, lane, item, direct, cancel, token, orig, archs, onPrinter, stopping,
                   claims, intents>>

RecordSent(k) ==
    /\ pc[k] = "published"
    /\ phase' = IF phase[k] = "sending" /\ archive[k] = "printing"
                THEN [phase EXCEPT ![k] = "sent"] ELSE phase
    /\ MoveTo(k, "sent")
    /\ UNCHANGED <<rows, lane, jobData, archive, archBoot, swapRan, server, device, stopping,
                   history>>

(* _require_running: seen running; no answer asked for; no start within the *)
(* wait, or a rejection; nothing could be observed.                        *)
Answer(k) ==
    /\ pc[k] = "sent"
    /\ \/ /\ phase[k] = "accepted"
          /\ fact' = [fact EXCEPT ![k] = "accepted"]
          /\ RunnerEnds(k, "success")
          /\ UNCHANGED archs
       \/ RunnerEnds(k, "success") /\ UNCHANGED <<fact, archs>>
       \/ /\ phase[k] # "accepted"
          /\ RunnerEnds(k, "failed")
          /\ CloseArchive(k, "failed")
          /\ UNCHANGED fact
       \/ RunnerEnds(k, "uncertain") /\ UNCHANGED <<fact, archs>>
    /\ UNCHANGED <<rows, lane, item, direct, cancel, token, orig, device, stopping, history>>

-----------------------------------------------------------------------------
(* What the attempt's end does to its row. *)

(* The job object is gone; its claim token stays readable as history.       *)
Finished(k) ==
    /\ pc' = [pc EXCEPT ![k] = "done"]
    /\ cancel' = [cancel EXCEPT ![k] = FALSE]
    /\ orig' = [orig EXCEPT ![k] = NoLink]
    /\ fact' = [fact EXCEPT ![k] = "none"]
    /\ outcome' = [outcome EXCEPT ![k] = "none"]
    /\ UNCHANGED <<item, direct, token>>

(* Mutant: a swap macro that may have run does not end the attempt. *)
DeferTerminalNoMacro(k) == direct[k] \/ outcome[k] = "refuse" \/ Published(k)

(* defer_claim ends the row where it must not be tried again by itself. *)
DeferTerminal(k) == direct[k] \/ outcome[k] = "refuse" \/ swapRan[k] \/ Published(k)

(* defer_claim: a refusal before the publish.  Addressed to the claim the   *)
(* job has read; without one only the archive is closed.                   *)
DeferClaim(k) ==
    LET i     == item[k]
        owned == token[k] # 0 /\ OwnsClaim(k)
        ends  == DeferTerminal(k)
        made  == archive[k] # "none"
    IN
    /\ CloseArchive(k, IF swapRan[k] \/ (ends /\ owned) THEN "failed" ELSE "cancelled")
    /\ IF owned
       THEN /\ status' = [status EXCEPT ![i] = IF ends THEN "failed" ELSE "pending"]
            /\ startedAt' = [startedAt EXCEPT ![i] =
                                IF ends /\ (made \/ swapRan[k] \/ Published(k)) THEN @ ELSE 0]
            /\ attempts' = [attempts EXCEPT ![i] = IF ends \/ @ = 0 THEN @ ELSE @ - 1]
            /\ link' = [link EXCEPT ![i] = orig[k]]
            /\ IF ends /\ (~direct[k] \/ swapRan[k]) THEN SetQueueError(i) ELSE SetQueueIdle(i)
       ELSE UNCHANGED <<rows, laneStatus, current>>

(* Mutant: a failure gives the lane back as an ordinary end does. *)
FailAttemptReleases(i, t) ==
    IF status[i] = "printing" /\ startedAt[i] = t
    THEN status' = [status EXCEPT ![i] = "failed"] /\ SetQueueIdle(i)
    ELSE UNCHANGED <<status, laneStatus, current>>

(* _fail_attempt: a compare-and-set on the attempt's claim. *)
FailAttempt(i, t) ==
    IF status[i] = "printing" /\ startedAt[i] = t
    THEN status' = [status EXCEPT ![i] = "failed"] /\ SetQueueError(i)
    ELSE UNCHANGED <<status, laneStatus, current>>

(* _cancel_item: whatever the row and the lane are by now. *)
CancelItem(i) == status' = [status EXCEPT ![i] = "cancelled"] /\ SetQueuePaused

(* _release_direct_claim *)
ReleaseDirectClaim(k, result, queueError) ==
    LET i == item[k] IN
    IF token[k] # 0 /\ OwnsClaim(k) /\ current = i
    THEN /\ status' = [status EXCEPT ![i] = result]
         /\ IF queueError THEN SetQueueError(i) ELSE SetQueueIdle(i)
    ELSE UNCHANGED <<status, laneStatus, current>>

SettleDeferred(k) ==
    /\ pc[k] = "settle" /\ outcome[k] \in {"wait", "refuse"}
    /\ DeferClaim(k)
    /\ Finished(k)
    /\ UNCHANGED <<isPaused, external, server, device, stopping, history>>

SettleFailed(k) ==
    /\ pc[k] = "settle" /\ outcome[k] \in {"failed", "turned_away"}
    /\ IF direct[k] THEN ReleaseDirectClaim(k, "failed", outcome[k] = "failed")
                    ELSE FailAttempt(item[k], k)
    /\ Finished(k)
    /\ UNCHANGED <<startedAt, attempts, link, isPaused, external, archs, server,
                   device, stopping, history>>

SettleCancelled(k) ==
    /\ pc[k] = "settle" /\ outcome[k] = "cancelled"
    /\ IF direct[k] THEN ReleaseDirectClaim(k, "cancelled", FALSE) ELSE CancelItem(item[k])
    /\ Finished(k)
    /\ UNCHANGED <<startedAt, attempts, link, isPaused, external, archs, server,
                   device, stopping, history>>

(* Success holds the printer and, when it has reported a state, sets the    *)
(* watchdog.  A direct print and an unknown outcome are left to the printer.*)
SettleSent(k) ==
    /\ pc[k] = "settle" /\ outcome[k] \in {"success", "uncertain"}
    /\ IF ~direct[k] /\ outcome[k] = "success"
       THEN hold' = TRUE /\ watching' \in {watching, watching \cup {k}}
       ELSE UNCHANGED <<hold, watching>>
    /\ Finished(k)
    /\ UNCHANGED <<rows, lane, archs, boot, open, bound, device, stopping, history>>

(* _printer_in_dispatch_hold: the hold runs out. *)
HoldExpires ==
    /\ hold
    /\ hold' = FALSE
    /\ UNCHANGED <<rows, lane, jobs, archs, boot, open, bound, watching, device, stopping,
                   history>>

(* _watchdog_print_start at its deadline: the row's claim is read now.      *)
WatchdogFails(k) ==
    LET i == item[k] IN
    /\ k \in watching /\ onPrinter = 0
    /\ watching' = watching \ {k}
    /\ hold' = FALSE
    /\ FailAttempt(i, startedAt[i])
    /\ IF status[i] = "printing" /\ link[i] \in Claims
       THEN CloseArchive(link[i], "failed")
       ELSE UNCHANGED archs
    /\ UNCHANGED <<startedAt, attempts, link, isPaused, external, jobs, boot, open, bound,
                   device, stopping, history>>

-----------------------------------------------------------------------------
(* The printer, and the callbacks that report it (main.py). *)

(* mark_queue_printing_for_printer(archive_id=k) *)
MarkQueuePrinting(k) ==
    LET live  == {i \in Items : status[i] = "printing"}
        mine  == {i \in live : link[i] = k}
        other == live # {} \/ external \notin {0, k}
    IN
    /\ laneStatus' = "printing"
    /\ \/ /\ mine # {}
          /\ current' \in mine
          /\ UNCHANGED <<link, isPaused, external>>
       \/ /\ mine = {} /\ external = 0
          /\ \E i \in live : live = {i} /\ i \in Directs
                             /\ link' = [link EXCEPT ![i] = k] /\ current' = i
          /\ UNCHANGED <<isPaused, external>>
       \/ /\ mine = {} /\ ~\E i \in live : live = {i} /\ i \in Directs /\ external = 0
          /\ external' = k
          /\ current' = External
          /\ isPaused' = (isPaused \/ other)
          /\ UNCHANGED link

(* _close_stale_printing_rows: other runs that were seen running and are    *)
(* still open, unless their printing time is not known.                    *)
CloseStaleRuns(k) ==
    LET stale == {j \in Claims \ {k} : archive[j] = "printing" /\ phase[j] = "accepted"} IN
    \E result \in [stale -> {"printing", "completed", "cancelled"}] :
        archive' = [j \in Claims |-> IF j = k THEN "printing"
                                     ELSE IF j \in stale THEN result[j] ELSE archive[j]]

(* A start under way takes effect, and on_print_start recognises it.  Bound: *)
(* one external row at a time.                                             *)
PrinterStarts(k) ==
    /\ k \in wire /\ onPrinter = 0 /\ external = 0
    /\ wire' = wire \ {k}
    /\ onPrinter' = k
    /\ CloseStaleRuns(k)
    /\ phase' = [phase EXCEPT ![k] = "accepted"]
    /\ bound' = k /\ hold' = FALSE /\ watching' = {}
    /\ MarkQueuePrinting(k)
    /\ UNCHANGED <<status, startedAt, attempts, jobs, archBoot, swapRan, boot, open,
                   stopping, history>>

(* The printer never acts on it. *)
PrinterDrops(k) ==
    /\ k \in wire
    /\ wire' = wire \ {k}
    /\ UNCHANGED <<rows, lane, jobs, archs, server, onPrinter, stopping, history>>

(* _accept_bound_terminal_run: one printing row and a printing archive. *)
Accepted(k) ==
    /\ k # 0 /\ bound = k
    /\ archive[k] = "printing"
    /\ external = k \/ \E i \in Items : status[i] = "printing" /\ link[i] = k

(* Mutant: MQTT's own spelling reaches the rows. *)
NormalisedNot(result) == result

(* _normalise_terminal_outcome: the queue has no "aborted". *)
Normalised(result) == IF result = "aborted" THEN "cancelled" ELSE result

(* on_print_complete.  A run it does not accept leaves everything as it is. *)
PrinterEnds(reported) ==
    LET k      == onPrinter
        result == Normalised(reported)
        own    == {i \in Items : status[i] = "printing" /\ link[i] = k}
        owner  == IF external = k THEN External ELSE CHOOSE i \in own : TRUE
    IN
    /\ k # 0
    /\ onPrinter' = 0
    /\ IF Accepted(k)
       THEN /\ archive' = [archive EXCEPT ![k] = result]
            /\ bound' = 0
            /\ status' = [i \in Items |-> IF i \in own THEN result ELSE status[i]]
            /\ external' = IF external = k THEN 0 ELSE external
            /\ CASE result = "failed"    -> SetQueueError(owner)
                 [] result = "cancelled" -> IF current = owner THEN SetQueuePaused
                                            ELSE UNCHANGED <<laneStatus, current>>
                 [] OTHER                -> SetQueueIdle(owner)
       ELSE UNCHANGED <<archive, bound, status, external, laneStatus, current>>
    /\ UNCHANGED <<startedAt, attempts, link, isPaused, jobs, phase, archBoot, swapRan, boot,
                   open, hold, watching, wire, stopping, history>>

-----------------------------------------------------------------------------
(* Crash, restart and recovery. *)

(* The server dies and a new one starts: what was in RAM is gone, the farm  *)
(* is held, and release_interrupted_dispatch_claims runs before anything.  *)
Restart ==
    LET i     == current
        stale == /\ laneStatus = "printing" /\ i \in Items
                 /\ status[i] = "printing" /\ link[i] = NoLink /\ NoPrintingArchive
    IN
    /\ boot < MaxBoots
    /\ boot' = boot + 1
    /\ open' = FALSE /\ bound' = 0 /\ hold' = FALSE /\ watching' = {}
    /\ pc' = [k \in Claims |-> IF pc[k] \in Unfinished THEN "lost" ELSE pc[k]]
    /\ cancel' = [k \in Claims |-> FALSE]
    /\ orig' = [k \in Claims |-> NoLink]
    /\ fact' = [k \in Claims |-> "none"]
    /\ outcome' = [k \in Claims |-> "none"]
    /\ stopping' = NoItem
    /\ IF stale
       THEN /\ status' = [status EXCEPT ![i] = "pending"]
            /\ startedAt' = [startedAt EXCEPT ![i] = 0]
            /\ laneStatus' = "idle" /\ current' = NoItem
       ELSE UNCHANGED <<status, startedAt, laneStatus, current>>
    /\ UNCHANGED <<attempts, link, isPaused, external, item, direct, token, archs, device, history>>

(* on_print_start for a print that was already running: its archive is     *)
(* adopted.  (A print whose archive is closed gets a new one: not modelled.) *)
Adopt ==
    LET k == onPrinter IN
    /\ k # 0 /\ bound = 0 /\ archive[k] = "printing"
    /\ external \in {0, k}
    /\ CloseStaleRuns(k)
    /\ phase' = [phase EXCEPT ![k] = "accepted"]
    /\ bound' = k
    /\ MarkQueuePrinting(k)
    /\ UNCHANGED <<status, startedAt, attempts, jobs, archBoot, swapRan, boot, open,
                   hold, watching, device, stopping, history>>

(* Mutant: every unfinished archive of an ended server counts. *)
InterruptedAnyPhase(i) ==
    LET k == link[i] IN
    /\ status[i] = "printing" /\ k \in Claims
    /\ archive[k] = "printing" /\ phase[k] \in {"prepared", "sending"}
    /\ archBoot[k] # boot

(* The candidate of recover_interrupted_dispatches. *)
Interrupted(i) ==
    LET k == link[i] IN
    /\ status[i] = "printing" /\ k \in Claims
    /\ archive[k] = "printing" /\ phase[k] = "prepared"
    /\ archBoot[k] # boot

(* interrupted_dispatch._settle *)
SettleInterrupted(i) ==
    LET k    == link[i]
        ends == swapRan[k] \/ i \in Directs \/ attempts[i] >= DispatchMaxAttempts
    IN
    /\ Interrupted(i)
    /\ open /\ onPrinter = 0
    /\ \A j \in Claims \ {k} : archive[j] # "printing"
    /\ archive' = [archive EXCEPT ![k] = "failed"]
    /\ status' = [status EXCEPT ![i] = IF ends THEN "failed" ELSE "pending"]
    /\ startedAt' = [startedAt EXCEPT ![i] = IF ends THEN @ ELSE 0]
    /\ link' = [link EXCEPT ![i] = IF ends THEN @ ELSE SourceLink(i)]
    /\ IF ends /\ ~(i \in Directs /\ ~swapRan[k]) THEN SetQueueError(i) ELSE SetQueueIdle(i)
    /\ UNCHANGED <<attempts, isPaused, external, jobs, phase, archBoot, swapRan, server, device,
                   stopping, history>>

(* _repair_terminal_queue_items: rows whose execution archive is closed. *)
RepairRows ==
    LET live == {i \in Items : status[i] = "printing"} IN
    /\ live # {} /\ external = 0
    /\ onPrinter = 0 /\ NoInFlight
    /\ current \in live \cup {NoItem}
    /\ NoPrintingArchive
    /\ \A i \in live : link[i] \in Claims /\ link[i] >= startedAt[i] /\ archive[link[i]] # "none"
    /\ \A i, j \in live : link[i] = link[j] => i = j
    /\ status' = [i \in Items |-> IF i \in live THEN archive[link[i]] ELSE status[i]]
    /\ laneStatus' = IF laneStatus = "error" THEN "error" ELSE "paused"
    /\ current' = NoItem /\ isPaused' = TRUE
    /\ UNCHANGED <<startedAt, attempts, link, external, jobs, archs, server, device, stopping,
                   history>>

(* The operator's "clear terminal context": the queue is paused first. *)
ClearContext ==
    /\ bound # 0 /\ archive[bound] \in Terminal
    /\ onPrinter = 0 /\ NoInFlight /\ ~hold
    /\ isPaused' = TRUE
    /\ bound' = 0
    /\ UNCHANGED <<rows, laneStatus, current, external, jobs, archs, boot, open, hold, watching,
                   device, stopping, history>>

-----------------------------------------------------------------------------
(* The operator. *)

(* The farm guard closes for a restore or a hold, and opens on Resume. *)
CloseFarm ==
    /\ open /\ open' = FALSE
    /\ UNCHANGED <<rows, lane, jobs, archs, boot, bound, hold, watching, device, stopping, history>>

OpenFarm ==
    /\ ~open /\ open' = TRUE
    /\ UNCHANGED <<rows, lane, jobs, archs, boot, bound, hold, watching, device, stopping, history>>

(* update_queue with the payload of the one Resume control: is_paused off,  *)
(* and status to "idle" when the page shows a halted queue.  The page may   *)
(* show an older state than the database has (StaleResume).                *)
ResumeLane ==
    LET clears == laneStatus \in Halted \/ (StaleResume /\ laneStatus = "printing") IN
    /\ clears \/ isPaused
    /\ isPaused' = FALSE
    /\ IF clears THEN laneStatus' = "idle" /\ current' = NoItem
                 ELSE UNCHANGED <<laneStatus, current>>
    /\ UNCHANGED <<rows, external, jobs, archs, server, device, stopping, history>>

(* What stop_queue_item does once it has read the row: flag the row's jobs, *)
(* write the row and the lane, and close the archive if no stop was sent.  *)
StopRow(i) ==
    /\ cancel' = [k \in Claims |-> cancel[k] \/ (pc[k] \in Active /\ item[k] = i)]
    /\ status' = [status EXCEPT ![i] = "cancelled"]
    /\ SetQueuePaused
    /\ \/ UNCHANGED archs
       \/ link[i] \in Claims /\ CloseArchive(link[i], "cancelled")
    /\ UNCHANGED <<startedAt, attempts, link, isPaused, external, item, direct, pc, token, orig,
                   fact, outcome, server, device, history>>

Stop(i) ==
    /\ status[i] = "printing"
    /\ StopRow(i)
    /\ UNCHANGED stopping

(* The same request when ensure_fresh_connection keeps it waiting.          *)
BeginStop(i) ==
    /\ SlowStop
    /\ stopping = NoItem
    /\ status[i] = "printing"
    /\ stopping' = i
    /\ UNCHANGED <<rows, lane, jobs, archs, server, device, history>>

FinishStop ==
    /\ stopping # NoItem
    /\ StopRow(stopping)
    /\ stopping' = NoItem

CancelPending(i) ==
    /\ status[i] = "pending"
    /\ status' = [status EXCEPT ![i] = "cancelled"]
    /\ UNCHANGED <<startedAt, attempts, link, lane, jobs, archs, server, device, stopping, history>>

(* retry_failed_item.  A queued row's attempt passes its gate within         *)
(* milliseconds of its claim and makes its archive soon after (a direct     *)
(* print may wait at its gate for a stagger slot): RetryOvertakes says how   *)
(* far from that a person's Stop and Retry may catch it.                   *)
Retry(i) ==
    /\ status[i] \in {"failed", "cancelled"}
    /\ intents[i] < MaxIntents
    /\ \A k \in Claims : item[k] = i /\ pc[k] \in {"spawned", "admitted", "prepared"} =>
                          pc[k] \in RetryOvertakes \/ (direct[k] /\ pc[k] # "prepared")
    /\ intents' = [intents EXCEPT ![i] = @ + 1]
    /\ status' = [status EXCEPT ![i] = "pending"]
    /\ attempts' = [attempts EXCEPT ![i] = 0]
    /\ link' = [link EXCEPT ![i] = SourceLink(i)]
    /\ UNCHANGED <<startedAt, lane, jobs, archs, server, device, stopping, claims, published>>

-----------------------------------------------------------------------------

JobStep(k) ==
    \/ TakeJob(k) \/ CancelQueued(k) \/ CancelJob(k)
    \/ Admit(k) \/ Prepare(k) \/ CreateArchive(k) \/ CancelBeforeTry(k) \/ Upload(k)
    \/ CancelInTry(k) \/ Bind(k) \/ RunSwapMacro(k) \/ Verify(k)
    \/ Deferred(k) \/ RunnerFails(k)
    \/ CommitSending(k) \/ Publish(k) \/ RecordSent(k) \/ Answer(k)
    \/ SettleDeferred(k) \/ SettleFailed(k) \/ SettleCancelled(k) \/ SettleSent(k)
    \/ WatchdogFails(k)

RowStep(i) ==
    \/ Claim(i) \/ ClaimSpent(i) \/ ClaimDirect(i)
    \/ SettleInterrupted(i)
    \/ Stop(i) \/ BeginStop(i) \/ CancelPending(i) \/ Retry(i)

Next ==
    \/ \E k \in Claims : JobStep(k)
    \/ \E i \in Items : RowStep(i)
    \/ \E k \in Claims : PrinterStarts(k) \/ PrinterDrops(k)
    \/ \E reported \in {"completed", "failed", "aborted"} : PrinterEnds(reported)
    \/ Restart \/ Adopt \/ RepairRows \/ ClearContext
    \/ CloseFarm \/ OpenFarm \/ ResumeLane \/ FinishStop
    \/ HoldExpires

Spec == Init /\ [][Next]_vars

-----------------------------------------------------------------------------
(* Properties. *)

(* A row that takes the server down with it is not tried for ever: of the   *)
(* attempts a crash has cut off, a queued row has had at most as many as    *)
(* its budget allows for every time a person asked for it, whatever was     *)
(* given back in between (dispatch_attempts is returned by a deferral, kept *)
(* by a restart and reset by Retry).                                        *)
CrashLoopIsBounded ==
    \A i \in Items :
        Cardinality({k \in Claims : item[k] = i /\ ~direct[k] /\ pc[k] = "lost"})
            <= DispatchMaxAttempts * intents[i]

(* The farm never sends one file twice on its own: a row is started on the  *)
(* printer at most as many times as a person asked for it, whatever is     *)
(* stopped, refused, retried, lost or interrupted on the way.              *)
AtMostOneStartPerIntent ==
    \A i \in Items : Cardinality({k \in published : item[k] = i}) <= intents[i]

(* A claimed row goes back to pending by itself (defer_claim, the startup   *)
(* sweep, interrupted_dispatch) only when its attempt published no start    *)
(* and its swap-start macro did not run.                                   *)
RequeueOnlyUnpublished ==
    [][\A i \in Items : status[i] = "printing" /\ status'[i] = "pending" =>
          /\ startedAt[i] \notin published
          /\ startedAt[i] # 0 => ~swapRan[startedAt[i]]]_vars

(* The printer has one owner among the rows, however late a request or the  *)
(* end of an earlier attempt writes.                                       *)
OneClaimPerLane ==
    \A i, j \in Items : status[i] = "printing" /\ status[j] = "printing" => i = j

(* A run binding vetoes every later dispatch on the printer, so it may      *)
(* outlive its job only when that job's start was published.               *)
BindingIsOwned ==
    bound # 0 => bound \in published \/ pc[bound] \in InTry

ClaimWithoutJob(k) ==
    /\ pc[k] = "done" /\ item[k] \in Items /\ token[k] # 0
    /\ status[item[k]] = "printing" /\ startedAt[item[k]] = k

(* A queued row that still claims the printer after its attempt has ended   *)
(* was sent: every other end of an attempt gives the printer back.  (An     *)
(* attempt that ended before it had read its claim is the exception.)      *)
QueuedClaimWasSent ==
    \A k \in Claims : ClaimWithoutJob(k) /\ ~direct[k] => k \in published

(* A halted lane (a failure, a Stop) leaves its halt only by the operator   *)
(* or by a print the printer really runs: the late end of another attempt   *)
(* does not set it going again.                                            *)
HaltSurvives ==
    [][(laneStatus \in Halted /\ laneStatus' \notin Halted) =>
          \/ ResumeLane
          \/ bound' = onPrinter' /\ bound' # 0 /\ <<bound, onPrinter>>' # <<bound, onPrinter>>]_vars

(* When an attempt of a queued row ends as failed while its row owns the    *)
(* lane, the lane halts: the next pending row is not claimed over it.      *)
FailureHaltsLane ==
    [][\A i \in Items \ Directs :
          (status[i] = "printing" /\ status'[i] = "failed" /\ current = i)
          => laneStatus' \in Halted]_vars

(* The terminal report of a run whose row a Stop has cancelled closes the   *)
(* run's archive.                                                          *)
StoppedRunIsClosed ==
    [][(onPrinter # 0 /\ onPrinter' = 0 /\ archive[onPrinter] = "printing"
        /\ \E i \in Items : link[i] = onPrinter /\ status[i] = "cancelled")
       => archive'[onPrinter] \in Terminal]_vars

(***************************************************************************)
(* What the queue promises about requests (PrintRequest), for its queued    *)
(* rows.  A request passes from its row to the attempt at the attempt's     *)
(* last look at the row (Verify): from there on the attempt may publish      *)
(* whatever happens to the row.                                            *)
(***************************************************************************)

Queued == Items \ Directs

(* The attempt has published, or may without another look at the row. *)
Ticket(k) == k \in published \/ pc[k] \in {"verified", "sending"}

RowState(i) ==
    IF status[i] = "pending" THEN "waiting"
    ELSE IF status[i] = "printing" THEN "held" ELSE "closed"

GivenTo(i) == IF status[i] = "printing" /\ Ticket(startedAt[i]) THEN startedAt[i] ELSE 0

Loaded(i) == {k \in Claims : item[k] = i /\ pc[k] \in {"verified", "sending"}}

SentFor(i) == {k \in published : item[k] = i}

RowStates  == [i \in Queued |-> RowState(i)]
GivenTos   == [i \in Queued |-> GivenTo(i)]
LoadedOf   == [i \in Queued |-> Loaded(i)]
SentOf     == [i \in Queued |-> SentFor(i)]
AskedFor   == [i \in Queued |-> intents[i]]
DirectHeld == \E i \in Directs : status[i] = "printing"

Request == INSTANCE PrintRequest WITH
    Rows <- Queued, Attempts <- Claims, None <- 0,
    row <- RowStates, given <- GivenTos, loaded <- LoadedOf, sent <- SentOf,
    asked <- AskedFor, other <- DirectHeld

(* Every step of the scheduler, the jobs, the callbacks, the recovery and    *)
(* the operator moves the queued rows' requests as PrintRequest allows: a    *)
(* row is claimed only on a free printer, an attempt sends only what its     *)
(* row handed to it, a row goes back to the queue only while no attempt has  *)
(* its request, and a crash leaves no attempt that could still send.        *)
RefinesPrintRequest == Request!RequestSpec
=============================================================================
