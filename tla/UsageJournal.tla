---------------------------- MODULE UsageJournal ----------------------------
(***************************************************************************)
(* The usage journal of a print the server joined after a restart           *)
(* (print_usage_journal.py, the journal half of bambu_mqtt.py, the seed in  *)
(* main.py): which tray, and which reel in it, fed which layers.            *)
(*                                                                         *)
(* The new client holds the printer's tray reports until a seed gives it    *)
(* the chronology of the journal back; the seed replays them into a batch   *)
(* of facts, and the next holder of the journal lock writes the batch       *)
(* before it does anything of its own.  Meanwhile people and the RFID       *)
(* reader bind other reels to the trays, and the print may end.             *)
(*                                                                         *)
(* One printer, one print with a journaled start, trays that do not run     *)
(* dry, a client that is never missing.                                     *)
(***************************************************************************)
EXTENDS Naturals, Sequences, FiniteSets, SequencesExt

CONSTANTS
    Trays, Unknown,   \* UNKNOWN_FEED, the tray of a stretch nobody observed
    Reels, NoReel,    \* NoReel: an unbound tray
    AtWrite,          \* a fact without a name: the reel bound when it is written
    None,
    PendingLimit,     \* _JOURNAL_PENDING_LIMIT
    SeedRetries,      \* Len(_USAGE_SEED_RETRY_DELAYS)
    MaxReports,       \* bound: tray reports
    MaxBinds,         \* bound: assignments
    MaxFaults         \* bound: crashes, cancellations, failed database calls

ASSUME LimitAssumption == PendingLimit \in Nat \ {0} /\ SeedRetries \in Nat
ASSUME BoundAssumption == MaxReports \in Nat /\ MaxBinds \in Nat /\ MaxFaults \in Nat
ASSUME NamesAssumption == Unknown \notin Trays /\ NoReel \notin Reels /\ AtWrite \notin Reels \cup {NoReel}
(* None is no assignment. *)
ASSUME NoneAssumption == None \notin [tray : Trays, reel : Reels, locked : BOOLEAN, noted : BOOLEAN]

VARIABLES
    client,    \* the MQTT client: held reports, chronology, last_loaded_tray
    finished,  \* _completion_triggered
    journal,   \* print_usage_events: the start and the tray changes
    binding,   \* the reel assigned to each tray
    bind,      \* the assignment under the AMS lock
    queue,     \* the tasks at the journal lock; the first one holds it
    pc,        \* what the holder still has to do, step by step
    snapshot,  \* what the holder's seed has read
    replays,   \* _pending_replays
    writer,    \* is _write_pending_replays running?
    seeder,    \* the seed's own task: due again, at the lock, or gone
    failures,  \* seeds that failed
    binds,     \* assignments begun
    settled,   \* the completion may read the chronology
    seen,      \* history: every tray report, with the reels it may be given
    joined,    \* history: the reports of earlier processes
    undone,    \* history: reels of assignments that were noted and rolled back
    astray,    \* history: a seed was applied to an ended print, or without the journal
    faults

lock == <<queue, pc, snapshot>>
history == <<seen, joined, undone, astray>>
tail == <<seeder, failures, settled>>
vars == <<client, finished, journal, binding, bind, binds, lock, replays, writer, tail, history, faults>>

Fault == faults < MaxFaults /\ faults' = faults + 1

Feeds  == Trays \cup {Unknown}
Names  == Reels \cup {NoReel}
Layers == 0 .. MaxReports
Entry  == [tray : Feeds, layer : Layers]
Fact   == [kind : {"tray_change", "held_assignment"}, tray : Feeds, layer : Layers,
           reel : Names \cup {AtWrite}, at : Layers]
HeldReport == [kind : {"report"}, tray : Trays, layer : Layers, at : Layers]
HeldChange == [kind : {"change"}, tray : Trays, layer : Layers, out : Names, new : Reels]
ReportsOf(held) == {i \in DOMAIN held : held[i].kind = "report"}

TypeOK ==
    /\ DOMAIN client = {"held", "reports", "lostFrom", "log", "last"}
    /\ client.held \in BOOLEAN
    /\ client.reports \in Seq(HeldReport \cup HeldChange)
    /\ Cardinality(ReportsOf(client.reports)) <= PendingLimit
    /\ client.lostFrom \in Layers \cup {None}
    /\ client.log \in Seq(Entry) /\ client.last \in Feeds \cup {None}
    /\ journal \in Seq([tray : Feeds, layer : Layers, reel : Names, at : Layers])
    /\ binding \in [Trays -> Names]
    /\ bind \in {None} \cup [tray : Trays, reel : Reels, locked : BOOLEAN, noted : BOOLEAN]
    /\ queue \in Seq([kind : {"live"}, at : Layers] \cup [kind : {"bind", "seed", "abandon", "complete"}])
    /\ pc \in Seq({"deliver", "await", "body", "apply", "release", "commit", "done"})
    /\ \A i \in DOMAIN replays : replays[i].facts \in Seq(Fact) /\ replays[i].failures \in 0 .. 1
    /\ seeder \in {"due", "queued", "gone"} /\ failures \in 0 .. SeedRetries + 1
    /\ {finished, writer, settled, astray} \subseteq BOOLEAN
    /\ joined \in 0 .. Len(seen) /\ binds \in 0 .. MaxBinds /\ faults \in 0 .. MaxFaults

(* __init__, and the first packet of a running print: nothing but the hold. *)
FreshClient == [held |-> TRUE, reports |-> <<>>, lostFrom |-> None, log |-> <<>>, last |-> None]

Init ==
    /\ client = FreshClient /\ finished = FALSE
    /\ \E t \in Trays : journal = <<[tray |-> t, layer |-> 0, reel |-> NoReel, at |-> 0]>>
    /\ binding = [t \in Trays |-> NoReel] /\ bind = None /\ binds = 0
    /\ queue = <<>> /\ pc = <<"body">> /\ snapshot = None
    /\ replays = <<>> /\ writer = FALSE
    /\ seeder = "due" /\ failures = 0 /\ settled = FALSE
    /\ seen = <<>> /\ joined = 0 /\ undone = {} /\ astray = FALSE /\ faults = 0

-----------------------------------------------------------------------------
(* The chronology of the client. *)

Change(tray, layer) == [tray |-> tray, layer |-> layer]

(* _apply_journal_tray: is this report a tray change? *)
IsChange(c, tray, running) ==
    /\ running
    /\ tray # c.last
    /\ c.log = <<>> \/ tray # Last(c.log).tray

Applied(c, tray, layer, running) ==
    [c EXCEPT !.last = tray,
              !.log = IF IsChange(c, tray, running) THEN Append(@, Change(tray, layer)) ELSE @]

(* Mutant: nothing limits what the hold keeps. *)
HoldEveryReport(c, tray, layer, at) ==
    LET reports == SelectSeq(c.reports, LAMBDA e : e.kind = "report")
    IN  IF reports # <<>> /\ Last(reports).tray = tray THEN [c EXCEPT !.last = tray]
        ELSE [c EXCEPT !.last = tray,
                       !.reports = Append(@, [kind |-> "report", tray |-> tray, layer |-> layer, at |-> at])]

(* _observe_journal_tray under the hold: repeats are not kept, and past the *)
(* limit the oldest report goes.                                            *)
HoldReport(c, tray, layer, at) ==
    LET held   == ReportsOf(c.reports)
        grown  == Append(c.reports, [kind |-> "report", tray |-> tray, layer |-> layer, at |-> at])
        oldest == CHOOSE i \in ReportsOf(grown) : \A j \in ReportsOf(grown) : i <= j
    IN  IF \E i \in held : c.reports[i].tray = tray /\ \A j \in held : j <= i
        THEN [c EXCEPT !.last = tray]
        ELSE IF Cardinality(held) < PendingLimit
        THEN [c EXCEPT !.last = tray, !.reports = grown]
        ELSE [c EXCEPT !.last = tray, !.reports = RemoveAt(grown, oldest),
                       !.lostFrom = IF @ = None THEN grown[oldest].layer ELSE @]

(* Mutant: the last change of the tray decides, wherever it came. *)
IdentityAtLast(held, i, bound) ==
    LET changes == {j \in DOMAIN held : held[j].kind = "change" /\ held[j].tray = held[i].tray}
    IN  IF changes # {} THEN held[CHOOSE j \in changes : \A k \in changes : k <= j].new
        ELSE IF bound = None THEN AtWrite ELSE bound[held[i].tray]

(* _identity_at: the reel in the tray of held report i. *)
IdentityAt(held, i, bound) ==
    LET changes == {j \in DOMAIN held : held[j].kind = "change" /\ held[j].tray = held[i].tray}
        after   == {j \in changes : i < j}
    IN  IF after # {} THEN held[CHOOSE j \in after : \A k \in after : j <= k].out
        ELSE IF changes # {} THEN held[CHOOSE j \in changes : \A k \in changes : k <= j].new
        ELSE IF bound = None THEN AtWrite ELSE bound[held[i].tray]

(* Mutant: what the hold lost is not stated. *)
LossForgotten(c, running) == [client |-> [c EXCEPT !.lostFrom = None], facts |-> <<>>]

(* Reports lost to the limit, or to a seed that never came, are an unknown *)
(* feed; stated first, and never before the chronology it follows.         *)
LossStated(c, running) ==
    LET from == IF c.log = <<>> \/ Last(c.log).layer <= c.lostFrom THEN c.lostFrom ELSE Last(c.log).layer
    IN  IF c.lostFrom = None \/ ~running
        THEN [client |-> [c EXCEPT !.lostFrom = None], facts |-> <<>>]
        ELSE [client |-> [c EXCEPT !.lostFrom = None, !.last = Unknown,
                                   !.log = Append(@, Change(Unknown, from))],
              facts |-> <<[kind |-> "tray_change", tray |-> Unknown, layer |-> from,
                           reel |-> NoReel, at |-> 0]>>]

(* One held entry replayed: a report that is a change becomes a fact, named  *)
(* by the reel it was observed with; an assignment is stated as it was.     *)
EntryReplayed(acc, held, i, bound, running) ==
    LET e == held[i] IN
    IF e.kind = "change"
    THEN IF running
         THEN [acc EXCEPT !.facts = Append(@, [kind |-> "held_assignment", tray |-> e.tray,
                                               layer |-> e.layer, reel |-> e.new, at |-> 0])]
         ELSE acc
    ELSE [client |-> Applied(acc.client, e.tray, e.layer, running),
          facts |-> IF IsChange(acc.client, e.tray, running)
                    THEN Append(acc.facts, [kind |-> "tray_change", tray |-> e.tray, layer |-> e.layer,
                                            reel |-> IdentityAt(held, i, bound), at |-> e.at])
                    ELSE acc.facts]

(* _replay_held: the chronology after the replay, and the facts of its batch. *)
Replayed(c, bound, running) ==
    LET upTo[i \in 0 .. Len(c.reports)] ==
            IF i = 0 THEN LossStated(c, running)
            ELSE EntryReplayed(upTo[i - 1], c.reports, i, bound, running)
    IN  upTo[Len(c.reports)]

(* The client with the replayed chronology: nothing is held, nothing lost. *)
Live(replay) ==
    [FreshClient EXCEPT !.held = FALSE, !.log = replay.client.log, !.last = replay.client.last]

(* The changes of a chronology before a layer. *)
Before(log, layer) ==
    LET kept[i \in 0 .. Len(log)] ==
            IF i = 0 THEN <<>>
            ELSE IF log[i].layer < layer THEN Append(kept[i - 1], log[i]) ELSE kept[i - 1]
    IN  kept[Len(log)]

(* state_feed_unknown_from *)
UnknownFrom(c, layer) ==
    [c EXCEPT !.log = Append(Before(@, layer), Change(Unknown, layer)), !.last = Unknown]

-----------------------------------------------------------------------------
(* The journal. *)

(* record_tray_change: no row for what the last one says already. *)
Recorded(rows, row) ==
    IF Last(rows).tray = row.tray /\ Last(rows).layer = row.layer THEN rows ELSE Append(rows, row)

(* A fact of a batch as a row.  A held assignment leaves none: no tray ran  *)
(* dry.                                                                    *)
FactWritten(rows, f) ==
    IF f.kind # "tray_change" THEN rows
    ELSE Recorded(rows, [tray |-> f.tray, layer |-> f.layer, at |-> f.at,
                         reel |-> IF f.reel = AtWrite THEN binding[f.tray] ELSE f.reel])

(* _write_replay_batch *)
BatchWritten(rows, facts) ==
    LET upTo[i \in 0 .. Len(facts)] == IF i = 0 THEN rows ELSE FactWritten(upTo[i - 1], facts[i])
    IN  upTo[Len(facts)]

(* A row of the journal as a change, merged with a neighbour of its tray. *)
RowRestored(log, entry) ==
    IF log # <<>> /\ Last(log).tray = entry.tray THEN log ELSE Append(log, Change(entry.tray, entry.layer))

(* restore_session: the journal's chronology. *)
RestoredLog ==
    LET upTo[i \in 0 .. Len(journal)] == IF i = 0 THEN <<>> ELSE RowRestored(upTo[i - 1], journal[i])
    IN  upTo[Len(journal)]

-----------------------------------------------------------------------------
(* The journal lock: a FIFO queue of tasks, the first one inside. *)

Enqueue(task) == queue' = Append(queue, task)
Holder(kind)  == queue # <<>> /\ queue[1].kind = kind
At(kind, step) == Holder(kind) /\ pc[1] = step
Goto(steps)   == pc' = steps /\ UNCHANGED queue
Advance       == Goto(Tail(pc))
Wait          == Goto([pc EXCEPT ![1] = "await"])
(* A holder that finds nothing to deliver is at its body at once. *)
Steps(waiting) == IF waiting THEN <<"deliver", "body">> ELSE <<"body">>
Release       == queue' = Tail(queue) /\ pc' = Steps(replays # <<>>) /\ snapshot' = None

Running == ~finished
Layer == IF seen = <<>> THEN 0 ELSE Last(seen).layer
Task(kind) == [kind |-> kind]

(* What a report observed under this binding may be named with: the reel   *)
(* bound, or the one of an assignment that is about to commit.             *)
ReelsNow(t) ==
    {binding[t]} \cup IF bind # None /\ bind.noted /\ bind.tray = t THEN {bind.reel} ELSE {}

(* The printer reports a tray; a change of the live chronology goes to      *)
(* on_tray_change, whose first step is the journal lock.                    *)
Report(t, l) ==
    LET at == Len(seen) + 1 IN
    /\ ~finished /\ Len(seen) < MaxReports
    /\ seen' = Append(seen, [tray |-> t, layer |-> l, reels |-> ReelsNow(t)])
    /\ IF client.held
       THEN client' = HoldReport(client, t, l, at) /\ UNCHANGED queue
       ELSE /\ client' = Applied(client, t, l, Running)
            /\ IF IsChange(client, t, Running) THEN Enqueue([kind |-> "live", at |-> at])
               ELSE UNCHANGED queue
    /\ UNCHANGED <<finished, journal, binding, bind, binds, pc, snapshot, replays, writer, tail, joined, undone, astray, faults>>

(* The printer reports the end; on_print_complete begins at the lock. *)
Finish ==
    /\ ~finished
    /\ finished' = TRUE
    /\ Enqueue(Task("complete"))
    /\ UNCHANGED <<client, journal, binding, bind, binds, pc, snapshot, replays, writer, tail, history, faults>>

(* Mutant: a writer a cancelled holder left behind is not waited for. *)
DeliverBesideWriter ==
    /\ queue # <<>> /\ pc[1] = "deliver"
    /\ IF replays = <<>> \/ writer THEN Advance /\ UNCHANGED writer
       ELSE writer' = TRUE /\ Wait
    /\ UNCHANGED <<client, finished, journal, binding, bind, binds, snapshot, replays, tail, history, faults>>

(* deliver_pending_replay: wait for the writer another holder left behind, *)
(* then start one for what waits.                                          *)
Deliver ==
    /\ queue # <<>> /\ pc[1] = "deliver" /\ ~writer
    /\ IF replays = <<>> THEN Advance /\ UNCHANGED writer
       ELSE writer' = TRUE /\ Wait
    /\ UNCHANGED <<client, finished, journal, binding, bind, binds, snapshot, replays, tail, history, faults>>

-----------------------------------------------------------------------------
(* _write_pending_replays: one transaction per batch. *)

(* The writer ends; a holder that waits for it goes on. *)
WriterEnds == writer' = FALSE /\ pc' = IF pc[1] = "await" THEN Tail(pc) ELSE pc

BatchDone ==
    /\ replays' = Tail(replays)
    /\ IF Len(replays) > 1 THEN UNCHANGED <<writer, pc>> ELSE WriterEnds

WriterCommits ==
    /\ writer
    /\ journal' = BatchWritten(journal, replays[1].facts)
    /\ BatchDone
    /\ UNCHANGED <<client, finished, binding, bind, binds, queue, snapshot, tail, history, faults>>

(* The first failure leaves the batch to the next holder. *)
WriterFails ==
    /\ writer /\ Fault
    /\ replays[1].failures = 0
    /\ replays' = [replays EXCEPT ![1].failures = 1]
    /\ WriterEnds
    /\ UNCHANGED <<client, finished, journal, binding, bind, binds, queue, snapshot, tail, history>>

(* The second one, _state_unrecorded: the client is told, then the journal, *)
(* whose marker may fail too.                                               *)
WriterGivesUp ==
    LET layers == {replays[1].facts[i].layer : i \in DOMAIN replays[1].facts}
        layer  == CHOOSE l \in layers : \A m \in layers : l <= m
        marked == Recorded(journal, [tray |-> Unknown, layer |-> layer, reel |-> NoReel, at |-> 0])
    IN  /\ writer /\ Fault
        /\ replays[1].failures = 1
        /\ client' = UnknownFrom(client, layer)
        /\ journal' \in {journal, marked}
        /\ BatchDone
        /\ UNCHANGED <<finished, binding, bind, binds, queue, snapshot, tail, history>>

-----------------------------------------------------------------------------
(* Holders of the lock. *)

(* on_tray_change: the row names the reel bound now; an error loses it. *)
LiveBody ==
    LET o == seen[queue[1].at] IN
    /\ At("live", "body")
    /\ \/ /\ journal' = Recorded(journal, [tray |-> o.tray, layer |-> o.layer,
                                           reel |-> binding[o.tray], at |-> queue[1].at])
          /\ UNCHANGED faults
       \/ Fault /\ UNCHANGED journal
    /\ Release
    /\ UNCHANGED <<client, finished, binding, bind, binds, replays, writer, tail, history>>

(* An assignment, by a person (under the journal lock) or the RFID reader   *)
(* (without it).  The AMS lock lets one at a time in.                       *)
BeginBind(t, r, locked) ==
    /\ bind = None /\ binds < MaxBinds
    /\ \A u \in Trays : binding[u] # r
    /\ binds' = binds + 1
    /\ bind' = [tray |-> t, reel |-> r, locked |-> locked, noted |-> FALSE]
    /\ IF locked THEN Enqueue(Task("bind")) ELSE UNCHANGED queue
    /\ UNCHANGED <<client, finished, journal, binding, pc, snapshot, replays, writer, tail, history, faults>>

(* Mutant: the change is not recorded among the held reports. *)
NoteNothing ==
    /\ bind # None /\ ~bind.noted
    /\ IF bind.locked THEN At("bind", "body") /\ Goto(<<"commit">>) ELSE UNCHANGED <<queue, pc>>
    /\ bind' = [bind EXCEPT !.noted = TRUE]
    /\ UNCHANGED <<client, finished, journal, binding, binds, snapshot, replays, writer, tail, history, faults>>

(* ensure_tail_recorded, before the binding is rewritten: under the hold the *)
(* client records the reel going out and the one coming in.                 *)
NoteBind ==
    /\ bind # None /\ ~bind.noted
    /\ IF bind.locked THEN At("bind", "body") /\ Goto(<<"commit">>) ELSE UNCHANGED <<queue, pc>>
    /\ bind' = [bind EXCEPT !.noted = TRUE]
    /\ client' = IF client.held
                 THEN [client EXCEPT !.reports =
                         Append(@, [kind |-> "change", tray |-> bind.tray,
                                    layer |-> Layer,
                                    out |-> binding[bind.tray], new |-> bind.reel])]
                 ELSE client
    /\ UNCHANGED <<finished, journal, binding, binds, snapshot, replays, writer, tail, history, faults>>

LeaveBind == IF bind.locked THEN At("bind", "commit") /\ Release ELSE UNCHANGED lock

CommitBind ==
    /\ bind # None /\ bind.noted
    /\ binding' = [binding EXCEPT ![bind.tray] = bind.reel]
    /\ bind' = None
    /\ LeaveBind
    /\ UNCHANGED <<client, finished, journal, binds, replays, writer, tail, history, faults>>

(* The commit fails: the note of the client stays. *)
RollBackBind ==
    /\ bind # None /\ bind.noted /\ Fault
    /\ undone' = undone \cup {bind.reel}
    /\ bind' = None
    /\ LeaveBind
    /\ UNCHANGED <<client, finished, journal, binding, binds, replays, writer, tail, seen, joined, astray>>

-----------------------------------------------------------------------------
(* The seed: on_print_running_observed, its retries, the end of the hold. *)

(* The first attempt, a retry while the hold lasts, or the last resort when *)
(* all have failed.                                                        *)
StartSeed ==
    /\ seeder = "due"
    /\ IF client.held \/ failures \notin 1 .. SeedRetries
       THEN /\ Enqueue(Task(IF failures > SeedRetries THEN "abandon" ELSE "seed"))
            /\ seeder' = "queued"
       ELSE seeder' = "gone" /\ UNCHANGED queue
    /\ UNCHANGED <<client, finished, journal, binding, bind, binds, pc, snapshot, replays, writer,
                   failures, settled, history, faults>>

(* restore_session swallows an error of its journal read: the chronology is *)
(* then the tray the printer names now, if it names one.                    *)
SeedBody ==
    /\ At("seed", "body")
    /\ \/ /\ snapshot' = [log |-> RestoredLog, bound |-> binding]
          /\ UNCHANGED <<astray, faults>>
       \/ /\ Fault
          /\ snapshot' = [log |-> IF client.last = None THEN <<>> ELSE <<Change(client.last, Layer)>>,
                           bound |-> binding]
          /\ astray' = TRUE
    /\ Goto(<<"apply", "done">>)
    /\ UNCHANGED <<client, finished, journal, binding, bind, binds, replays, writer, tail, seen, joined, undone>>

(* Any database call of the seed raises. *)
SeedFails ==
    /\ Holder("seed") /\ pc[1] \in {"body", "apply"} /\ Fault
    /\ failures' = failures + 1
    /\ seeder' = "due"
    /\ Release
    /\ UNCHANGED <<client, finished, journal, binding, bind, binds, replays, writer, settled, history>>

(* queue_replay and deliver_pending_replay: the holder starts the writer of *)
(* what waits without giving the loop away.                                 *)
QueueAndDeliver(facts) ==
    /\ replays' = IF facts = <<>> THEN replays ELSE Append(replays, [facts |-> facts, failures |-> 0])
    /\ writer' = (replays' # <<>>)
    /\ IF writer' THEN Wait ELSE Advance

(* seed_usage_journal; refused when the hold has ended. *)
SeedApply ==
    LET restored == [client EXCEPT !.log = snapshot.log,
                                   !.last = IF snapshot.log = <<>> THEN @ ELSE Last(snapshot.log).tray]
        replay   == Replayed(restored, snapshot.bound, Running)
    IN  /\ At("seed", "apply")
        /\ IF client.held
           THEN /\ client' = Live(replay)
                /\ astray' = (astray \/ finished)
                /\ QueueAndDeliver(replay.facts)
           ELSE Advance /\ UNCHANGED <<client, replays, writer, astray>>
        /\ UNCHANGED <<finished, journal, binding, bind, binds, snapshot, tail, seen, joined, undone, faults>>

(* _abandon_held_journal_locked: its snapshot may fail. *)
AbandonBody ==
    /\ At("abandon", "body")
    /\ \/ snapshot' = [log |-> <<>>, bound |-> binding] /\ UNCHANGED faults
       \/ Fault /\ snapshot' = [log |-> <<>>, bound |-> None]
    /\ Goto(<<"release", "done">>)
    /\ UNCHANGED <<client, finished, journal, binding, bind, binds, replays, writer, tail, history>>

(* abandon_journal_hold: unknown from the start, then what was held, even  *)
(* when the print has ended meanwhile.                                     *)
ReleaseHold ==
    LET forgotten == [client EXCEPT !.log = <<>>, !.lostFrom = 0]
        replay    == Replayed(forgotten, snapshot.bound, TRUE)
    IN  /\ queue # <<>> /\ pc[1] = "release"
        /\ IF client.held
           THEN client' = Live(replay) /\ QueueAndDeliver(replay.facts)
           ELSE Advance /\ UNCHANGED <<client, replays, writer>>
        /\ UNCHANGED <<finished, journal, binding, bind, binds, snapshot, tail, history, faults>>

(* Mutant: the completion does not settle what waits. *)
CompleteUnsettled ==
    /\ At("complete", "body")
    /\ IF client.held
       THEN snapshot' = [log |-> <<>>, bound |-> binding] /\ Goto(<<"release", "done">>)
       ELSE Goto(<<"done">>) /\ UNCHANGED snapshot
    /\ UNCHANGED <<client, finished, journal, binding, bind, binds, replays, writer, tail, history, faults>>

(* _release_unseeded_journal: end the hold, then settle_pending_replay. *)
CompleteBody ==
    /\ At("complete", "body")
    /\ IF client.held
       THEN /\ \/ snapshot' = [log |-> <<>>, bound |-> binding] /\ UNCHANGED faults
               \/ Fault /\ snapshot' = [log |-> <<>>, bound |-> None]
            /\ Goto(<<"release", "deliver", "done">>)
       ELSE Goto(<<"deliver", "done">>) /\ UNCHANGED <<snapshot, faults>>
    /\ UNCHANGED <<client, finished, journal, binding, bind, binds, replays, writer, tail, history>>

Leave ==
    /\ queue # <<>> /\ pc[1] = "done"
    /\ Release
    /\ settled' = (settled \/ Holder("complete"))
    /\ seeder' = IF Holder("complete") THEN seeder ELSE "gone"
    /\ UNCHANGED <<client, finished, journal, binding, bind, binds, replays, writer, failures, history, faults>>

(* The seed or the request is cancelled while it holds the lock. *)
Cancel ==
    /\ Fault
    /\ \/ Holder("seed") /\ seeder' = "gone" /\ UNCHANGED <<bind, undone>>
       \/ /\ Holder("bind") /\ UNCHANGED seeder
          /\ undone' = IF bind.noted THEN undone \cup {bind.reel} ELSE undone
          /\ bind' = None
    /\ Release
    /\ UNCHANGED <<client, finished, journal, binding, binds, replays, writer, failures, settled,
                   seen, joined, astray>>

(* The server dies and joins the print again: the journal and the bindings *)
(* are what it left.                                                       *)
Crash ==
    /\ ~finished /\ Fault
    /\ client' = FreshClient /\ bind' = None
    /\ queue' = <<>> /\ pc' = <<"body">> /\ snapshot' = None
    /\ replays' = <<>> /\ writer' = FALSE
    /\ seeder' = "due" /\ failures' = 0
    /\ joined' = Len(seen)
    /\ UNCHANGED <<finished, journal, binding, binds, settled, seen, undone, astray>>

-----------------------------------------------------------------------------

Next == ~settled /\
    \/ \E t \in Trays, l \in {Layer, Layer + 1} : Report(t, l)
    \/ Finish
    \/ Deliver \/ WriterCommits \/ WriterFails \/ WriterGivesUp
    \/ LiveBody
    \/ \E t \in Trays, r \in Reels, locked \in BOOLEAN : BeginBind(t, r, locked)
    \/ NoteBind \/ CommitBind \/ RollBackBind
    \/ StartSeed \/ SeedBody \/ SeedFails \/ SeedApply \/ AbandonBody \/ ReleaseHold \/ CompleteBody
    \/ Leave \/ Cancel \/ Crash

Spec == Init /\ [][Next]_vars

-----------------------------------------------------------------------------
(* The chronology the completion charges by. *)

InsertByLayer(entries, e) ==
    SelectSeq(entries, LAMBDA x : x.layer <= e.layer) \o <<e>> \o SelectSeq(entries, LAMBDA x : x.layer > e.layer)

(* chronology_with_journal: each unknown feed of the journal cuts off what a *)
(* memory that does not hold it says about the stretch after it.            *)
ChronologyWithJournal ==
    LET events == Tail(journal)        \* the first row is the start
        memory == ToSet(client.log)
        Reconciled(chronology, m) ==
            LET unknown    == Change(Unknown, events[m].layer)
                places     == {i \in DOMAIN chronology : chronology[i] = unknown}
                place      == CHOOSE i \in places : \A j \in places : j <= i
                before     == IF unknown \in memory THEN SubSeq(chronology, 1, place - 1)
                              ELSE SelectSeq(chronology, LAMBDA e : e.layer < unknown.layer)
                remembered == IF unknown \in memory THEN SubSeq(chronology, place + 1, Len(chronology)) ELSE <<>>
                recorded   == [i \in 1 .. Len(events) - m |-> Change(events[m + i].tray, events[m + i].layer)]
                after      == FoldLeft(LAMBDA acc, e : IF e \in ToSet(acc) THEN acc ELSE Append(acc, e),
                                       remembered, recorded)
            IN  IF events[m].tray # Unknown THEN chronology
                ELSE before \o <<unknown>> \o FoldLeft(InsertByLayer, <<>>, after)
    IN  FoldLeft(Reconciled, client.log, [m \in DOMAIN events |-> m])

(* normalize_tray_changes, read as: the tray that fed layer l. *)
ChargedAt(chronology, l) ==
    LET kept == {i \in DOMAIN chronology :
                    i < Len(chronology) => chronology[i + 1].layer > chronology[i].layer}
        upTo == {i \in kept : chronology[i].layer <= l}
    IN  IF upTo = {} THEN None ELSE chronology[CHOOSE i \in upTo : \A j \in upTo : j <= i].tray

-----------------------------------------------------------------------------
(* Properties. *)

(* The changes reach the journal in the order the printer reported them,    *)
(* whoever writes them: the held ones in the seed's batch, the live ones    *)
(* through their callbacks, with retries of a failed write in between       *)
(* (journal_lock: no holder writes anything before a pending replay).       *)
JournalInOrder ==
    \A i, j \in DOMAIN journal :
        i < j /\ journal[i].at # 0 /\ journal[j].at # 0 => journal[i].at < journal[j].at

(* A replayed change names a reel that was in the tray when the printer     *)
(* reported it, and not one bound before the seed came (_identity_at).      *)
(* After a rolled back assignment it may name the reel of that one.         *)
ReplayNamesItsReel ==
    \A i \in DOMAIN replays : \A k \in DOMAIN replays[i].facts :
        LET f == replays[i].facts[k] IN
        f.at # 0 /\ f.reel # AtWrite => f.reel \in seen[f.at].reels \cup undone

(* The trays that may be said to have fed layer l: those reported on the    *)
(* layer of the last change up to l.                                       *)
FedOn(l) ==
    LET upTo    == {i \in DOMAIN seen : seen[i].layer <= l}
        changes == {i \in upTo : i = 1 \/ seen[i].tray # seen[i - 1].tray}
        last    == CHOOSE i \in changes : \A j \in changes : j <= i
    IN  {seen[k].tray : k \in {k \in upTo : seen[k].layer = seen[last].layer}}

(* When the completion reads the chronology, each layer since this process  *)
(* joined the print is charged to a tray that fed it or to the unknown      *)
(* feed, never to a tray by default - whichever of the seed, its retries,   *)
(* the overflow, the failed writes and the end of the print came first.     *)
ChronologyTrue ==
    settled /\ ~astray /\ joined < Len(seen) =>
        \A l \in seen[joined + 1].layer .. Layer :
            ChargedAt(ChronologyWithJournal, l) \in FedOn(l) \cup {Unknown}

(* The completion reads only when nothing of the print waits any more: no   *)
(* hold, no batch to be written and no writer at work                       *)
(* (settle_pending_replay: "nothing of the print is left waiting").         *)
NothingLeftWaiting == settled => ~client.held /\ replays = <<>> /\ ~writer
=============================================================================
