------------------------- MODULE UsageJournalProofs -------------------------
(***************************************************************************)
(* What UsageJournal says of a print, for any trays, reels, reports,        *)
(* assignments and faults:                                                 *)
(*   Settled            the completion reads when nothing waits any more,   *)
(*   UsageJournalTyped  the type invariant,                                *)
(*   JournalKeepsOrder  the changes are journaled in the order reported,    *)
(*   ReplaysAreNamed    a replayed change names a reel of its moment.       *)
(*                                                                         *)
(* The inductive invariant UInv is built in layers, each used by the next:  *)
(* JInv (the lock, the hold and the batches), DueOK (a holder's program),   *)
(* Data (what the variables hold), Second and Order (what is on its way to  *)
(* the journal), HeldNames and BatchNames (the reels a report may be named  *)
(* with).  The replay, the batch and the restored chronology are recursive  *)
(* functions: Recursion gives them a value at every step, Along carries a   *)
(* property from step to step.                                             *)
(***************************************************************************)
EXTENDS UsageJournal, SequenceTheorems, FiniteSetTheorems, WellFoundedInduction, TLAPS

Tasks == [kind : {"live"}, at : Nat] \cup [kind : {"bind", "seed", "abandon", "complete"}]

(* What a holder of the lock may still have to do. *)
Entering == {<<"deliver", "body">>, <<"body">>}
Completing == Entering \cup
    {<<"await", "body">>, <<"release", "deliver", "done">>, <<"await", "deliver", "done">>,
     <<"deliver", "done">>, <<"await", "done">>, <<"done">>}
Programs == Completing \cup {<<"apply", "done">>, <<"release", "done">>, <<"commit">>}

Types ==
    /\ binding \in [Trays -> Names]
    /\ bind \in {None} \cup [tray : Trays, reel : Reels, locked : BOOLEAN, noted : BOOLEAN]
    /\ seen \in Seq([tray : Trays, layer : Nat, reels : SUBSET Names])
    /\ DOMAIN client = DOMAIN FreshClient /\ client.held \in BOOLEAN
    /\ writer \in BOOLEAN /\ settled \in BOOLEAN

(* At most one batch waits, and none while the client still holds. *)
Batches ==
    /\ \/ replays = <<>>
       \/ /\ replays = <<replays[1]>>
          /\ DOMAIN replays[1] = {"facts", "failures"}
          /\ replays[1].failures \in {0, 1}
    /\ client.held => replays = <<>>
    /\ writer => replays # <<>>
    /\ pc[1] = "await" => writer

(* Who holds the lock, and what that holder may be doing. *)
Holding ==
    /\ queue \in Seq(Tasks)
    /\ pc \in Programs
    /\ queue = <<>> => pc \in Entering
    /\ Holder("complete") => pc \in Completing

(* A batch that waits has failed before. *)
Tried == replays = <<>> \/ replays[1].failures = 1

(* What each step of the holder may rely on. *)
Promised ==
    /\ pc = <<"body">> => Tried
    /\ pc = <<"release", "deliver", "done">> => client.held
    /\ pc = <<"await", "deliver", "done">> => ~client.held
    /\ pc = <<"deliver", "done">> => ~client.held /\ Tried
    /\ Holder("complete") /\ pc = <<"await", "done">> => ~client.held /\ Tried
    /\ Holder("complete") /\ pc = <<"done">> => ~client.held /\ replays = <<>> /\ ~writer

JInv == Types /\ Batches /\ Holding /\ Promised /\ NothingLeftWaiting
-----------------------------------------------------------------------------
(* Types. *)

(* Whatever a report, a hold or a marker does to the client, it stays a      *)
(* record of the same fields and holds as before.                           *)
LEMMA ClientKept ==
    ASSUME NEW c, DOMAIN c = DOMAIN FreshClient, NEW t, NEW l, NEW at, NEW running
    PROVE  /\ DOMAIN HoldReport(c, t, l, at) = DOMAIN c /\ HoldReport(c, t, l, at).held = c.held
           /\ DOMAIN Applied(c, t, l, running) = DOMAIN c /\ Applied(c, t, l, running).held = c.held
           /\ DOMAIN UnknownFrom(c, l) = DOMAIN c /\ UnknownFrom(c, l).held = c.held
<1>1. DOMAIN HoldReport(c, t, l, at) = DOMAIN c /\ HoldReport(c, t, l, at).held = c.held
  BY DEF HoldReport, FreshClient
<1>2. DOMAIN Applied(c, t, l, running) = DOMAIN c /\ Applied(c, t, l, running).held = c.held
  BY DEF Applied, FreshClient
<1>3. DOMAIN UnknownFrom(c, l) = DOMAIN c /\ UnknownFrom(c, l).held = c.held
  BY DEF UnknownFrom, FreshClient
<1> QED BY <1>1, <1>2, <1>3

(* A replay ends the hold. *)
LEMMA LiveHoldsNothing ==
    ASSUME NEW replay
    PROVE  DOMAIN Live(replay) = DOMAIN FreshClient /\ Live(replay).held = FALSE
BY DEF Live, FreshClient

(* The layer of the last report. *)
LEMMA LayerIsNat == Types => Layer \in Nat
<1> SUFFICES ASSUME Types PROVE Layer \in Nat
  OBVIOUS
<1>1. CASE seen = <<>> BY <1>1 DEF Layer
<1>2. CASE seen # <<>>
  <2> DEFINE Reports == [tray : Trays, layer : Nat, reels : SUBSET Names]
  <2>1. seen \in Seq(Reports) BY DEF Types
  <2> HIDE DEF Reports
  <2>2. Len(seen) \in Nat /\ Len(seen) # 0 BY <1>2, <2>1
  <2>3. seen[Len(seen)] \in Reports BY <2>1, <2>2
  <2> QED BY <1>2, <2>3 DEF Layer, Last, Reports
<1> QED BY <1>1, <1>2

(* A report may name what is bound, or about to be. *)
LEMMA ReelsAreNames == ASSUME Types, NEW t \in Trays PROVE ReelsNow(t) \in SUBSET Names
<1>1. binding[t] \in Names BY DEF Types
<1>2. bind # None => bind.reel \in Names BY DEF Types, Names
<1> QED BY <1>1, <1>2 DEF ReelsNow

(* A report neither begins nor ends the hold. *)
LEMMA ReportKeepsHold ==
    ASSUME Types, NEW t, NEW l, Report(t, l)
    PROVE  DOMAIN client' = DOMAIN FreshClient /\ client'.held = client.held
<1>1. DOMAIN client = DOMAIN FreshClient /\ client.held \in BOOLEAN
  BY DEF Types
<1>2. CASE client.held
  <2>1. client' = HoldReport(client, t, l, Len(seen) + 1) BY <1>2 DEF Report
  <2> QED BY <1>1, <2>1, ClientKept
<1>3. CASE ~client.held
  <2>1. client' = Applied(client, t, l, Running) BY <1>3 DEF Report
  <2> QED BY <1>1, <2>1, ClientKept
<1> QED BY <1>1, <1>2, <1>3

(* Types are kept by every step. *)
LEMMA TypesStep == Types /\ Next => Types'
<1> SUFFICES ASSUME Types, Next PROVE Types'
  OBVIOUS
<1> USE DEF Types
<1>1. ASSUME NEW t \in Trays, NEW l \in {Layer, Layer + 1}, Report(t, l) PROVE Types'
  <2>1. [tray |-> t, layer |-> l, reels |-> ReelsNow(t)] \in [tray : Trays, layer : Nat, reels : SUBSET Names]
    BY LayerIsNat, ReelsAreNames
  <2>2. seen' \in Seq([tray : Trays, layer : Nat, reels : SUBSET Names])
    BY <1>1, <2>1 DEF Report
  <2>3. DOMAIN client' = DOMAIN FreshClient /\ client'.held \in BOOLEAN
    BY <1>1, ReportKeepsHold
  <2>4. UNCHANGED <<binding, bind, writer, settled>>
    BY <1>1 DEF Report, tail
  <2> QED BY <2>2, <2>3, <2>4
<1>2. CASE Finish BY <1>2 DEF Finish, tail, history
<1>3. CASE Deliver BY <1>3 DEF Deliver, tail, history
<1>4. CASE WriterCommits BY <1>4 DEF WriterCommits, BatchDone, WriterEnds, tail, history
<1>5. CASE WriterFails BY <1>5 DEF WriterFails, WriterEnds, tail, history
<1>6. CASE WriterGivesUp BY <1>6, ClientKept DEF WriterGivesUp, BatchDone, WriterEnds, tail, history
<1>7. CASE LiveBody BY <1>7 DEF LiveBody, tail, history
<1>8. ASSUME NEW t \in Trays, NEW r \in Reels, NEW locked \in BOOLEAN, BeginBind(t, r, locked) PROVE Types'
  BY <1>8 DEF BeginBind, tail, history
<1>9. CASE NoteBind BY <1>9 DEF NoteBind, tail, history, FreshClient
<1>10. CASE CommitBind BY <1>10 DEF CommitBind, tail, history, Names
<1>11. CASE RollBackBind BY <1>11 DEF RollBackBind, tail
<1>12. CASE StartSeed BY <1>12 DEF StartSeed, history
<1>13. CASE SeedBody BY <1>13 DEF SeedBody, tail
<1>14. CASE SeedFails BY <1>14 DEF SeedFails, history
<1>15. CASE SeedApply BY <1>15, LiveHoldsNothing DEF SeedApply, QueueAndDeliver, tail
<1>16. CASE AbandonBody BY <1>16 DEF AbandonBody, tail, history
<1>17. CASE ReleaseHold BY <1>17, LiveHoldsNothing DEF ReleaseHold, QueueAndDeliver, tail, history
<1>18. CASE CompleteBody BY <1>18 DEF CompleteBody, tail, history
<1>19. CASE Leave BY <1>19 DEF Leave, history
<1>20. CASE Cancel BY <1>20 DEF Cancel
<1>21. CASE Crash BY <1>21 DEF Crash, FreshClient
<1> QED
  BY <1>1, <1>2, <1>3, <1>4, <1>5, <1>6, <1>7, <1>8, <1>9, <1>10, <1>11, <1>12, <1>13, <1>14,
     <1>15, <1>16, <1>17, <1>18, <1>19, <1>20, <1>21 DEF Next

-----------------------------------------------------------------------------
(* What a step can do to the lock and to what waits. *)

(* The step is none of the holder's; a task may come to the lock. *)
Quiet ==
    /\ client'.held = client.held
    /\ UNCHANGED <<replays, writer, pc, settled>>
    /\ UNCHANGED queue \/ \E task \in Tasks : queue' = Append(queue, task)

(* The holder leaves; a completion leaves at its end. *)
Left ==
    /\ queue # <<>> /\ queue' = Tail(queue) /\ pc' = Steps(replays # <<>>)
    /\ client'.held = client.held /\ UNCHANGED <<replays, writer>>
    /\ UNCHANGED settled \/ (Holder("complete") /\ pc[1] = "done")

(* A task that comes does not change who holds the lock. *)
LEMMA Arrival ==
    ASSUME queue \in Seq(Tasks), NEW task \in Tasks, queue' = Append(queue, task)
    PROVE  /\ queue' \in Seq(Tasks) /\ queue' # <<>>
           /\ queue # <<>> => queue'[1] = queue[1]
<1>1. queue' \in Seq(Tasks) /\ queue' # <<>> /\ \A i \in 1 .. Len(queue) : queue'[i] = queue[i]
  BY AppendProperties
<1>2. queue # <<>> => 1 \in 1 .. Len(queue)
  BY EmptySeq, LenProperties
<1> QED BY <1>1, <1>2

(* Steps that leave the lock, the hold and the batches alone keep all. *)
LEMMA QuietKeeps == JInv /\ ~settled /\ Quiet => (Batches /\ Holding /\ Promised /\ NothingLeftWaiting)'
<1> SUFFICES ASSUME JInv, ~settled, Quiet PROVE (Batches /\ Holding /\ Promised /\ NothingLeftWaiting)'
  OBVIOUS
<1> USE DEF JInv, Quiet
<1>1. Batches' BY DEF Batches
<1>2. queue' \in Seq(Tasks) /\ (queue' = <<>> => queue = <<>>)
      /\ (queue # <<>> => queue'[1] = queue[1])
  BY Arrival DEF Holding
<1>3. Holder("complete")' => Holder("complete") \/ pc \in Entering
  BY <1>2 DEF Holder, Holding
<1>4. Holding' BY <1>2, <1>3 DEF Holding, Completing
<1>5. Promised' BY <1>3 DEF Promised, Entering, Tried
<1>6. NothingLeftWaiting' BY DEF NothingLeftWaiting
<1> QED BY <1>1, <1>4, <1>5, <1>6

(* So do steps that leave the lock. *)
LEMMA LeftKeeps == JInv /\ ~settled /\ Left => (Batches /\ Holding /\ Promised /\ NothingLeftWaiting)'
<1> SUFFICES ASSUME JInv, ~settled, Left PROVE (Batches /\ Holding /\ Promised /\ NothingLeftWaiting)'
  OBVIOUS
<1> USE DEF JInv, Left
<1>1. pc' \in Entering /\ pc'[1] # "await" /\ (pc' = <<"body">> => replays = <<>>)
  BY DEF Steps, Entering
<1>2. Batches' BY <1>1 DEF Batches
<1>3. queue' \in Seq(Tasks) BY HeadTailProperties DEF Holding
<1>4. Holding' BY <1>1, <1>3 DEF Holding, Completing, Programs
<1>5. Promised' BY <1>1 DEF Promised, Entering, Tried
<1>6. pc[1] = "done" => pc = <<"done">>
  BY DEF Holding, Programs, Completing, Entering
<1>7. NothingLeftWaiting' BY <1>6 DEF NothingLeftWaiting, Promised, Types
<1> QED BY <1>2, <1>4, <1>5, <1>7

-----------------------------------------------------------------------------
(* Every step. *)

Kept == Batches /\ Holding /\ Promised /\ NothingLeftWaiting

(* What follows the first step of a program, and a wait in its place. *)
LEMMA Programme ==
    /\ Tail(<<"deliver", "body">>) = <<"body">> /\ Tail(<<"await", "body">>) = <<"body">>
    /\ Tail(<<"release", "deliver", "done">>) = <<"deliver", "done">>
    /\ Tail(<<"await", "deliver", "done">>) = <<"deliver", "done">>
    /\ Tail(<<"deliver", "done">>) = <<"done">> /\ Tail(<<"await", "done">>) = <<"done">>
    /\ Tail(<<"apply", "done">>) = <<"done">> /\ Tail(<<"release", "done">>) = <<"done">>
    /\ [<<"deliver", "body">> EXCEPT ![1] = "await"] = <<"await", "body">>
    /\ [<<"release", "deliver", "done">> EXCEPT ![1] = "await"] = <<"await", "deliver", "done">>
    /\ [<<"deliver", "done">> EXCEPT ![1] = "await"] = <<"await", "done">>
    /\ [<<"apply", "done">> EXCEPT ![1] = "await"] = <<"await", "done">>
    /\ [<<"release", "done">> EXCEPT ![1] = "await"] = <<"await", "done">>
OBVIOUS

(* The steps of others. *)
LEMMA QuietSteps ==
    ASSUME JInv, ~settled,
           \/ \E t \in Trays, l \in {Layer, Layer + 1} : Report(t, l)
           \/ Finish
           \/ \E t \in Trays, r \in Reels, locked \in BOOLEAN : BeginBind(t, r, locked)
           \/ bind # None /\ ~bind.locked /\ (NoteBind \/ CommitBind \/ RollBackBind)
           \/ StartSeed
    PROVE  Kept'
<1> SUFFICES Quiet
  BY QuietKeeps DEF Kept
<1> USE DEF JInv
<1>1. ASSUME NEW t \in Trays, NEW l \in {Layer, Layer + 1}, Report(t, l) PROVE Quiet
  <2>1. client'.held = client.held
    BY <1>1, ReportKeepsHold
  <2>2. [kind |-> "live", at |-> Len(seen) + 1] \in Tasks
    BY LenProperties DEF Types, Tasks
  <2> QED BY <1>1, <2>1, <2>2 DEF Report, Quiet, Enqueue, tail
<1>2. CASE Finish
  BY <1>2 DEF Finish, Quiet, Enqueue, Task, Tasks, tail
<1>3. ASSUME NEW t \in Trays, NEW r \in Reels, NEW locked \in BOOLEAN, BeginBind(t, r, locked) PROVE Quiet
  BY <1>3 DEF BeginBind, Quiet, Enqueue, Task, Tasks, tail
<1>4. CASE bind # None /\ ~bind.locked /\ (NoteBind \/ CommitBind \/ RollBackBind)
  BY <1>4 DEF NoteBind, CommitBind, RollBackBind, LeaveBind, Quiet, lock, tail, Types, FreshClient
<1>5. CASE StartSeed
  BY <1>5 DEF StartSeed, Quiet, Enqueue, Task, Tasks
<1> QED BY <1>1, <1>2, <1>3, <1>4, <1>5

(* The holder leaves, at its end, with an error or cancelled. *)
LEMMA LeavingSteps ==
    ASSUME JInv, ~settled,
           \/ LiveBody \/ SeedFails \/ Leave \/ Cancel
           \/ bind # None /\ bind.locked /\ (CommitBind \/ RollBackBind)
    PROVE  Kept'
<1> SUFFICES Left
  BY LeftKeeps DEF Kept
<1> USE DEF JInv
<1>1. CASE LiveBody BY <1>1 DEF LiveBody, At, Holder, Release, Left, tail
<1>2. CASE SeedFails BY <1>2 DEF SeedFails, Holder, Release, Left
<1>3. CASE Leave BY <1>3 DEF Leave, Holder, Release, Left, Types
<1>4. CASE Cancel BY <1>4 DEF Cancel, Holder, Release, Left
<1>5. CASE bind # None /\ bind.locked /\ (CommitBind \/ RollBackBind)
  BY <1>5 DEF CommitBind, RollBackBind, LeaveBind, At, Holder, Release, Left, tail
<1> QED BY <1>1, <1>2, <1>3, <1>4, <1>5

(* A holder whose program goes on is still the holder. *)
LEMMA SameHolder ==
    ASSUME UNCHANGED queue, NEW kind
    PROVE  Holder(kind)' = Holder(kind)
BY DEF Holder

(* A holder that delivers waits for a writer, or goes on when nothing waits. *)
LEMMA DeliverStep == ASSUME JInv, ~settled, Deliver PROVE Kept'
<1> USE DEF JInv
<1>1. queue # <<>> /\ ~writer /\ pc[1] = "deliver" /\ UNCHANGED <<client, queue, replays, settled>>
  BY DEF Deliver, Advance, Wait, Goto, tail
<1>2. pc \in {<<"deliver", "body">>, <<"deliver", "done">>}
  BY <1>1 DEF Holding, Programs, Completing, Entering
<1>3. \/ replays = <<>> /\ pc' = Tail(pc) /\ writer' = writer
      \/ replays # <<>> /\ pc' = [pc EXCEPT ![1] = "await"] /\ writer' = TRUE
  BY DEF Deliver, Advance, Wait, Goto
<1>4. \/ replays = <<>> /\ ~writer' /\ pc = <<"deliver", "body">> /\ pc' = <<"body">>
      \/ replays = <<>> /\ ~writer' /\ pc = <<"deliver", "done">> /\ pc' = <<"done">>
      \/ replays # <<>> /\ writer' /\ pc = <<"deliver", "body">> /\ pc' = <<"await", "body">>
      \/ replays # <<>> /\ writer' /\ pc = <<"deliver", "done">> /\ pc' = <<"await", "done">>
  BY <1>1, <1>2, <1>3, Programme
<1>5. Holder("complete")' = Holder("complete") BY <1>1, SameHolder
<1>6. Batches' BY <1>1, <1>4 DEF Batches
<1>7. Holding' BY <1>1, <1>4, <1>5 DEF Holding, Programs, Completing, Entering
<1>8. Promised' BY <1>1, <1>4, <1>5 DEF Promised, Tried
<1>9. NothingLeftWaiting' BY <1>1 DEF NothingLeftWaiting
<1> QED BY <1>6, <1>7, <1>8, <1>9 DEF Kept

(* The writer ends with nothing left or with one failure: a holder that     *)
(* waited goes on.                                                         *)
LEMMA WriterStep ==
    ASSUME JInv, ~settled, WriterCommits \/ WriterFails \/ WriterGivesUp
    PROVE  Kept'
<1> USE DEF JInv
<1>1. writer /\ UNCHANGED <<queue, settled>>
  BY DEF WriterCommits, WriterFails, WriterGivesUp, tail
<1>2. replays = <<replays[1]>> /\ DOMAIN replays[1] = {"facts", "failures"} /\ replays[1].failures \in {0, 1}
  BY <1>1 DEF Batches
<1>3. ~client.held BY <1>1 DEF Batches
<1>4. client'.held = client.held
  BY ClientKept DEF WriterCommits, WriterFails, WriterGivesUp, Types
<1>5. WriterEnds
  BY <1>2 DEF WriterCommits, WriterFails, WriterGivesUp, BatchDone
<1>6. \/ replays' = <<>>
      \/ /\ replays[1].failures = 0
         /\ replays' = <<replays'[1]>> /\ DOMAIN replays'[1] = {"facts", "failures"}
         /\ replays'[1].failures = 1
  <2>1. CASE WriterFails
    <3>1. replays' = <<[replays[1] EXCEPT !.failures = 1]>> BY <1>2, <2>1 DEF WriterFails
    <3> QED BY <1>2, <2>1, <3>1 DEF WriterFails
  <2>2. CASE WriterCommits \/ WriterGivesUp
    <3>1. PICK batch : replays = <<batch>> BY <1>2
    <3>2. Tail(<<batch>>) = <<>> OBVIOUS
    <3>3. replays' = Tail(replays) BY <2>2 DEF WriterCommits, WriterGivesUp, BatchDone
    <3> QED BY <3>1, <3>2, <3>3
  <2> QED BY <2>1, <2>2
<1>7. \/ pc[1] # "await" /\ pc' = pc
      \/ pc = <<"await", "body">> /\ pc' = <<"body">>
      \/ pc = <<"await", "deliver", "done">> /\ pc' = <<"deliver", "done">>
      \/ pc = <<"await", "done">> /\ pc' = <<"done">>
  <2>1. CASE pc[1] # "await" BY <1>5, <2>1 DEF WriterEnds
  <2>2. CASE pc[1] = "await"
    <3>1. pc \in {<<"await", "body">>, <<"await", "deliver", "done">>, <<"await", "done">>}
      BY <2>2 DEF Holding, Programs, Completing, Entering
    <3>2. pc' = Tail(pc) BY <1>5, <2>2 DEF WriterEnds
    <3> QED BY <3>1, <3>2, Programme
  <2> QED BY <2>1, <2>2
<1>8. pc'[1] # "await" BY <1>7
<1>9. Holder("complete")' = Holder("complete") BY <1>1, SameHolder
<1>10. Batches' BY <1>3, <1>4, <1>5, <1>6, <1>7, <1>8 DEF Batches, WriterEnds
<1>11. Holding' BY <1>1, <1>7, <1>8, <1>9 DEF Holding, Programs, Completing, Entering
<1>12. Tried' BY <1>6 DEF Tried
<1>13. Holder("complete") /\ pc = <<"await", "done">> => replays' = <<>>
  BY <1>2, <1>6 DEF Promised, Tried
<1>14. writer' = FALSE BY <1>5 DEF WriterEnds
<1>15. Promised'
  BY <1>1, <1>3, <1>4, <1>7, <1>8, <1>9, <1>12, <1>13, <1>14 DEF Promised
<1>16. NothingLeftWaiting' BY <1>1 DEF NothingLeftWaiting
<1> QED BY <1>10, <1>11, <1>15, <1>16 DEF Kept

(* An assignment, a seed or its last resort begins its work. *)
LEMMA BodySteps ==
    ASSUME JInv, ~settled,
           SeedBody \/ AbandonBody \/ (bind # None /\ bind.locked /\ NoteBind)
    PROVE  Kept'
<1> USE DEF JInv
<1>1. ~Holder("complete") /\ queue # <<>> /\ UNCHANGED <<queue, replays, writer, settled>>
  BY DEF SeedBody, AbandonBody, NoteBind, At, Holder, Goto, tail
<1>2. pc' \in {<<"apply", "done">>, <<"release", "done">>, <<"commit">>}
  BY DEF SeedBody, AbandonBody, NoteBind, Goto
<1>3. client'.held = client.held
  BY DEF SeedBody, AbandonBody, NoteBind, Types, FreshClient
<1>4. ~Holder("complete")' BY <1>1, SameHolder
<1>5. Batches' BY <1>1, <1>2, <1>3 DEF Batches
<1>6. Holding' BY <1>1, <1>2, <1>4 DEF Holding, Programs
<1>7. Promised' BY <1>2, <1>4 DEF Promised
<1>8. NothingLeftWaiting' BY <1>1 DEF NothingLeftWaiting
<1> QED BY <1>5, <1>6, <1>7, <1>8 DEF Kept

(* The end of the hold: at most one batch comes to wait, and its writer is  *)
(* at work.                                                                *)
LEMMA ReplaySteps == ASSUME JInv, ~settled, SeedApply \/ ReleaseHold PROVE Kept'
<1> USE DEF JInv
<1>1. queue # <<>> /\ pc[1] \in {"apply", "release"} /\ UNCHANGED <<queue, settled>>
  BY DEF SeedApply, ReleaseHold, At, Holder, QueueAndDeliver, Wait, Advance, Goto, tail
<1>2. pc \in {<<"apply", "done">>, <<"release", "done">>, <<"release", "deliver", "done">>}
  BY <1>1 DEF Holding, Programs, Completing, Entering
<1>3. Holder("complete") => pc = <<"release", "deliver", "done">>
  BY <1>2 DEF Holding, Completing, Entering
<1>4. CASE ~client.held
  <2>1. UNCHANGED <<client, replays, writer>>
    BY <1>4 DEF SeedApply, ReleaseHold
  <2>2. pc # <<"release", "deliver", "done">> BY <1>4 DEF Promised
  <2>3. pc' = Tail(pc)
    BY <1>4 DEF SeedApply, ReleaseHold, Advance, Goto
  <2>4. pc' = <<"done">> BY <1>2, <2>2, <2>3, Programme
  <2>5. ~Holder("complete")' BY <1>1, <1>3, <2>2, SameHolder
  <2>6. Batches' BY <2>1, <2>4 DEF Batches
  <2>7. Holding' BY <1>1, <2>4, <2>5 DEF Holding, Programs, Completing
  <2>8. Promised' BY <2>4, <2>5 DEF Promised
  <2> QED BY <1>1, <2>6, <2>7, <2>8 DEF Kept, NothingLeftWaiting
<1>5. CASE client.held
  <2>1. replays = <<>> BY <1>5 DEF Batches
  <2>2. PICK facts : QueueAndDeliver(facts)
    BY <1>5 DEF SeedApply, ReleaseHold
  <2>3. client'.held = FALSE
    BY <1>5, LiveHoldsNothing DEF SeedApply, ReleaseHold
  <2>4. \/ replays' = <<>> /\ ~writer'
        \/ replays' = <<[facts |-> facts, failures |-> 0]>> /\ writer'
    <3>1. Append(<<>>, [facts |-> facts, failures |-> 0]) = <<[facts |-> facts, failures |-> 0]>>
      OBVIOUS
    <3>2. replays' = <<>> \/ replays' = <<[facts |-> facts, failures |-> 0]>>
      BY <2>1, <2>2, <3>1 DEF QueueAndDeliver
    <3>3. writer' = (replays' # <<>>)
      BY <2>2 DEF QueueAndDeliver
    <3> QED BY <3>2, <3>3
  <2>5. \/ replays' = <<>> /\ pc' = Tail(pc)
        \/ replays' # <<>> /\ pc' = [pc EXCEPT ![1] = "await"]
    BY <2>2, <2>4 DEF QueueAndDeliver, Wait, Advance, Goto
  <2>6. \/ replays' = <<>> /\ pc = <<"release", "deliver", "done">> /\ pc' = <<"deliver", "done">>
        \/ replays' # <<>> /\ pc = <<"release", "deliver", "done">> /\ pc' = <<"await", "deliver", "done">>
        \/ ~Holder("complete") /\ replays' = <<>> /\ pc' = <<"done">>
        \/ ~Holder("complete") /\ replays' # <<>> /\ pc' = <<"await", "done">>
    BY <1>2, <1>3, <2>5, Programme
  <2>7. Holder("complete")' = Holder("complete") BY <1>1, SameHolder
  <2>8. Batches'
    <3>1. replays' = <<>> \/ (replays' = <<replays'[1]>> /\ DOMAIN replays'[1] = {"facts", "failures"}
                             /\ replays'[1].failures = 0)
      BY <2>4
    <3>2. writer' <=> replays' # <<>> BY <2>4
    <3>3. pc'[1] = "await" => replays' # <<>> BY <2>6
    <3> QED BY <2>3, <3>1, <3>2, <3>3 DEF Batches
  <2>9. Holding' BY <1>1, <2>6, <2>7 DEF Holding, Programs, Completing
  <2>10. Promised' BY <2>3, <2>6, <2>7 DEF Promised, Tried
  <2> QED BY <1>1, <2>8, <2>9, <2>10 DEF Kept, NothingLeftWaiting
<1> QED BY <1>4, <1>5

(* The completion begins: what the entry left waiting has failed once. *)
LEMMA CompletionBegins == ASSUME JInv, ~settled, CompleteBody PROVE Kept'
<1> USE DEF JInv
<1>1. Holder("complete") /\ queue # <<>> /\ UNCHANGED <<client, queue, replays, writer, settled>>
  BY DEF CompleteBody, At, Holder, Goto, tail
<1>2. pc = <<"body">>
  BY <1>1 DEF CompleteBody, At, Holding, Completing, Entering
<1>3. \/ client.held /\ pc' = <<"release", "deliver", "done">>
      \/ ~client.held /\ pc' = <<"deliver", "done">>
  BY DEF CompleteBody, Goto
<1>4. Tried BY <1>2 DEF Promised
<1>5. Batches' BY <1>1, <1>3 DEF Batches
<1>6. Holding' BY <1>1, <1>3 DEF Holding, Programs, Completing
<1>7. Promised' BY <1>1, <1>3, <1>4 DEF Promised, Tried
<1> QED BY <1>1, <1>5, <1>6, <1>7 DEF Kept, NothingLeftWaiting

(* A new process: nobody at the lock, nothing waits. *)
LEMMA CrashStep == ASSUME JInv, ~settled, Crash PROVE Kept'
<1>1. queue' = <<>> /\ pc' = <<"body">> /\ replays' = <<>> /\ writer' = FALSE /\ UNCHANGED settled
  BY DEF Crash
<1>2. Batches' BY <1>1 DEF Batches
<1>3. Holding' BY <1>1 DEF Holding, Holder, Programs, Completing, Entering
<1>4. Promised' BY <1>1 DEF Promised, Tried
<1> QED BY <1>1, <1>2, <1>3, <1>4 DEF Kept, NothingLeftWaiting

(* Every step keeps the inductive invariant. *)
LEMMA JStep == JInv /\ [Next]_vars => JInv'
<1> SUFFICES ASSUME JInv, [Next]_vars PROVE JInv'
  OBVIOUS
<1>1. CASE Next
  <2>1. ~settled BY <1>1 DEF Next
  <2>2. Types' BY <1>1, TypesStep DEF JInv
  <2> SUFFICES Kept'
    BY <2>2 DEF JInv, Kept
  <2>3. CASE SeedBody \/ AbandonBody \/ (bind # None /\ bind.locked /\ NoteBind)
    BY <2>1, <2>3, BodySteps
  <2>4. CASE SeedApply \/ ReleaseHold BY <2>1, <2>4, ReplaySteps
  <2>5. CASE CompleteBody BY <2>1, <2>5, CompletionBegins
  <2>6. CASE Crash BY <2>1, <2>6, CrashStep
  <2>7. CASE WriterCommits \/ WriterFails \/ WriterGivesUp BY <2>1, <2>7, WriterStep
  <2>8. CASE Deliver BY <2>1, <2>8, DeliverStep
  <2>9. CASE LiveBody \/ SeedFails \/ Leave \/ Cancel \/ (bind # None /\ bind.locked /\ (CommitBind \/ RollBackBind))
    BY <2>1, <2>9, LeavingSteps
  <2>10. CASE \/ \E t \in Trays, l \in {Layer, Layer + 1} : Report(t, l)
              \/ Finish
              \/ \E t \in Trays, r \in Reels, locked \in BOOLEAN : BeginBind(t, r, locked)
              \/ bind # None /\ ~bind.locked /\ (NoteBind \/ CommitBind \/ RollBackBind)
              \/ StartSeed
    BY <2>1, <2>10, QuietSteps
  <2>11. NoteBind \/ CommitBind \/ RollBackBind => bind # None
    BY DEF NoteBind, CommitBind, RollBackBind
  <2> QED BY <1>1, <2>3, <2>4, <2>5, <2>6, <2>7, <2>8, <2>9, <2>10, <2>11 DEF Next
<1>2. CASE UNCHANGED vars
  BY <1>2 DEF vars, lock, tail, history, JInv, Types, Batches, Holding, Holder, Promised, Tried, NothingLeftWaiting
<1> QED BY <1>1, <1>2

-----------------------------------------------------------------------------

(* The invariant of the lock and the batches holds at the start. *)
LEMMA JInit == Init => JInv
<1> SUFFICES ASSUME Init PROVE JInv
  OBVIOUS
<1>1. Types
  <2>1. binding = [t \in Trays |-> NoReel] /\ bind = None /\ client = FreshClient
        /\ seen = <<>> /\ writer = FALSE /\ settled = FALSE
    BY DEF Init
  <2>2. binding \in [Trays -> Names] BY <2>1 DEF Names
  <2>3. seen \in Seq([tray : Trays, layer : Nat, reels : SUBSET Names]) BY <2>1, EmptySeq
  <2>4. DOMAIN client = DOMAIN FreshClient /\ client.held \in BOOLEAN BY <2>1 DEF FreshClient
  <2> QED BY <2>1, <2>2, <2>3, <2>4 DEF Types
<1>2. Batches
  <2>1. replays = <<>> /\ writer = FALSE /\ pc = <<"body">> BY DEF Init
  <2> QED BY <2>1 DEF Batches
<1>3. Holding
  <2>1. queue = <<>> /\ pc = <<"body">> BY DEF Init
  <2> QED BY <2>1 DEF Holding, Holder, Programs, Completing, Entering
<1>4. Promised
  <2>1. replays = <<>> /\ pc = <<"body">> BY DEF Init
  <2> QED BY <2>1 DEF Promised, Tried
<1>5. NothingLeftWaiting BY DEF Init, NothingLeftWaiting
<1> QED BY <1>1, <1>2, <1>3, <1>4, <1>5 DEF JInv

(* Induction.  The library states induction over an operator, which the     *)
(* provers cannot instantiate; over a set they can.                        *)

(* Every non-empty set of numbers has a least one: the sets 0 .. n are      *)
(* finite, and strict inclusion of finite sets is well-founded.            *)
LEMMA LeastOf ==
    ASSUME NEW S \in SUBSET Nat, S # {}
    PROVE  \E m \in S : \A n \in S : m <= n
<1> DEFINE Below == {0 .. n : n \in S}
<1>1. Below \subseteq FiniteSubsetsOf(Nat)
  <2> SUFFICES ASSUME NEW n \in S PROVE 0 .. n \in FiniteSubsetsOf(Nat)
    OBVIOUS
  <2>1. IsFiniteSet(0 .. n) BY FS_Interval
  <2> QED BY <2>1 DEF FiniteSubsetsOf
<1>2. Below # {}
  OBVIOUS
<1>3. PICK x \in Below : \A y \in Below : ~(<<y, x>> \in StrictSubsetOrdering(Nat))
  BY ONLY <1>1, <1>2, FS_StrictSubsetOrderingWellFounded, WFMin
<1>4. PICK m \in S : x = 0 .. m
  OBVIOUS
<1>5. ASSUME NEW n \in S, n < m PROVE FALSE
  <2>1. 0 .. n \in Below
    OBVIOUS
  <2>2. 0 .. n \subseteq 0 .. m /\ 0 .. n # 0 .. m
    <3>1. m \in 0 .. m /\ m \notin 0 .. n
      BY <1>5
    <3> QED BY <1>5, <3>1
  <2>3. <<0 .. n, 0 .. m>> \in StrictSubsetOrdering(Nat)
    BY <2>2 DEF StrictSubsetOrdering
  <2> QED BY <1>3, <1>4, <2>1, <2>3
<1> QED BY <1>4, <1>5

(* So has a bounded one a greatest. *)
LEMMA GreatestOf ==
    ASSUME NEW N \in Nat, NEW S \in SUBSET (0 .. N), S # {}
    PROVE  \E m \in S : \A n \in S : n <= m
<1> DEFINE Back == {N - n : n \in S}
<1>1. Back \in SUBSET Nat
  <2>1. \A n \in S : N - n \in Nat
    OBVIOUS
  <2> QED BY <2>1
<1>2. PICK k \in Back : \A n \in Back : k <= n
  <2>1. Back # {} OBVIOUS
  <2> HIDE DEF Back
  <2> QED BY <1>1, <2>1, LeastOf
<1>3. PICK m \in S : k = N - m
  OBVIOUS
<1>4. ASSUME NEW n \in S PROVE n <= m
  <2>1. N - n \in Back
    OBVIOUS
  <2>2. N - m <= N - n
    BY <1>2, <1>3, <2>1
  <2> QED BY <2>2
<1> QED BY <1>4

(* Induction over the numbers, for a set. *)
LEMMA ByInduction ==
    ASSUME NEW S, 0 \in S, \A n \in Nat : n \in S => n + 1 \in S
    PROVE  Nat \subseteq S
<1> SUFFICES ASSUME Nat \ S # {} PROVE FALSE
  OBVIOUS
<1>1. PICK m \in Nat \ S : \A n \in Nat \ S : m <= n
  BY LeastOf
<1>2. m # 0 /\ m - 1 \in Nat
  BY <1>1
<1>3. m - 1 \in S
  BY <1>1, <1>2
<1> QED BY <1>1, <1>2, <1>3

(* g starts with base and goes on by N steps within T. *)
Follows(g, N, T, base, step) ==
    /\ g \in [0 .. N -> T]
    /\ g[0] = base
    /\ \A n \in 1 .. N : g[n] = step[<<g[n - 1], n>>]

StepOn(step, N, T) == step \in [T \X (1 .. N) -> T]

(* Where a step may be taken N times, the sequence of its results exists.   *)
LEMMA Recursion ==
    ASSUME NEW N, NEW T, NEW base, NEW step, N \in Nat, base \in T, StepOn(step, N, T)
    PROVE  \E g : Follows(g, N, T, base, step)
<1> USE DEF StepOn
<1> DEFINE Ok(g, m) == g[0] = base /\ \A n \in 1 .. m : g[n] = step[<<g[n - 1], n>>]
           S == {m \in Nat : m <= N => \E g \in [0 .. m -> T] : Ok(g, m)}
<1>1. 0 \in S
  <2>1. [n \in 0 .. 0 |-> base] \in [0 .. 0 -> T] /\ Ok([n \in 0 .. 0 |-> base], 0)
    OBVIOUS
  <2> QED BY <2>1
<1>2. ASSUME NEW m \in Nat, m \in S PROVE m + 1 \in S
  <2> SUFFICES ASSUME m + 1 <= N PROVE \E g \in [0 .. m + 1 -> T] : Ok(g, m + 1)
    OBVIOUS
  <2>1. PICK g \in [0 .. m -> T] : Ok(g, m)
    BY <1>2
  <2> DEFINE h == [n \in 0 .. m + 1 |-> IF n = m + 1 THEN step[<<g[m], m + 1>>] ELSE g[n]]
  <2>2. m \in 0 .. m /\ m + 1 \in 1 .. N
    OBVIOUS
  <2>3. g[m] \in T /\ step[<<g[m], m + 1>>] \in T
    BY <2>2
  <2>4. h \in [0 .. m + 1 -> T] /\ h[0] = base
    BY <2>1, <2>3
  <2>5. ASSUME NEW n \in 1 .. m + 1 PROVE h[n] = step[<<h[n - 1], n>>]
    <3>1. CASE n = m + 1
      <4>1. m \in 0 .. m + 1 /\ m # m + 1 /\ n \in 0 .. m + 1
        BY <3>1
      <4>2. h[m] = g[m] /\ h[n] = step[<<g[m], n>>]
        BY <3>1, <4>1
      <4>3. n - 1 = m
        BY <3>1
      <4> HIDE DEF h
      <4> QED BY <4>2, <4>3
    <3>2. CASE n # m + 1
      <4>1. n \in 1 .. m /\ n - 1 \in 0 .. m
        BY <3>2
      <4>2. h[n] = g[n] /\ h[n - 1] = g[n - 1]
        BY <4>1
      <4>3. g[n] = step[<<g[n - 1], n>>]
        BY <2>1, <4>1
      <4> HIDE DEF h
      <4> QED BY <4>2, <4>3
    <3> QED BY <3>1, <3>2
  <2> HIDE DEF h
  <2> QED BY <2>4, <2>5
<1>3. Nat \subseteq S
  <2> HIDE DEF S
  <2> QED BY <1>1, <1>2, ByInduction
<1>4. N \in S
  BY <1>3
<1> QED BY <1>4 DEF Follows

(* What holds at the start of such a sequence and is kept by each step      *)
(* holds all along it.                                                     *)
LEMMA Along ==
    ASSUME NEW N \in Nat, NEW f, NEW T, f[0] \in T, \A i \in 1 .. N : f[i - 1] \in T => f[i] \in T
    PROVE  \A i \in 0 .. N : f[i] \in T
<1> DEFINE S == {i \in Nat : i <= N => f[i] \in T}
<1>1. 0 \in S
  OBVIOUS
<1>2. ASSUME NEW i \in Nat, i \in S PROVE i + 1 \in S
  <2> SUFFICES ASSUME i + 1 <= N PROVE f[i + 1] \in T
    OBVIOUS
  <2>1. f[i] \in T /\ i + 1 \in 1 .. N /\ (i + 1) - 1 = i
    BY <1>2
  <2> QED BY <2>1
<1>3. Nat \subseteq S
  <2> HIDE DEF S
  <2> QED BY <1>1, <1>2, ByInduction
<1> QED BY <1>3

-----------------------------------------------------------------------------
(* The records of the client, the journal and the batches. *)

Held      == HeldReport \cup HeldChange
ClientRec == [held : BOOLEAN, reports : Seq(Held), lostFrom : Layers \cup {None}, log : Seq(Entry),
              last : Feeds \cup {None}]
Row       == [tray : Feeds, layer : Layers, reel : Names, at : Layers]
Bound     == [Trays -> Names] \cup {None}

(* A fact without a name is a report's. *)
Named == {f \in Fact : f.reel = AtWrite => f.tray \in Trays}
Acc   == [client : ClientRec, facts : Seq(Named)]

(* What a layer may be. *)
LEMMA LayersAre == Layers = 0 .. MaxReports /\ MaxReports \in Nat
BY BoundAssumption DEF Layers

(* The last element is one of the sequence's. *)
LEMMA LastIn == ASSUME NEW S, NEW q \in Seq(S), q # <<>> PROVE Last(q) \in S
<1>1. Len(q) \in 1 .. Len(q) BY EmptySeq, LenProperties
<1> QED BY <1>1 DEF Last

(* A report applied to a live chronology. *)
LEMMA AppliedType ==
    ASSUME NEW c \in ClientRec, NEW t \in Feeds, NEW l \in Layers, NEW running
    PROVE  Applied(c, t, l, running) \in ClientRec
<1>1. Change(t, l) \in Entry BY DEF Change, Entry
<1>2. c.log \in Seq(Entry) /\ Append(c.log, Change(t, l)) \in Seq(Entry)
  BY <1>1 DEF ClientRec
<1> QED BY <1>2 DEF Applied, ClientRec

(* The loss stated before a replay. *)
LEMMA LossStatedType ==
    ASSUME NEW c \in ClientRec, NEW running
    PROVE  LossStated(c, running) \in Acc
<1> DEFINE from == IF c.log = <<>> \/ Last(c.log).layer <= c.lostFrom THEN c.lostFrom ELSE Last(c.log).layer
           f == [kind |-> "tray_change", tray |-> Unknown, layer |-> from, reel |-> NoReel, at |-> 0]
<1>1. CASE c.lostFrom = None \/ ~running
  <2>1. LossStated(c, running) = [client |-> [c EXCEPT !.lostFrom = None], facts |-> <<>>]
    BY <1>1 DEF LossStated
  <2>2. [c EXCEPT !.lostFrom = None] \in ClientRec
    BY DEF ClientRec
  <2> QED BY <2>1, <2>2 DEF Acc
<1>2. CASE ~(c.lostFrom = None \/ ~running)
  <2>1. LossStated(c, running) =
          [client |-> [c EXCEPT !.lostFrom = None, !.last = Unknown, !.log = Append(@, Change(Unknown, from))],
           facts |-> <<f>>]
    BY <1>2 DEF LossStated
  <2>2. from \in Layers
    <3>1. c.lostFrom \in Layers
      BY <1>2 DEF ClientRec
    <3>2. CASE c.log = <<>> BY <3>1, <3>2
    <3>3. CASE c.log # <<>>
      <4>1. c.log \in Seq(Entry) BY DEF ClientRec
      <4>2. Last(c.log) \in Entry BY <3>3, <4>1, LastIn
      <4>3. Last(c.log).layer \in Layers BY <4>2 DEF Entry
      <4> QED BY <3>1, <4>3
    <3> QED BY <3>2, <3>3
  <2> HIDE DEF from
  <2>3. Change(Unknown, from) \in Entry
    BY <2>2 DEF Change, Entry, Feeds
  <2>4. Append(c.log, Change(Unknown, from)) \in Seq(Entry)
    BY <2>3 DEF ClientRec
  <2>5. [c EXCEPT !.lostFrom = None, !.last = Unknown, !.log = Append(@, Change(Unknown, from))] \in ClientRec
    BY <2>4 DEF ClientRec, Feeds
  <2>6. f \in Named
    BY <2>2, NamesAssumption, LayersAre DEF Named, Fact, Feeds, Names
  <2> HIDE DEF f
  <2>7. <<f>> \in Seq(Named)
    BY <2>6
  <2> QED BY <2>1, <2>5, <2>7 DEF Acc
<1> QED BY <1>1, <1>2

(* The name of a held report is a reel, or left to the writer. *)
LEMMA IdentityType ==
    ASSUME NEW held \in Seq(Held), NEW i \in DOMAIN held, NEW bound \in Bound, held[i].tray \in Trays
    PROVE  IdentityAt(held, i, bound) \in Names \cup {AtWrite}
<1> DEFINE changes == {j \in DOMAIN held : held[j].kind = "change" /\ held[j].tray = held[i].tray}
           after   == {j \in changes : i < j}
           first   == CHOOSE j \in after : \A k \in after : j <= k
           latest  == CHOOSE j \in changes : \A k \in changes : k <= j
<1>1. DOMAIN held = 1 .. Len(held) /\ Len(held) \in Nat
  OBVIOUS
<1>2. \A j \in changes : held[j].out \in Names /\ held[j].new \in Names
  BY <1>1 DEF Held, HeldReport, HeldChange, Names
<1>3. after # {} => first \in after
  <2>1. after \in SUBSET Nat BY <1>1
  <2> HIDE DEF after
  <2> QED BY <2>1, LeastOf
<1>4. changes # {} => latest \in changes
  <2>1. changes \in SUBSET (0 .. Len(held)) BY <1>1
  <2> HIDE DEF changes
  <2> QED BY <1>1, <2>1, GreatestOf
<1>5. IdentityAt(held, i, bound) =
        IF after # {} THEN held[first].out
        ELSE IF changes # {} THEN held[latest].new
        ELSE IF bound = None THEN AtWrite ELSE bound[held[i].tray]
  BY DEF IdentityAt
<1>6. after \subseteq changes
  OBVIOUS
<1>7. bound # None => bound[held[i].tray] \in Names
  BY DEF Bound
<1> HIDE DEF changes, after, first, latest
<1> QED BY <1>2, <1>3, <1>4, <1>5, <1>6, <1>7

(* One held entry replayed. *)
LEMMA EntryReplayedType ==
    ASSUME NEW acc \in Acc, NEW held \in Seq(Held), NEW i \in DOMAIN held, NEW bound \in Bound, NEW running
    PROVE  EntryReplayed(acc, held, i, bound, running) \in Acc
<1> DEFINE e == held[i]
<1>1. e \in Held
  OBVIOUS
<1>2. acc.client \in ClientRec /\ acc.facts \in Seq(Named)
  BY DEF Acc
<1>3. CASE e.kind = "change"
  <2> DEFINE f == [kind |-> "held_assignment", tray |-> e.tray, layer |-> e.layer, reel |-> e.new, at |-> 0]
  <2>1. e \in HeldChange
    BY <1>1, <1>3 DEF Held, HeldReport
  <2>2. f \in Named
    BY <2>1, NamesAssumption, LayersAre DEF Named, Fact, Feeds, Names, HeldChange
  <2>3. EntryReplayed(acc, held, i, bound, running) = acc
        \/ EntryReplayed(acc, held, i, bound, running) = [acc EXCEPT !.facts = Append(@, f)]
    BY <1>3 DEF EntryReplayed
  <2> HIDE DEF f
  <2>4. Append(acc.facts, f) \in Seq(Named)
    BY <1>2, <2>2
  <2> QED BY <1>2, <2>3, <2>4 DEF Acc
<1>4. CASE e.kind # "change"
  <2> DEFINE f == [kind |-> "tray_change", tray |-> e.tray, layer |-> e.layer,
                   reel |-> IdentityAt(held, i, bound), at |-> e.at]
  <2>1. e \in HeldReport
    BY <1>1, <1>4 DEF Held, HeldChange
  <2>2. IdentityAt(held, i, bound) \in Names \cup {AtWrite}
    BY <2>1, IdentityType DEF HeldReport
  <2>3. f \in Named
    BY <2>1, <2>2 DEF Named, Fact, Feeds, HeldReport
  <2>4. Applied(acc.client, e.tray, e.layer, running) \in ClientRec
    BY <1>2, <2>1, AppliedType DEF HeldReport, Feeds
  <2>5. EntryReplayed(acc, held, i, bound, running) =
          [client |-> Applied(acc.client, e.tray, e.layer, running),
           facts |-> IF IsChange(acc.client, e.tray, running) THEN Append(acc.facts, f) ELSE acc.facts]
    BY <1>4 DEF EntryReplayed
  <2> HIDE DEF f, e
  <2>6. Append(acc.facts, f) \in Seq(Named)
    BY <1>2, <2>3
  <2> QED BY <1>2, <2>4, <2>5, <2>6 DEF Acc
<1> QED BY <1>3, <1>4

-----------------------------------------------------------------------------
(* What the hold keeps. *)

(* A sequence without its i-th element, element by element. *)
LEMMA RemovedAt ==
    ASSUME NEW S, NEW q \in Seq(S), NEW i \in 1 .. Len(q)
    PROVE  /\ RemoveAt(q, i) \in Seq(S)
           /\ Len(RemoveAt(q, i)) = Len(q) - 1
           /\ \A k \in 1 .. Len(q) - 1 : RemoveAt(q, i)[k] = q[IF k < i THEN k ELSE k + 1]
<1> DEFINE a == SubSeq(q, 1, i - 1)
           b == SubSeq(q, i + 1, Len(q))
<1>1. Len(q) \in Nat /\ \A k \in 1 .. Len(q) : q[k] \in S
  BY LenProperties, ElementOfSeq
<1>2. a \in Seq(S) /\ Len(a) = i - 1 /\ \A k \in 1 .. i - 1 : a[k] = q[k]
  <2>1. \A k \in 1 .. i - 1 : q[k] \in S BY <1>1
  <2>2. /\ a \in Seq(S)
        /\ Len(a) = IF 1 <= i - 1 THEN i - 1 - 1 + 1 ELSE 0
        /\ \A k \in 1 .. i - 1 - 1 + 1 : a[k] = q[1 + k - 1]
    <3>1. 1 \in Int /\ i - 1 \in Int BY <1>1
    <3> HIDE DEF a
    <3> QED BY <2>1, <3>1, SubSeqProperties DEF a
  <2> HIDE DEF a
  <2> QED BY <1>1, <2>2
<1>3. b \in Seq(S) /\ Len(b) = Len(q) - i /\ \A k \in 1 .. Len(q) - i : b[k] = q[i + k]
  <2>1. \A k \in i + 1 .. Len(q) : q[k] \in S BY <1>1
  <2>2. /\ b \in Seq(S)
        /\ Len(b) = IF i + 1 <= Len(q) THEN Len(q) - (i + 1) + 1 ELSE 0
        /\ \A k \in 1 .. Len(q) - (i + 1) + 1 : b[k] = q[i + 1 + k - 1]
    <3>1. i + 1 \in Int /\ Len(q) \in Int BY <1>1
    <3> HIDE DEF b
    <3> QED BY <2>1, <3>1, SubSeqProperties DEF b
  <2> HIDE DEF b
  <2> QED BY <1>1, <2>2
<1>4. RemoveAt(q, i) = a \o b
  BY DEF RemoveAt
<1> HIDE DEF a, b
<1>5. /\ a \o b \in Seq(S)
      /\ Len(a \o b) = Len(a) + Len(b)
      /\ \A k \in 1 .. Len(a) + Len(b) : (a \o b)[k] = IF k <= Len(a) THEN a[k] ELSE b[k - Len(a)]
  BY <1>2, <1>3, ConcatProperties
<1>6. Len(a) + Len(b) = Len(q) - 1
  BY <1>1, <1>2, <1>3
<1>7. ASSUME NEW k \in 1 .. Len(q) - 1 PROVE (a \o b)[k] = q[IF k < i THEN k ELSE k + 1]
  <2>1. (a \o b)[k] = IF k <= Len(a) THEN a[k] ELSE b[k - Len(a)]
    BY <1>5, <1>6
  <2>2. CASE k < i
    <3>1. k \in 1 .. i - 1 /\ k <= Len(a) BY <1>1, <1>2, <2>2
    <3> QED BY <1>2, <2>1, <2>2, <3>1
  <2>3. CASE ~(k < i)
    <3>1. ~(k <= Len(a)) /\ k - Len(a) \in 1 .. Len(q) - i /\ i + (k - Len(a)) = k + 1
      BY <1>1, <1>2, <2>3
    <3> QED BY <1>3, <2>1, <2>3, <3>1
  <2> QED BY <2>2, <2>3
<1> QED BY <1>4, <1>5, <1>6, <1>7

(* The reports of a hold are finitely many. *)
LEMMA ReportsFinite ==
    ASSUME NEW q \in Seq(Held)
    PROVE  /\ ReportsOf(q) \subseteq 1 .. Len(q) /\ Len(q) \in Nat
           /\ IsFiniteSet(ReportsOf(q)) /\ Cardinality(ReportsOf(q)) \in Nat
<1>1. ReportsOf(q) \subseteq 1 .. Len(q) /\ Len(q) \in Nat
  BY DEF ReportsOf
<1>2. IsFiniteSet(1 .. Len(q))
  BY <1>1, FS_Interval
<1> QED BY <1>1, <1>2, FS_Subset, FS_CardinalityType

(* The report a hold of tray t adds. *)
Reported(t, l, at) == [kind |-> "report", tray |-> t, layer |-> l, at |-> at]

(* A report is a held entry. *)
LEMMA ReportedType == ASSUME NEW t \in Trays, NEW l \in Layers, NEW at \in Layers PROVE Reported(t, l, at) \in Held
BY DEF Reported, Held, HeldReport

(* One more entry adds one report or none; the reports of the rest stay.    *)
LEMMA AppendedReports ==
    ASSUME NEW q \in Seq(Held), NEW e \in Held
    PROVE  ReportsOf(Append(q, e)) = ReportsOf(q) \cup (IF e.kind = "report" THEN {Len(q) + 1} ELSE {})
<1>1. /\ Append(q, e) \in Seq(Held) /\ Len(Append(q, e)) = Len(q) + 1 /\ Len(q) \in Nat
      /\ \A i \in 1 .. Len(q) : Append(q, e)[i] = q[i]
      /\ Append(q, e)[Len(q) + 1] = e
  BY AppendProperties, LenProperties
<1>2. DOMAIN q = 1 .. Len(q) /\ DOMAIN Append(q, e) = 1 .. Len(q) + 1
  BY <1>1, LenProperties
<1> QED BY <1>1, <1>2 DEF ReportsOf

(* What a hold leaves: as it was, one report more, or that and the oldest   *)
(* report less.                                                            *)
LEMMA HoldCases ==
    ASSUME NEW c \in ClientRec, NEW t \in Trays, NEW l \in Layers, NEW at \in Layers,
           Cardinality(ReportsOf(c.reports)) <= PendingLimit
    PROVE  LET new   == HoldReport(c, t, l, at)
               grown == Append(c.reports, Reported(t, l, at))
           IN  /\ new \in ClientRec
               /\ \/ new.reports = c.reports
                  \/ /\ new.reports = grown
                     /\ Cardinality(ReportsOf(c.reports)) < PendingLimit
                  \/ \E o \in ReportsOf(grown) : new.reports = RemoveAt(grown, o)
<1> DEFINE new == HoldReport(c, t, l, at)
           grown == Append(c.reports, Reported(t, l, at))
           oldest == CHOOSE i \in ReportsOf(grown) : \A j \in ReportsOf(grown) : i <= j
<1>1. c.reports \in Seq(Held)
  BY DEF ClientRec
<1>2. grown \in Seq(Held)
  BY <1>1, ReportedType, AppendProperties
<1>3. oldest \in ReportsOf(grown)
  <2>1. Len(c.reports) + 1 \in ReportsOf(grown)
    BY <1>1, ReportedType, AppendedReports DEF Reported
  <2> HIDE DEF grown
  <2>2. ReportsOf(grown) \in SUBSET Nat
    BY <1>2, ReportsFinite
  <2> QED BY <2>1, <2>2, LeastOf
<1>4. \/ new = [c EXCEPT !.last = t]
      \/ new = [c EXCEPT !.last = t, !.reports = grown] /\ Cardinality(ReportsOf(c.reports)) < PendingLimit
      \/ new = [c EXCEPT !.last = t, !.reports = RemoveAt(grown, oldest),
                         !.lostFrom = IF @ = None THEN grown[oldest].layer ELSE @]
  BY DEF HoldReport, Reported
<1> HIDE DEF new, grown, oldest
<1>5. oldest \in 1 .. Len(grown) /\ grown[oldest] \in Held
  BY <1>2, <1>3, ReportsFinite, ElementOfSeq
<1>6. RemoveAt(grown, oldest) \in Seq(Held)
  BY <1>2, <1>5, RemovedAt
<1>7. grown[oldest].layer \in Layers
  BY <1>5 DEF Held, HeldReport, HeldChange
<1>8. new \in ClientRec
  BY <1>2, <1>4, <1>6, <1>7 DEF ClientRec, Feeds
<1>9. \/ new.reports = c.reports
      \/ new.reports = grown /\ Cardinality(ReportsOf(c.reports)) < PendingLimit
      \/ new.reports = RemoveAt(grown, oldest)
  BY <1>4 DEF ClientRec
<1> QED BY <1>3, <1>8, <1>9 DEF new, grown, oldest

(* Without one of its reports a hold has fewer reports. *)
LEMMA OneReportLess ==
    ASSUME NEW q \in Seq(Held), NEW o \in ReportsOf(q)
    PROVE  Cardinality(ReportsOf(RemoveAt(q, o))) <= Cardinality(ReportsOf(q)) - 1
<1> DEFINE r == RemoveAt(q, o)
           rest == ReportsOf(q) \ {o}
           f == [k \in ReportsOf(r) |-> IF k < o THEN k ELSE k + 1]
<1>1. o \in 1 .. Len(q) /\ Len(q) \in Nat /\ IsFiniteSet(ReportsOf(q)) /\ Cardinality(ReportsOf(q)) \in Nat
  BY ReportsFinite
<1>2. r \in Seq(Held) /\ Len(r) = Len(q) - 1
      /\ \A k \in 1 .. Len(q) - 1 : r[k] = q[IF k < o THEN k ELSE k + 1]
  BY <1>1, RemovedAt
<1> HIDE DEF r
<1>3. ReportsOf(r) \subseteq 1 .. Len(q) - 1
  BY <1>2, ReportsFinite
<1>4. IsFiniteSet(rest) /\ Cardinality(rest) = Cardinality(ReportsOf(q)) - 1
  BY <1>1, FS_RemoveElement
<1>5. \A k \in ReportsOf(r) : (IF k < o THEN k ELSE k + 1) \in rest
  <2> SUFFICES ASSUME NEW k \in ReportsOf(r) PROVE (IF k < o THEN k ELSE k + 1) \in rest
    OBVIOUS
  <2>1. k \in 1 .. Len(q) - 1 /\ r[k].kind = "report"
    BY <1>3 DEF ReportsOf
  <2>2. q[IF k < o THEN k ELSE k + 1].kind = "report"
    BY <1>2, <2>1
  <2>3. (IF k < o THEN k ELSE k + 1) \in 1 .. Len(q) /\ (IF k < o THEN k ELSE k + 1) # o
    BY <1>1, <2>1
  <2>4. DOMAIN q = 1 .. Len(q)
    BY LenProperties
  <2> QED BY <2>2, <2>3, <2>4 DEF ReportsOf
<1>6. f \in Injection(ReportsOf(r), rest)
  <2>1. f \in [ReportsOf(r) -> rest]
    BY <1>5
  <2>2. ASSUME NEW a \in ReportsOf(r), NEW b \in ReportsOf(r), f[a] = f[b] PROVE a = b
    <3>1. a \in Nat /\ b \in Nat /\ o \in Nat BY <1>1, <1>3
    <3> QED BY <2>2, <3>1
  <2> HIDE DEF f
  <2> QED BY <2>1, <2>2 DEF Injection, IsInjective
<1> HIDE DEF f, rest
<1>7. Cardinality(ReportsOf(r)) <= Cardinality(rest)
  BY <1>4, <1>6, FS_Injection
<1> QED BY <1>4, <1>7 DEF r

(* The hold stays within its limit. *)
LEMMA HoldType ==
    ASSUME NEW c \in ClientRec, NEW t \in Trays, NEW l \in Layers, NEW at \in Layers,
           Cardinality(ReportsOf(c.reports)) <= PendingLimit
    PROVE  /\ HoldReport(c, t, l, at) \in ClientRec
           /\ Cardinality(ReportsOf(HoldReport(c, t, l, at).reports)) <= PendingLimit
<1> DEFINE new == HoldReport(c, t, l, at)
           grown == Append(c.reports, Reported(t, l, at))
<1>1. c.reports \in Seq(Held)
  BY DEF ClientRec
<1>2. grown \in Seq(Held)
  BY <1>1, ReportedType, AppendProperties
<1>3. Cardinality(ReportsOf(c.reports)) \in Nat /\ PendingLimit \in Nat
  BY <1>1, ReportsFinite, LimitAssumption
<1>4. Cardinality(ReportsOf(grown)) <= Cardinality(ReportsOf(c.reports)) + 1 /\ Cardinality(ReportsOf(grown)) \in Nat
  <2>1. ReportsOf(grown) = ReportsOf(c.reports) \cup {Len(c.reports) + 1}
    BY <1>1, ReportedType, AppendedReports DEF Reported
  <2>2. IsFiniteSet(ReportsOf(c.reports))
    BY <1>1, ReportsFinite
  <2>3. \/ Cardinality(ReportsOf(c.reports) \cup {Len(c.reports) + 1}) = Cardinality(ReportsOf(c.reports))
        \/ Cardinality(ReportsOf(c.reports) \cup {Len(c.reports) + 1}) = Cardinality(ReportsOf(c.reports)) + 1
    BY <2>2, FS_AddElement
  <2> HIDE DEF grown
  <2>4. Cardinality(ReportsOf(grown)) \in Nat
    BY <1>2, ReportsFinite
  <2> QED BY <1>3, <2>1, <2>3, <2>4
<1>5. /\ new \in ClientRec
      /\ \/ new.reports = c.reports
         \/ new.reports = grown /\ Cardinality(ReportsOf(c.reports)) < PendingLimit
         \/ \E o \in ReportsOf(grown) : new.reports = RemoveAt(grown, o)
  BY HoldCases
<1> HIDE DEF new, grown
<1>6. ASSUME NEW o \in ReportsOf(grown), new.reports = RemoveAt(grown, o)
      PROVE  Cardinality(ReportsOf(new.reports)) <= PendingLimit
  <2>1. Cardinality(ReportsOf(new.reports)) <= Cardinality(ReportsOf(grown)) - 1
    BY <1>2, <1>6, OneReportLess
  <2>2. Cardinality(ReportsOf(new.reports)) \in Nat
    <3>1. new.reports \in Seq(Held) BY <1>5 DEF ClientRec
    <3> QED BY <3>1, ReportsFinite
  <2> QED BY <1>3, <1>4, <2>1, <2>2
<1> QED BY <1>3, <1>4, <1>5, <1>6 DEF new

-----------------------------------------------------------------------------
(* The recursions: each has the results its steps say.                      *)

(* The state of a replay after each of the held entries. *)
Replays(f, c, bound, running) ==
    /\ f \in [0 .. Len(c.reports) -> Acc]
    /\ f[0] = LossStated(c, running)
    /\ \A i \in 1 .. Len(c.reports) : f[i] = EntryReplayed(f[i - 1], c.reports, i, bound, running)
    /\ Replayed(c, bound, running) = f[Len(c.reports)]

(* A replay has a state after each of its entries. *)
LEMMA ReplayUnfolds ==
    ASSUME NEW c \in ClientRec, NEW bound \in Bound, NEW running
    PROVE  \E f : Replays(f, c, bound, running)
<1> DEFINE N == Len(c.reports)
           base == LossStated(c, running)
           Do(a, i) == EntryReplayed(a, c.reports, i, bound, running)
           step == [p \in Acc \X (1 .. N) |-> Do(p[1], p[2])]
           Eq(g) == g = [i \in 0 .. N |-> IF i = 0 THEN base ELSE Do(g[i - 1], i)]
           f[i \in 0 .. N] == IF i = 0 THEN base ELSE Do(f[i - 1], i)
<1>1. c.reports \in Seq(Held) /\ N \in Nat /\ DOMAIN c.reports = 1 .. N
  BY DEF ClientRec
<1>2. base \in Acc /\ \A a \in Acc, i \in 1 .. N : Do(a, i) \in Acc
  BY <1>1, LossStatedType, EntryReplayedType
<1>3. Replayed(c, bound, running) = f[N]
  BY DEF Replayed
<1>4. f = CHOOSE g : Eq(g)
  BY DEF f
<1> HIDE DEF f, N, base, Do
<1>5. step \in [Acc \X (1 .. N) -> Acc] /\ \A a \in Acc, i \in 1 .. N : step[<<a, i>>] = Do(a, i)
  BY <1>2
<1> HIDE DEF step
<1>6. PICK g : g \in [0 .. N -> Acc] /\ g[0] = base /\ \A i \in 1 .. N : g[i] = step[<<g[i - 1], i>>]
  <2>1. StepOn(step, N, Acc) BY <1>5 DEF StepOn
  <2>2. \E g : Follows(g, N, Acc, base, step) BY <1>1, <1>2, <2>1, Recursion
  <2> QED BY <2>2 DEF Follows
<1>7. \A i \in 1 .. N : g[i] = Do(g[i - 1], i)
  <2>1. \A i \in 1 .. N : i - 1 \in 0 .. N BY <1>1
  <2> QED BY <1>5, <1>6, <2>1
<1>8. Eq(g)
  <2>1. \A i \in 0 .. N : g[i] = IF i = 0 THEN base ELSE Do(g[i - 1], i)
    BY <1>1, <1>6, <1>7
  <2> QED BY <1>6, <2>1
<1>9. Eq(f)
  <2> HIDE DEF Eq
  <2> QED BY <1>4, <1>8
<1>10. f[0] = base /\ \A i \in 1 .. N : f[i] = Do(f[i - 1], i)
  BY <1>1, <1>9
<1>11. f \in [0 .. N -> Acc]
  <2>1. \A i \in 1 .. N : f[i - 1] \in Acc => f[i] \in Acc
    BY <1>2, <1>10
  <2>2. \A i \in 0 .. N : f[i] \in Acc
    BY ONLY <1>1, <1>2, <1>10, <2>1, Along
  <2> QED BY <1>9, <2>2
<1> QED BY <1>3, <1>10, <1>11 DEF Replays, N, base, Do

(* What a replay gives. *)
LEMMA ReplayedType ==
    ASSUME NEW c \in ClientRec, NEW bound \in Bound, NEW running
    PROVE  Replayed(c, bound, running) \in Acc
<1>1. PICK f : Replays(f, c, bound, running)
  BY ReplayUnfolds
<1>2. Len(c.reports) \in 0 .. Len(c.reports)
  BY DEF ClientRec
<1> QED BY <1>1, <1>2 DEF Replays

(* The rows of a journal after each of a batch's facts. *)
Writes(f, written, facts) ==
    /\ f \in [0 .. Len(facts) -> Seq(Row) \ {<<>>}]
    /\ f[0] = written
    /\ \A i \in 1 .. Len(facts) : f[i] = FactWritten(f[i - 1], facts[i])
    /\ BatchWritten(written, facts) = f[Len(facts)]

(* A row recorded. *)
LEMMA RecordedType ==
    ASSUME NEW written \in Seq(Row) \ {<<>>}, NEW row \in Row
    PROVE  Recorded(written, row) \in Seq(Row) \ {<<>>}
BY AppendProperties DEF Recorded

(* A fact written. *)
LEMMA FactWrittenType ==
    ASSUME binding \in [Trays -> Names], NEW written \in Seq(Row) \ {<<>>}, NEW f \in Named
    PROVE  FactWritten(written, f) \in Seq(Row) \ {<<>>}
<1> DEFINE row == [tray |-> f.tray, layer |-> f.layer, at |-> f.at,
                   reel |-> IF f.reel = AtWrite THEN binding[f.tray] ELSE f.reel]
<1>1. row \in Row
  <2>1. (IF f.reel = AtWrite THEN binding[f.tray] ELSE f.reel) \in Names
    BY DEF Named, Fact
  <2> QED BY <2>1 DEF Named, Fact, Row
<1>2. FactWritten(written, f) \in {written, Recorded(written, row)}
  BY DEF FactWritten
<1> HIDE DEF row
<1> QED BY <1>1, <1>2, RecordedType

(* A batch leaves rows after each of its facts. *)
LEMMA BatchUnfolds ==
    ASSUME binding \in [Trays -> Names], NEW written \in Seq(Row) \ {<<>>}, NEW facts \in Seq(Named)
    PROVE  \E f : Writes(f, written, facts)
<1> DEFINE N == Len(facts)
           T == Seq(Row) \ {<<>>}
           Do(a, i) == FactWritten(a, facts[i])
           step == [p \in T \X (1 .. N) |-> Do(p[1], p[2])]
           Eq(g) == g = [i \in 0 .. N |-> IF i = 0 THEN written ELSE Do(g[i - 1], i)]
           f[i \in 0 .. N] == IF i = 0 THEN written ELSE Do(f[i - 1], i)
<1>1. N \in Nat /\ \A i \in 1 .. N : facts[i] \in Named
  BY ElementOfSeq
<1>2. \A a \in T, i \in 1 .. N : Do(a, i) \in T
  BY <1>1, FactWrittenType
<1>3. BatchWritten(written, facts) = f[N]
  BY DEF BatchWritten
<1>4. f = CHOOSE g : Eq(g)
  BY DEF f
<1> HIDE DEF f, N, Do, T
<1>5. step \in [T \X (1 .. N) -> T] /\ \A a \in T, i \in 1 .. N : step[<<a, i>>] = Do(a, i)
  BY <1>2
<1> HIDE DEF step
<1>6. PICK g : g \in [0 .. N -> T] /\ g[0] = written /\ \A i \in 1 .. N : g[i] = step[<<g[i - 1], i>>]
  <2>1. written \in T BY DEF T
  <2>2. StepOn(step, N, T) BY <1>5 DEF StepOn
  <2>3. \E g : Follows(g, N, T, written, step) BY <1>1, <2>1, <2>2, Recursion
  <2> QED BY <2>3 DEF Follows
<1>7. \A i \in 1 .. N : g[i] = Do(g[i - 1], i)
  <2>1. \A i \in 1 .. N : i - 1 \in 0 .. N BY <1>1
  <2> QED BY <1>5, <1>6, <2>1
<1>8. Eq(g)
  <2>1. \A i \in 0 .. N : g[i] = IF i = 0 THEN written ELSE Do(g[i - 1], i)
    BY <1>1, <1>6, <1>7
  <2> QED BY <1>6, <2>1
<1>9. Eq(f)
  <2> HIDE DEF Eq
  <2> QED BY <1>4, <1>8
<1>10. f[0] = written /\ \A i \in 1 .. N : f[i] = Do(f[i - 1], i)
  BY <1>1, <1>9
<1>11. f \in [0 .. N -> T]
  <2>1. \A i \in 1 .. N : f[i - 1] \in T => f[i] \in T
    BY <1>2, <1>10
  <2>2. f[0] \in T
    BY <1>10 DEF T
  <2>3. \A i \in 0 .. N : f[i] \in T
    BY ONLY <1>1, <2>1, <2>2, Along
  <2> QED BY <1>9, <2>3
<1> QED BY <1>3, <1>10, <1>11 DEF Writes, N, Do, T

(* A batch written. *)
LEMMA BatchWrittenType ==
    ASSUME binding \in [Trays -> Names], NEW written \in Seq(Row) \ {<<>>}, NEW facts \in Seq(Named)
    PROVE  BatchWritten(written, facts) \in Seq(Row) \ {<<>>}
<1>1. PICK f : Writes(f, written, facts)
  BY BatchUnfolds
<1>2. Len(facts) \in 0 .. Len(facts)
  OBVIOUS
<1> QED BY <1>1, <1>2 DEF Writes

(* The chronology restored from the journal. *)
LEMMA RestoredType == ASSUME journal \in Seq(Row) PROVE RestoredLog \in Seq(Entry)
<1> DEFINE N == Len(journal)
           Do(a, i) == RowRestored(a, journal[i])
           step == [p \in Seq(Entry) \X (1 .. N) |-> Do(p[1], p[2])]
           Eq(g) == g = [i \in 0 .. N |-> IF i = 0 THEN <<>> ELSE Do(g[i - 1], i)]
           f[i \in 0 .. N] == IF i = 0 THEN <<>> ELSE Do(f[i - 1], i)
<1>1. N \in Nat /\ \A i \in 1 .. N : journal[i] \in Row
  BY LenProperties, ElementOfSeq
<1>2. <<>> \in Seq(Entry) /\ \A a \in Seq(Entry), i \in 1 .. N : Do(a, i) \in Seq(Entry)
  <2> SUFFICES ASSUME NEW a \in Seq(Entry), NEW i \in 1 .. N PROVE Do(a, i) \in Seq(Entry)
    BY EmptySeq
  <2>1. Change(journal[i].tray, journal[i].layer) \in Entry
    BY <1>1 DEF Change, Entry, Row
  <2> QED BY <2>1, AppendProperties DEF RowRestored
<1>3. RestoredLog = f[N]
  BY DEF RestoredLog
<1>4. f = CHOOSE g : Eq(g)
  BY DEF f
<1> HIDE DEF f, N, Do
<1>5. step \in [Seq(Entry) \X (1 .. N) -> Seq(Entry)] /\ \A a \in Seq(Entry), i \in 1 .. N : step[<<a, i>>] = Do(a, i)
  BY <1>2
<1> HIDE DEF step
<1>6. PICK g : g \in [0 .. N -> Seq(Entry)] /\ g[0] = <<>> /\ \A i \in 1 .. N : g[i] = step[<<g[i - 1], i>>]
  <2>1. StepOn(step, N, Seq(Entry)) BY <1>5 DEF StepOn
  <2>2. \E g : Follows(g, N, Seq(Entry), <<>>, step) BY <1>1, <1>2, <2>1, Recursion
  <2> QED BY <2>2 DEF Follows
<1>7. \A i \in 1 .. N : g[i] = Do(g[i - 1], i)
  <2>1. \A i \in 1 .. N : i - 1 \in 0 .. N BY <1>1
  <2> QED BY <1>5, <1>6, <2>1
<1>8. Eq(g)
  <2>1. \A i \in 0 .. N : g[i] = IF i = 0 THEN <<>> ELSE Do(g[i - 1], i)
    BY <1>1, <1>6, <1>7
  <2> QED BY <1>6, <2>1
<1>9. Eq(f)
  <2> HIDE DEF Eq
  <2> QED BY <1>4, <1>8
<1>10. f[0] = <<>> /\ \A i \in 1 .. N : f[i] = Do(f[i - 1], i)
  BY <1>1, <1>9
<1>11. \A i \in 0 .. N : f[i] \in Seq(Entry)
  <2>1. \A i \in 1 .. N : f[i - 1] \in Seq(Entry) => f[i] \in Seq(Entry)
    BY <1>2, <1>10
  <2>2. f[0] \in Seq(Entry)
    BY <1>2, <1>10
  <2> QED BY ONLY <1>1, <2>1, <2>2, Along
<1>12. N \in 0 .. N
  BY <1>1
<1> QED BY <1>3, <1>11, <1>12

(* The changes before a layer are changes of the chronology. *)
LEMMA BeforeType == ASSUME NEW log \in Seq(Entry), NEW layer PROVE Before(log, layer) \in Seq(Entry)
<1> DEFINE N == Len(log)
           Do(a, i) == IF log[i].layer < layer THEN Append(a, log[i]) ELSE a
           step == [p \in Seq(Entry) \X (1 .. N) |-> Do(p[1], p[2])]
           Eq(g) == g = [i \in 0 .. N |-> IF i = 0 THEN <<>> ELSE Do(g[i - 1], i)]
           f[i \in 0 .. N] == IF i = 0 THEN <<>> ELSE Do(f[i - 1], i)
<1>1. N \in Nat /\ \A i \in 1 .. N : log[i] \in Entry
  BY LenProperties, ElementOfSeq
<1>2. <<>> \in Seq(Entry) /\ \A a \in Seq(Entry), i \in 1 .. N : Do(a, i) \in Seq(Entry)
  BY <1>1, EmptySeq, AppendProperties
<1>3. Before(log, layer) = f[N]
  BY DEF Before
<1>4. f = CHOOSE g : Eq(g)
  BY DEF f
<1> HIDE DEF f, N, Do
<1>5. step \in [Seq(Entry) \X (1 .. N) -> Seq(Entry)] /\ \A a \in Seq(Entry), i \in 1 .. N : step[<<a, i>>] = Do(a, i)
  BY <1>2
<1> HIDE DEF step
<1>6. PICK g : g \in [0 .. N -> Seq(Entry)] /\ g[0] = <<>> /\ \A i \in 1 .. N : g[i] = step[<<g[i - 1], i>>]
  <2>1. StepOn(step, N, Seq(Entry)) BY <1>5 DEF StepOn
  <2>2. \E g : Follows(g, N, Seq(Entry), <<>>, step) BY <1>1, <1>2, <2>1, Recursion
  <2> QED BY <2>2 DEF Follows
<1>7. \A i \in 1 .. N : g[i] = Do(g[i - 1], i)
  <2>1. \A i \in 1 .. N : i - 1 \in 0 .. N BY <1>1
  <2> QED BY <1>5, <1>6, <2>1
<1>8. Eq(g)
  <2>1. \A i \in 0 .. N : g[i] = IF i = 0 THEN <<>> ELSE Do(g[i - 1], i)
    BY <1>1, <1>6, <1>7
  <2> QED BY <1>6, <2>1
<1>9. Eq(f)
  <2> HIDE DEF Eq
  <2> QED BY <1>4, <1>8
<1>10. f[0] = <<>> /\ \A i \in 1 .. N : f[i] = Do(f[i - 1], i)
  BY <1>1, <1>9
<1>11. \A i \in 0 .. N : f[i] \in Seq(Entry)
  <2>1. \A i \in 1 .. N : f[i - 1] \in Seq(Entry) => f[i] \in Seq(Entry)
    BY <1>2, <1>10
  <2>2. f[0] \in Seq(Entry)
    BY <1>2, <1>10
  <2> QED BY ONLY <1>1, <2>1, <2>2, Along
<1>12. N \in 0 .. N
  BY <1>1
<1> QED BY <1>3, <1>11, <1>12

(* The client told of an unknown feed holds what it held. *)
LEMMA UnknownFromType ==
    ASSUME NEW c \in ClientRec, NEW l \in Layers
    PROVE  UnknownFrom(c, l) \in ClientRec /\ UnknownFrom(c, l).reports = c.reports
<1>1. Before(c.log, l) \in Seq(Entry)
  BY BeforeType DEF ClientRec
<1>2. Change(Unknown, l) \in Entry
  BY DEF Change, Entry, Feeds
<1>3. Append(Before(c.log, l), Change(Unknown, l)) \in Seq(Entry)
  BY <1>1, <1>2, AppendProperties
<1> QED BY <1>3 DEF UnknownFrom, ClientRec, Feeds

-----------------------------------------------------------------------------
(* What the variables hold. *)

SeenRec == [tray : Trays, layer : Layers, reels : SUBSET Names]
Snap    == [log : Seq(Entry), bound : Bound]

ClientOK  == client \in ClientRec /\ Cardinality(ReportsOf(client.reports)) <= PendingLimit
JournalOK == journal \in Seq(Row) \ {<<>>}
BatchOK   == replays # <<>> => replays[1].facts \in Seq(Named) \ {<<>>}

(* Whoever is about to replay has read a snapshot. *)
SnapOK == pc[1] \in {"apply", "release"} => snapshot \in Snap

(* A print is never ahead of its reports: each is on a new layer at most.   *)
SeenOK ==
    /\ seen \in Seq(SeenRec) /\ Len(seen) <= MaxReports
    /\ \A i \in 1 .. Len(seen) : seen[i].layer <= i

CountsOK ==
    /\ finished \in BOOLEAN /\ astray \in BOOLEAN
    /\ joined \in 0 .. Len(seen) /\ binds \in 0 .. MaxBinds /\ faults \in 0 .. MaxFaults

(* A live callback carries a report. *)
CallbackOK == \A i \in 1 .. Len(queue) : queue[i].kind = "live" => queue[i].at \in 1 .. Len(seen)

(* At most one task of the seed is at the lock, and the budget of its       *)
(* retries is left when that one is a seed.                                *)
Seeds == {i \in 1 .. Len(queue) : queue[i].kind \in {"seed", "abandon"}}
SeedOK ==
    /\ seeder \in {"due", "queued", "gone"} /\ failures \in 0 .. SeedRetries + 1
    /\ \A i \in Seeds : /\ seeder = "queued" /\ \A j \in Seeds : i = j
                        /\ queue[i].kind = "seed" => failures <= SeedRetries

Data == ClientOK /\ JournalOK /\ BatchOK /\ SnapOK /\ SeenOK /\ CountsOK /\ CallbackOK /\ SeedOK

(* The layer of a print is not ahead of its reports. *)
LEMMA LayerBound ==
    ASSUME SeenOK
    PROVE  /\ Layer \in 0 .. Len(seen) /\ Layer \in Layers
           /\ Len(seen) < MaxReports => Layer + 1 \in Layers /\ Layer + 1 <= Len(seen) + 1 /\ Len(seen) + 1 \in Layers
<1>1. Len(seen) \in Nat /\ Len(seen) <= MaxReports
  BY DEF SeenOK
<1>2. CASE seen = <<>>
  BY <1>1, <1>2, LayersAre DEF Layer
<1>3. CASE seen # <<>>
  <2>1. Len(seen) \in 1 .. Len(seen)
    BY <1>3, EmptySeq DEF SeenOK
  <2>2. seen[Len(seen)].layer \in Nat /\ seen[Len(seen)].layer <= Len(seen)
    <3>1. seen[Len(seen)] \in SeenRec BY <2>1, ElementOfSeq DEF SeenOK
    <3> QED BY <2>1, <3>1, LayersAre DEF SeenOK, SeenRec
  <2>3. Layer = seen[Len(seen)].layer
    BY <1>3 DEF Layer, Last
  <2> QED BY <1>1, <2>2, <2>3, LayersAre
<1> QED BY <1>2, <1>3

(* The client after a replay holds nothing. *)
LEMMA LiveType ==
    ASSUME NEW replay \in Acc
    PROVE  Live(replay) \in ClientRec /\ Live(replay).reports = <<>>
<1>1. replay.client \in ClientRec
  BY DEF Acc
<1>2. <<>> \in Seq(Held) /\ <<>> \in Seq(Entry)
  OBVIOUS
<1> QED BY <1>1, <1>2 DEF Live, FreshClient, ClientRec

(* An empty hold has no reports. *)
LEMMA NothingHeld == Cardinality(ReportsOf(<<>>)) = 0
<1>1. ReportsOf(<<>>) = {} BY DEF ReportsOf
<1> QED BY <1>1, FS_EmptySet

(* What a replay starts from. *)
LEMMA RestoredClient ==
    ASSUME NEW c \in ClientRec, NEW log \in Seq(Entry)
    PROVE  [c EXCEPT !.log = log, !.last = IF log = <<>> THEN @ ELSE Last(log).tray] \in ClientRec
<1>1. log # <<>> => Last(log).tray \in Feeds
  <2>1. log # <<>> => Last(log) \in Entry BY LastIn
  <2> QED BY <2>1 DEF Entry
<1> QED BY <1>1 DEF ClientRec

(* What a hold that is given up replays from. *)
LEMMA ForgottenClient ==
    ASSUME NEW c \in ClientRec
    PROVE  [c EXCEPT !.log = <<>>, !.lostFrom = 0] \in ClientRec
<1>1. 0 \in Layers /\ <<>> \in Seq(Entry)
  BY LayersAre
<1> QED BY <1>1 DEF ClientRec

(* The first layer of a batch. *)
LEMMA FirstLayer ==
    ASSUME NEW facts \in Seq(Named) \ {<<>>}
    PROVE  LET layers == {facts[i].layer : i \in DOMAIN facts}
           IN  (CHOOSE l \in layers : \A m \in layers : l <= m) \in Layers
<1> DEFINE layers == {facts[i].layer : i \in DOMAIN facts}
<1>1. Len(facts) \in Nat \ {0} /\ DOMAIN facts = 1 .. Len(facts)
  BY EmptySeq, LenProperties
<1>2. layers # {} /\ layers \in SUBSET Layers
  <2>1. \A i \in 1 .. Len(facts) : facts[i].layer \in Layers
    BY ElementOfSeq DEF Named, Fact
  <2> QED BY <1>1, <2>1
<1> HIDE DEF layers
<1>3. \E l \in layers : \A m \in layers : l <= m
  BY <1>2, LayersAre, LeastOf
<1> QED BY <1>2, <1>3 DEF layers

(* The steps that write the client. *)
LEMMA ClientWriters ==
    ASSUME Next
    PROVE  \/ UNCHANGED client
           \/ \E t \in Trays, l \in {Layer, Layer + 1} : Report(t, l)
           \/ WriterGivesUp \/ NoteBind \/ SeedApply \/ ReleaseHold \/ Crash
BY DEF Next, Finish, Deliver, WriterCommits, WriterFails, LiveBody, BeginBind, CommitBind, RollBackBind,
       StartSeed, SeedBody, SeedFails, AbandonBody, CompleteBody, Leave, Cancel

(* The client stays a client, its hold within the limit. *)
LEMMA ClientStep == ASSUME JInv, Data, Next PROVE ClientOK'
<1> USE DEF Data
<1>1. client \in ClientRec /\ Cardinality(ReportsOf(client.reports)) <= PendingLimit
  BY DEF ClientOK
<1>2. CASE UNCHANGED client
  BY <1>2 DEF ClientOK
<1>3. ASSUME NEW t \in Trays, NEW l \in {Layer, Layer + 1}, Report(t, l) PROVE ClientOK'
  <2>1. Len(seen) < MaxReports
    BY <1>3 DEF Report
  <2>2. l \in Layers /\ Len(seen) + 1 \in Layers
    BY <2>1, LayerBound
  <2>3. CASE client.held
    <3>1. client' = HoldReport(client, t, l, Len(seen) + 1) BY <1>3, <2>3 DEF Report
    <3> QED BY <1>1, <2>2, <3>1, HoldType DEF ClientOK
  <2>4. CASE ~client.held
    <3>1. client' = Applied(client, t, l, Running) BY <1>3, <2>4 DEF Report
    <3>2. client' \in ClientRec BY <1>1, <2>2, <3>1, AppliedType DEF Feeds
    <3>3. client'.reports = client.reports BY <1>1, <3>1 DEF Applied, ClientRec
    <3> QED BY <1>1, <3>2, <3>3 DEF ClientOK
  <2> QED BY <2>3, <2>4
<1>4. CASE WriterGivesUp
  <2>1. replays # <<>> /\ replays[1].facts \in Seq(Named) \ {<<>>}
    BY <1>4 DEF WriterGivesUp, JInv, Batches, BatchOK
  <2>2. PICK l \in Layers : client' = UnknownFrom(client, l)
    BY <1>4, <2>1, FirstLayer DEF WriterGivesUp
  <2> QED BY <1>1, <2>2, UnknownFromType DEF ClientOK
<1>5. CASE NoteBind
  <2> DEFINE e == [kind |-> "change", tray |-> bind.tray, layer |-> Layer,
                   out |-> binding[bind.tray], new |-> bind.reel]
  <2>1. bind.tray \in Trays /\ bind.reel \in Reels /\ binding[bind.tray] \in Names
    BY <1>5 DEF NoteBind, JInv, Types
  <2>2. e \in Held /\ e.kind # "report"
    BY <2>1, LayerBound DEF Held, HeldChange
  <2>3. client' = client \/ client' = [client EXCEPT !.reports = Append(@, e)]
    BY <1>5 DEF NoteBind
  <2> HIDE DEF e
  <2>4. client.reports \in Seq(Held)
    BY <1>1 DEF ClientRec
  <2>5. Append(client.reports, e) \in Seq(Held)
    BY <2>2, <2>4, AppendProperties
  <2>6. ReportsOf(Append(client.reports, e)) = ReportsOf(client.reports)
    BY <2>2, <2>4, AppendedReports
  <2> QED BY <1>1, <2>3, <2>5, <2>6 DEF ClientOK, ClientRec
<1>6. CASE SeedApply
  <2>1. snapshot \in Snap
    BY <1>6 DEF SeedApply, At, SnapOK
  <2>2. client' = client \/ \E replay \in Acc : client' = Live(replay)
    <3> DEFINE c == [client EXCEPT !.log = snapshot.log,
                                   !.last = IF snapshot.log = <<>> THEN @ ELSE Last(snapshot.log).tray]
    <3>1. c \in ClientRec
      BY <1>1, <2>1, RestoredClient DEF Snap
    <3>2. Replayed(c, snapshot.bound, Running) \in Acc
      BY <2>1, <3>1, ReplayedType DEF Snap
    <3> QED BY <1>6, <3>2 DEF SeedApply
  <2> QED BY <1>1, <2>2, LiveType, NothingHeld, LimitAssumption DEF ClientOK
<1>7. CASE ReleaseHold
  <2>1. snapshot \in Snap
    BY <1>7 DEF ReleaseHold, SnapOK
  <2>2. client' = client \/ \E replay \in Acc : client' = Live(replay)
    <3> DEFINE c == [client EXCEPT !.log = <<>>, !.lostFrom = 0]
    <3>1. c \in ClientRec
      BY <1>1, ForgottenClient
    <3>2. Replayed(c, snapshot.bound, TRUE) \in Acc
      BY <2>1, <3>1, ReplayedType DEF Snap
    <3> QED BY <1>7, <3>2 DEF ReleaseHold
  <2> QED BY <1>1, <2>2, LiveType, NothingHeld, LimitAssumption DEF ClientOK
<1>8. CASE Crash
  <2>1. client' = FreshClient BY <1>8 DEF Crash
  <2>2. FreshClient \in ClientRec /\ FreshClient.reports = <<>>
    BY DEF FreshClient, ClientRec
  <2> QED BY <2>1, <2>2, NothingHeld, LimitAssumption DEF ClientOK
<1> QED BY <1>2, <1>3, <1>4, <1>5, <1>6, <1>7, <1>8, ClientWriters

(* The steps that write the journal. *)
LEMMA JournalWriters ==
    ASSUME Next
    PROVE  UNCHANGED journal \/ WriterCommits \/ WriterGivesUp \/ LiveBody
BY DEF Next, Report, Finish, Deliver, WriterFails, BeginBind, NoteBind, CommitBind, RollBackBind,
       StartSeed, SeedBody, SeedFails, SeedApply, AbandonBody, ReleaseHold, CompleteBody, Leave, Cancel, Crash

(* What a live callback writes. *)
CallbackRow == [tray |-> seen[queue[1].at].tray, layer |-> seen[queue[1].at].layer,
                reel |-> binding[seen[queue[1].at].tray], at |-> queue[1].at]

(* A live callback writes a row of a report it saw. *)
LEMMA CallbackRowType == ASSUME JInv, Data, LiveBody PROVE CallbackRow \in Row /\ queue[1].at \in 1 .. Len(seen)
<1>1. queue # <<>> /\ queue[1].kind = "live"
  BY DEF LiveBody, At, Holder
<1>2. 1 \in 1 .. Len(queue)
  <2>1. queue \in Seq(Tasks) BY DEF JInv, Holding
  <2>2. Len(queue) \in Nat \ {0} BY <1>1, <2>1, EmptySeq
  <2> QED BY <2>2
<1>3. queue[1].at \in 1 .. Len(seen)
  BY <1>1, <1>2 DEF Data, CallbackOK
<1>4. seen[queue[1].at] \in SeenRec /\ Len(seen) <= MaxReports
  BY <1>3, ElementOfSeq DEF Data, SeenOK
<1>5. queue[1].at \in Layers
  BY <1>3, <1>4, LayersAre DEF Data, SeenOK
<1>6. binding[seen[queue[1].at].tray] \in Names
  BY <1>4 DEF JInv, Types, SeenRec
<1> QED BY <1>3, <1>4, <1>5, <1>6 DEF CallbackRow, Row, SeenRec, Feeds

(* The journal stays a journal with a start. *)
LEMMA JournalStep == ASSUME JInv, Data, Next PROVE JournalOK'
<1>1. journal \in Seq(Row) \ {<<>>} /\ binding \in [Trays -> Names]
  BY DEF Data, JournalOK, JInv, Types
<1>2. CASE UNCHANGED journal
  BY <1>1, <1>2 DEF JournalOK
<1>3. CASE WriterCommits
  <2>1. replays # <<>> /\ replays[1].facts \in Seq(Named) \ {<<>>}
    BY <1>3 DEF WriterCommits, JInv, Batches, Data, BatchOK
  <2>2. journal' = BatchWritten(journal, replays[1].facts)
    BY <1>3 DEF WriterCommits
  <2> QED BY <1>1, <2>1, <2>2, BatchWrittenType DEF JournalOK
<1>4. CASE WriterGivesUp
  <2>1. replays # <<>> /\ replays[1].facts \in Seq(Named) \ {<<>>}
    BY <1>4 DEF WriterGivesUp, JInv, Batches, Data, BatchOK
  <2>2. PICK l \in Layers : journal' \in {journal, Recorded(journal, [tray |-> Unknown, layer |-> l, reel |-> NoReel, at |-> 0])}
    BY <1>4, <2>1, FirstLayer DEF WriterGivesUp
  <2>3. [tray |-> Unknown, layer |-> l, reel |-> NoReel, at |-> 0] \in Row
    BY LayersAre DEF Row, Feeds, Names
  <2> QED BY <1>1, <2>2, <2>3, RecordedType DEF JournalOK
<1>5. CASE LiveBody
  <2>1. journal' = journal \/ journal' = Recorded(journal, CallbackRow)
    BY <1>5 DEF LiveBody, CallbackRow
  <2> QED BY <1>1, <1>5, <2>1, CallbackRowType, RecordedType DEF JournalOK
<1> QED BY <1>2, <1>3, <1>4, <1>5, JournalWriters

(* The steps that touch the batches. *)
LEMMA ReplayWriters ==
    ASSUME Next
    PROVE  \/ UNCHANGED replays
           \/ WriterCommits \/ WriterFails \/ WriterGivesUp \/ SeedApply \/ ReleaseHold \/ Crash
BY DEF Next, Report, Finish, Deliver, LiveBody, BeginBind, NoteBind, CommitBind, RollBackBind,
       StartSeed, SeedBody, SeedFails, AbandonBody, CompleteBody, Leave, Cancel

(* A finished batch was the only one. *)
LEMMA LastBatch == ASSUME JInv, BatchDone, writer PROVE replays' = <<>>
<1>1. replays = <<replays[1]>>
  BY DEF JInv, Batches
<1> QED BY <1>1 DEF BatchDone

(* A new batch is the only one. *)
LEMMA NewBatch ==
    ASSUME JInv, client.held, NEW facts, QueueAndDeliver(facts)
    PROVE  replays' = IF facts = <<>> THEN <<>> ELSE <<[facts |-> facts, failures |-> 0]>>
<1>1. replays = <<>>
  BY DEF JInv, Batches
<1> QED BY <1>1 DEF QueueAndDeliver

(* A batch has facts. *)
LEMMA BatchStep == ASSUME JInv, Data, Next PROVE BatchOK'
<1> USE DEF Data
<1>1. CASE UNCHANGED replays
  BY <1>1 DEF BatchOK
<1>2. CASE WriterCommits
  BY <1>2, LastBatch DEF WriterCommits, BatchOK
<1>3. CASE WriterGivesUp
  BY <1>3, LastBatch DEF WriterGivesUp, BatchOK
<1>4. CASE WriterFails
  <2>1. replays = <<replays[1]>> /\ replays' = [replays EXCEPT ![1].failures = 1]
        /\ DOMAIN replays[1] = {"facts", "failures"}
    BY <1>4 DEF WriterFails, JInv, Batches
  <2>2. replays'[1].facts = replays[1].facts
    BY <2>1
  <2> QED BY <2>1, <2>2 DEF BatchOK
<1>5. CASE SeedApply
  <2> DEFINE c == [client EXCEPT !.log = snapshot.log,
                                 !.last = IF snapshot.log = <<>> THEN @ ELSE Last(snapshot.log).tray]
             facts == Replayed(c, snapshot.bound, Running).facts
  <2>1. snapshot \in Snap /\ client \in ClientRec
    BY <1>5 DEF SeedApply, At, SnapOK, ClientOK
  <2>2. c \in ClientRec
    BY <2>1, RestoredClient DEF Snap
  <2>3. facts \in Seq(Named)
    BY <2>1, <2>2, ReplayedType DEF Snap, Acc
  <2>4. UNCHANGED replays \/ (client.held /\ QueueAndDeliver(facts))
    BY <1>5 DEF SeedApply
  <2> HIDE DEF facts
  <2> QED BY <2>3, <2>4, NewBatch DEF BatchOK
<1>6. CASE ReleaseHold
  <2> DEFINE c == [client EXCEPT !.log = <<>>, !.lostFrom = 0]
             facts == Replayed(c, snapshot.bound, TRUE).facts
  <2>1. snapshot \in Snap /\ client \in ClientRec
    BY <1>6 DEF ReleaseHold, SnapOK, ClientOK
  <2>2. c \in ClientRec
    BY <2>1, ForgottenClient
  <2>3. facts \in Seq(Named)
    BY <2>1, <2>2, ReplayedType DEF Snap, Acc
  <2>4. UNCHANGED replays \/ (client.held /\ QueueAndDeliver(facts))
    BY <1>6 DEF ReleaseHold
  <2> HIDE DEF facts
  <2> QED BY <2>3, <2>4, NewBatch DEF BatchOK
<1>7. CASE Crash
  BY <1>7 DEF Crash, BatchOK
<1> QED BY <1>1, <1>2, <1>3, <1>4, <1>5, <1>6, <1>7, ReplayWriters

(* Only a report is seen. *)
LEMMA SeenWriters ==
    ASSUME Next
    PROVE  UNCHANGED seen \/ \E t \in Trays, l \in {Layer, Layer + 1} : Report(t, l)
BY DEF Next, Finish, Deliver, WriterCommits, WriterFails, WriterGivesUp, LiveBody, BeginBind, NoteBind, CommitBind,
       RollBackBind, StartSeed, SeedBody, SeedFails, SeedApply, AbandonBody, ReleaseHold, CompleteBody, Leave,
       Cancel, Crash, history

(* A report is one more. *)
LEMMA OneMoreSeen ==
    ASSUME JInv, Data, NEW t \in Trays, NEW l \in {Layer, Layer + 1}, Report(t, l)
    PROVE  /\ Len(seen') = Len(seen) + 1 /\ Len(seen) + 1 <= MaxReports /\ seen' \in Seq(SeenRec)
           /\ \A i \in 1 .. Len(seen) : seen'[i] = seen[i]
           /\ seen'[Len(seen) + 1] = [tray |-> t, layer |-> l, reels |-> ReelsNow(t)]
           /\ l \in Layers /\ l <= Len(seen) + 1
<1>1. seen' = Append(seen, [tray |-> t, layer |-> l, reels |-> ReelsNow(t)]) /\ Len(seen) < MaxReports
  BY DEF Report
<1>2. l \in Layers /\ l <= Len(seen) + 1 /\ Len(seen) \in Nat /\ Len(seen) + 1 <= MaxReports
  BY <1>1, LayerBound, LayersAre DEF Data, SeenOK
<1>3. [tray |-> t, layer |-> l, reels |-> ReelsNow(t)] \in SeenRec
  BY <1>2, ReelsAreNames DEF JInv, SeenRec
<1> QED BY <1>1, <1>2, <1>3, AppendProperties DEF Data, SeenOK

(* A print is never ahead of its reports. *)
LEMMA SeenStep == ASSUME JInv, Data, Next PROVE SeenOK'
<1>1. CASE UNCHANGED seen
  BY <1>1 DEF Data, SeenOK
<1>2. ASSUME NEW t \in Trays, NEW l \in {Layer, Layer + 1}, Report(t, l) PROVE SeenOK'
  <2>1. ASSUME NEW i \in 1 .. Len(seen) + 1 PROVE seen'[i].layer <= i
    <3>1. CASE i = Len(seen) + 1
      <4>1. seen'[Len(seen) + 1] = [tray |-> t, layer |-> l, reels |-> ReelsNow(t)] /\ l <= Len(seen) + 1
        BY <1>2, OneMoreSeen
      <4> QED BY <3>1, <4>1
    <3>2. CASE i # Len(seen) + 1
      <4>1. i \in 1 .. Len(seen) BY <3>2 DEF Data, SeenOK
      <4>2. seen'[i] = seen[i] BY <1>2, <4>1, OneMoreSeen
      <4>3. seen[i].layer <= i BY <4>1 DEF Data, SeenOK
      <4> QED BY <4>2, <4>3
    <3> QED BY <3>1, <3>2
  <2> QED BY <1>2, <2>1, OneMoreSeen DEF SeenOK
<1> QED BY <1>1, <1>2, SeenWriters

(* The counters stay within their bounds. *)
LEMMA CountsStep == ASSUME JInv, Data, Next PROVE CountsOK'
<1>1. finished \in BOOLEAN /\ astray \in BOOLEAN /\ joined \in 0 .. Len(seen) /\ binds \in 0 .. MaxBinds
      /\ faults \in 0 .. MaxFaults /\ Len(seen) \in Nat
  BY DEF Data, CountsOK, SeenOK
<1>2. faults' \in 0 .. MaxFaults
  <2>1. UNCHANGED faults \/ Fault
    BY DEF Next, Report, Finish, Deliver, WriterCommits, WriterFails, WriterGivesUp, LiveBody, BeginBind, NoteBind,
           CommitBind, RollBackBind, StartSeed, SeedBody, SeedFails, SeedApply, AbandonBody, ReleaseHold,
           CompleteBody, Leave, Cancel, Crash
  <2> QED BY <1>1, <2>1, BoundAssumption DEF Fault
<1>3. binds' \in 0 .. MaxBinds
  <2>1. UNCHANGED binds \/ (binds < MaxBinds /\ binds' = binds + 1)
    BY DEF Next, Report, Finish, Deliver, WriterCommits, WriterFails, WriterGivesUp, LiveBody, BeginBind, NoteBind,
           CommitBind, RollBackBind, StartSeed, SeedBody, SeedFails, SeedApply, AbandonBody, ReleaseHold,
           CompleteBody, Leave, Cancel, Crash
  <2> QED BY <1>1, <2>1, BoundAssumption
<1>4. finished' \in BOOLEAN
  BY <1>1 DEF Next, Report, Finish, Deliver, WriterCommits, WriterFails, WriterGivesUp, LiveBody, BeginBind, NoteBind,
           CommitBind, RollBackBind, StartSeed, SeedBody, SeedFails, SeedApply, AbandonBody, ReleaseHold,
           CompleteBody, Leave, Cancel, Crash
<1>5. astray' \in BOOLEAN
  <2>1. UNCHANGED astray \/ SeedBody \/ SeedApply
    BY DEF Next, Report, Finish, Deliver, WriterCommits, WriterFails, WriterGivesUp, LiveBody, BeginBind, NoteBind,
           CommitBind, RollBackBind, StartSeed, SeedFails, AbandonBody, ReleaseHold,
           CompleteBody, Leave, Cancel, Crash, history
  <2>2. CASE SeedBody BY <1>1, <2>2 DEF SeedBody
  <2>3. CASE SeedApply
    <3>1. astray' = astray \/ astray' = (astray \/ finished) BY <2>3 DEF SeedApply
    <3> QED BY <1>1, <3>1, Zenon
  <2> QED BY <1>1, <2>1, <2>2, <2>3
<1>6. joined' \in 0 .. Len(seen')
  <2>1. UNCHANGED joined \/ joined' = Len(seen)
    BY DEF Next, Report, Finish, Deliver, WriterCommits, WriterFails, WriterGivesUp, LiveBody, BeginBind, NoteBind,
           CommitBind, RollBackBind, StartSeed, SeedBody, SeedFails, SeedApply, AbandonBody, ReleaseHold,
           CompleteBody, Leave, Cancel, Crash, history
  <2>2. Len(seen') = Len(seen) \/ Len(seen') = Len(seen) + 1
    BY SeenWriters, OneMoreSeen
  <2> QED BY <1>1, <2>1, <2>2
<1> QED BY <1>2, <1>3, <1>4, <1>5, <1>6 DEF CountsOK

(* A snapshot that is about to be used was read by the last step, or stays. *)
LEMMA SnapshotStays ==
    ASSUME JInv, Next, pc'[1] \in {"apply", "release"}
    PROVE  UNCHANGED <<pc, snapshot>> \/ SeedBody \/ AbandonBody \/ CompleteBody
<1> SUFFICES ASSUME ~(SeedBody \/ AbandonBody \/ CompleteBody) PROVE UNCHANGED <<pc, snapshot>>
  OBVIOUS
<1>1. pc \in Programs
  BY DEF JInv, Holding
<1>2. \/ UNCHANGED <<pc, snapshot>>
      \/ pc' \in {Steps(TRUE), Steps(FALSE), <<"commit">>, <<"body">>}
      \/ pc' = [pc EXCEPT ![1] = "await"]
      \/ pc' = Tail(pc) /\ pc[1] \in {"deliver", "await", "apply", "release"}
  BY DEF Next, Report, Finish, Deliver, WriterCommits, WriterFails, WriterGivesUp, BatchDone, WriterEnds, At,
       LiveBody, BeginBind, NoteBind, CommitBind, RollBackBind, LeaveBind, StartSeed, SeedFails, SeedApply,
       ReleaseHold, QueueAndDeliver, Leave, Cancel, Crash, Release, Goto, Advance, Wait, lock, Steps
<1>3. pc[1] \in {"deliver", "await", "apply", "release"} => Tail(pc)[1] \notin {"apply", "release"}
  <2> SUFFICES ASSUME pc[1] \in {"deliver", "await", "apply", "release"} PROVE Tail(pc)[1] \notin {"apply", "release"}
    OBVIOUS
  <2>1. pc \in {<<"deliver", "body">>, <<"await", "body">>, <<"release", "deliver", "done">>,
                <<"await", "deliver", "done">>, <<"deliver", "done">>, <<"await", "done">>,
                <<"apply", "done">>, <<"release", "done">>}
    BY <1>1 DEF Programs, Completing, Entering
  <2>2. Tail(pc) \in {<<"body">>, <<"deliver", "done">>, <<"done">>}
    BY <2>1, Programme
  <2>3. \A p \in {<<"body">>, <<"deliver", "done">>, <<"done">>} : p[1] \notin {"apply", "release"}
    OBVIOUS
  <2> QED BY <2>2, <2>3
<1>4. [pc EXCEPT ![1] = "await"][1] = "await"
  BY <1>1 DEF Programs, Completing, Entering
<1>5. \A p \in {Steps(TRUE), Steps(FALSE), <<"commit">>, <<"body">>} : p[1] \notin {"apply", "release"}
  BY DEF Steps
<1> QED BY <1>2, <1>3, <1>4, <1>5

(* Whoever is about to replay has read a snapshot. *)
LEMMA SnapStep == ASSUME JInv, Data, Next PROVE SnapOK'
<1> SUFFICES ASSUME pc'[1] \in {"apply", "release"} PROVE snapshot' \in Snap
  BY DEF SnapOK
<1>1. pc \in Programs /\ journal \in Seq(Row) /\ binding \in [Trays -> Names] /\ client \in ClientRec
  BY DEF JInv, Holding, Types, Data, JournalOK, ClientOK
<1>2. CASE UNCHANGED <<pc, snapshot>>
  BY <1>2 DEF Data, SnapOK
<1>3. CASE SeedBody
  <2>1. RestoredLog \in Seq(Entry)
    BY <1>1, RestoredType
  <2> DEFINE named == IF client.last = None THEN <<>> ELSE <<Change(client.last, Layer)>>
  <2>2. named \in Seq(Entry)
    <3>1. client.last # None => Change(client.last, Layer) \in Entry
      BY <1>1, LayerBound DEF Data, Change, Entry, ClientRec
    <3> QED BY <3>1
  <2>3. snapshot' \in {[log |-> RestoredLog, bound |-> binding], [log |-> named, bound |-> binding]}
    BY <1>3 DEF SeedBody
  <2> HIDE DEF named
  <2> QED BY <1>1, <2>1, <2>2, <2>3 DEF Snap, Bound
<1>4. CASE AbandonBody \/ CompleteBody
  <2>1. [log |-> <<>>, bound |-> binding] \in Snap /\ [log |-> <<>>, bound |-> None] \in Snap
    BY <1>1 DEF Snap, Bound
  <2>2. snapshot' \in Snap \/ pc' = <<"deliver", "done">>
    BY <1>4, <2>1 DEF AbandonBody, CompleteBody, Goto
  <2> QED BY <2>2
<1> QED BY <1>2, <1>3, <1>4, SnapshotStays

-----------------------------------------------------------------------------
(* The tasks at the lock. *)

(* One more task waits at the lock. *)
LEMMA QueueAppended ==
    ASSUME queue \in Seq(Tasks), NEW task \in Tasks, queue' = Append(queue, task)
    PROVE  /\ Len(queue') = Len(queue) + 1 /\ Len(queue) \in Nat
           /\ \A i \in 1 .. Len(queue) : queue'[i] = queue[i]
           /\ queue'[Len(queue) + 1] = task
BY AppendProperties, LenProperties

(* The holder leaves the lock, the others move up. *)
LEMMA QueueLeft ==
    ASSUME queue \in Seq(Tasks), queue # <<>>, queue' = Tail(queue)
    PROVE  /\ Len(queue') = Len(queue) - 1 /\ Len(queue) \in Nat \ {0}
           /\ \A i \in 1 .. Len(queue') : queue'[i] = queue[i + 1] /\ i + 1 \in 1 .. Len(queue)
BY EmptySeq, LenProperties, HeadTailProperties

(* What a holder of each kind may still have to do. *)
Due == [live     |-> {}, bind |-> {<<"commit">>},
        seed     |-> {<<"apply", "done">>, <<"await", "done">>, <<"done">>},
        abandon  |-> {<<"release", "done">>, <<"await", "done">>, <<"done">>},
        complete |-> Completing]
DueOK == queue # <<>> => pc \in Entering \cup {<<"await", "body">>} \cup Due[queue[1].kind]

(* The holder goes on. *)
GoesOn ==
    /\ queue # <<>> /\ UNCHANGED queue
    /\ \/ pc[1] = "deliver" /\ pc' \in {Tail(pc), [pc EXCEPT ![1] = "await"]}
       \/ pc[1] = "await" /\ pc' = Tail(pc)
       \/ Holder("bind") /\ pc' = <<"commit">>
       \/ At("seed", "body") /\ pc' = <<"apply", "done">>
       \/ At("seed", "apply") /\ pc' \in {Tail(pc), [pc EXCEPT ![1] = "await"]}
       \/ At("abandon", "body") /\ pc' = <<"release", "done">>
       \/ pc[1] = "release" /\ pc' \in {Tail(pc), [pc EXCEPT ![1] = "await"]}
       \/ At("complete", "body") /\ pc' \in {<<"release", "deliver", "done">>, <<"deliver", "done">>}

(* How the lock and its holder's program may change. *)
LEMMA Arrives ==
    ASSUME JInv, Next
    PROVE  \/ UNCHANGED <<queue, pc>>
           \/ UNCHANGED pc /\ \E task \in Tasks : queue' = Append(queue, task)
           \/ queue # <<>> /\ queue' = Tail(queue) /\ pc' = Steps(replays # <<>>)
           \/ queue' = <<>> /\ pc' = <<"body">>
           \/ GoesOn
<1>1. ASSUME NEW t \in Trays, NEW l \in {Layer, Layer + 1}, Report(t, l)
      PROVE  UNCHANGED pc /\ (UNCHANGED queue \/ \E task \in Tasks : queue' = Append(queue, task))
  <2>1. [kind |-> "live", at |-> Len(seen) + 1] \in Tasks
    BY LenProperties DEF JInv, Types, Tasks
  <2> QED BY <1>1, <2>1 DEF Report, Enqueue
<1>2. CASE Finish \/ StartSeed \/ \E t \in Trays, r \in Reels, locked \in BOOLEAN : BeginBind(t, r, locked)
  BY <1>2 DEF Finish, StartSeed, BeginBind, Enqueue, Task, Tasks
<1>3. CASE LiveBody \/ SeedFails \/ Leave \/ Cancel \/ CommitBind \/ RollBackBind
  BY <1>3 DEF LiveBody, SeedFails, Leave, Cancel, CommitBind, RollBackBind, LeaveBind, At, Holder, Release, lock
<1>4. CASE Deliver \/ WriterCommits \/ WriterFails \/ WriterGivesUp
  BY <1>4 DEF Deliver, WriterCommits, WriterFails, WriterGivesUp, BatchDone, WriterEnds, Advance, Wait, Goto, GoesOn,
              JInv, Holding, Entering
<1>5. CASE NoteBind \/ SeedBody \/ SeedApply \/ AbandonBody \/ ReleaseHold \/ CompleteBody
  BY <1>5 DEF NoteBind, SeedBody, SeedApply, AbandonBody, ReleaseHold, CompleteBody, QueueAndDeliver,
              At, Holder, Advance, Wait, Goto, GoesOn
<1>6. CASE Crash
  BY <1>6 DEF Crash
<1> QED BY <1>1, <1>2, <1>3, <1>4, <1>5, <1>6 DEF Next

(* A holder has to do what its kind does. *)
LEMMA DueStep == ASSUME JInv, Data, DueOK, Next PROVE DueOK'
<1>1. queue \in Seq(Tasks) /\ pc \in Programs /\ (queue = <<>> => pc \in Entering)
  BY DEF JInv, Holding
<1>2. CASE UNCHANGED <<queue, pc>>
  BY <1>2 DEF DueOK
<1>3. ASSUME UNCHANGED pc, NEW task \in Tasks, queue' = Append(queue, task) PROVE DueOK'
  BY <1>1, <1>3, Arrival DEF DueOK
<1>4. CASE pc' = Steps(replays # <<>>) \/ pc' = <<"body">>
  BY <1>4 DEF DueOK, Steps, Entering
<1>5. CASE GoesOn
  <2>1. queue # <<>> /\ UNCHANGED queue
    BY <1>5 DEF GoesOn
  <2> DEFINE kind == queue[1].kind
  <2>2. kind \in {"live", "bind", "seed", "abandon", "complete"}
    <3>1. queue[1] \in Tasks BY <1>1, <2>1, EmptySeq, LenProperties, ElementOfSeq
    <3> QED BY <3>1 DEF Tasks
  <2>3. pc \in Entering \cup {<<"await", "body">>} \cup Due[kind]
    BY <2>1 DEF DueOK
  <2>4. \/ pc' = <<"body">> \/ pc' = <<"await", "body">>
        \/ kind = "bind" /\ pc' = <<"commit">>
        \/ kind = "seed" /\ pc' \in {<<"apply", "done">>, <<"await", "done">>, <<"done">>}
        \/ kind = "abandon" /\ pc' \in {<<"release", "done">>, <<"await", "done">>, <<"done">>}
        \/ kind = "complete" /\ pc' \in Completing
    <3> HIDE DEF kind
    <3>1. /\ pc = <<"commit">> => kind = "bind"
          /\ pc = <<"apply", "done">> => kind = "seed"
          /\ pc = <<"release", "done">> => kind = "abandon"
          /\ pc \in {<<"await", "done">>, <<"done">>} => kind \in {"seed", "abandon", "complete"}
          /\ pc \in {<<"release", "deliver", "done">>, <<"await", "deliver", "done">>, <<"deliver", "done">>}
                => kind = "complete"
      BY <2>2, <2>3 DEF Entering, Completing, Due
    <3>2. Holder("bind") => kind = "bind"
      BY DEF Holder, kind
    <3>3. /\ At("seed", "body") \/ At("seed", "apply") => kind = "seed"
          /\ At("abandon", "body") => kind = "abandon"
          /\ At("complete", "body") => kind = "complete"
      BY DEF At, Holder, kind
    <3>4. CASE pc = <<"deliver", "body">>
      BY <1>5, <3>1, <3>2, <3>3, <3>4, Programme DEF GoesOn, At, Completing
    <3>5. CASE pc = <<"body">>
      BY <1>5, <3>1, <3>2, <3>3, <3>5, Programme DEF GoesOn, At, Completing
    <3>6. CASE pc = <<"await", "body">>
      BY <1>5, <3>1, <3>2, <3>3, <3>6, Programme DEF GoesOn, At, Completing
    <3>7. CASE pc = <<"commit">>
      BY <1>5, <3>1, <3>2, <3>3, <3>7, Programme DEF GoesOn, At, Completing
    <3>8. CASE pc = <<"apply", "done">>
      BY <1>5, <3>1, <3>2, <3>3, <3>8, Programme DEF GoesOn, At, Completing
    <3>9. CASE pc = <<"release", "done">>
      BY <1>5, <3>1, <3>2, <3>3, <3>9, Programme DEF GoesOn, At, Completing
    <3>10. CASE pc = <<"await", "done">>
      BY <1>5, <3>1, <3>2, <3>3, <3>10, Programme DEF GoesOn, At, Completing
    <3>11. CASE pc = <<"done">>
      BY <1>5, <3>1, <3>2, <3>3, <3>11, Programme DEF GoesOn, At, Completing
    <3>12. CASE pc = <<"release", "deliver", "done">>
      BY <1>5, <3>1, <3>2, <3>3, <3>12, Programme DEF GoesOn, At, Completing
    <3>13. CASE pc = <<"await", "deliver", "done">>
      BY <1>5, <3>1, <3>2, <3>3, <3>13, Programme DEF GoesOn, At, Completing
    <3>14. CASE pc = <<"deliver", "done">>
      BY <1>5, <3>1, <3>2, <3>3, <3>14, Programme DEF GoesOn, At, Completing
    <3> QED BY <1>1, <3>4, <3>5, <3>6, <3>7, <3>8, <3>9, <3>10, <3>11, <3>12, <3>13, <3>14 DEF Programs, Completing, Entering
  <2>5. pc' \in Entering \cup {<<"await", "body">>} \cup Due[kind]
    BY <2>4 DEF Entering, Due
  <2> QED BY <2>1, <2>5 DEF DueOK
<1> QED BY <1>2, <1>3, <1>4, <1>5, Arrives

(* Every live callback carries a report that was seen. *)
LEMMA CallbackStep == ASSUME JInv, Data, Next PROVE CallbackOK'
<1>1. queue \in Seq(Tasks) /\ CallbackOK
  BY DEF JInv, Holding, Data
<1>2. Len(seen) \in Nat /\ Len(seen') \in Nat /\ Len(seen) <= Len(seen')
  <2>1. Len(seen) \in Nat
    BY DEF Data, SeenOK
  <2>2. Len(seen') = Len(seen) \/ Len(seen') = Len(seen) + 1
    BY SeenWriters, OneMoreSeen
  <2> QED BY <2>1, <2>2
<1>3. CASE UNCHANGED queue
  BY <1>1, <1>2, <1>3 DEF CallbackOK
<1>4. ASSUME NEW task \in Tasks, queue' = Append(queue, task), task.kind = "live" => task.at = Len(seen') /\ Len(seen') # 0
      PROVE  CallbackOK'
  <2> SUFFICES ASSUME NEW i \in 1 .. Len(queue) + 1, queue'[i].kind = "live" PROVE queue'[i].at \in 1 .. Len(seen')
    BY <1>1, <1>4, QueueAppended DEF CallbackOK
  <2>1. CASE i = Len(queue) + 1
    <3>1. queue'[i] = task BY <1>1, <1>4, <2>1, QueueAppended
    <3> QED BY <1>2, <1>4, <3>1
  <2>2. CASE i # Len(queue) + 1
    <3>1. i \in 1 .. Len(queue) /\ Len(queue) \in Nat BY <1>1, <2>2, LenProperties
    <3>2. queue'[i] = queue[i] BY <1>1, <1>4, <3>1, QueueAppended
    <3>3. queue[i].at \in 1 .. Len(seen) BY <1>1, <3>1, <3>2 DEF CallbackOK
    <3> QED BY <1>2, <3>2, <3>3
  <2> QED BY <2>1, <2>2
<1>5. CASE queue # <<>> /\ queue' = Tail(queue)
  <2>1. \A i \in 1 .. Len(queue') : queue'[i] = queue[i + 1] /\ i + 1 \in 1 .. Len(queue)
    BY <1>1, <1>5, QueueLeft
  <2>2. \A i \in 1 .. Len(queue) : queue[i].kind = "live" => queue[i].at \in 1 .. Len(seen')
    BY <1>1, <1>2 DEF CallbackOK
  <2> QED BY <2>1, <2>2 DEF CallbackOK
<1>6. CASE queue' = <<>>
  BY <1>6 DEF CallbackOK
<1>7. ASSUME NEW t \in Trays, NEW l \in {Layer, Layer + 1}, Report(t, l) PROVE CallbackOK'
  <2> DEFINE task == [kind |-> "live", at |-> Len(seen) + 1]
  <2>1. UNCHANGED queue \/ queue' = Append(queue, task)
    BY <1>7 DEF Report, Enqueue
  <2>2. Len(seen') = Len(seen) + 1
    BY <1>7, OneMoreSeen
  <2>3. task \in Tasks /\ (task.kind = "live" => task.at = Len(seen') /\ Len(seen') # 0)
    BY <1>2, <2>2 DEF Tasks
  <2> HIDE DEF task
  <2> QED BY <1>3, <1>4, <2>1, <2>3
<1>8. CASE ~\E t \in Trays, l \in {Layer, Layer + 1} : Report(t, l)
  <2>1. \/ UNCHANGED queue
        \/ queue # <<>> /\ queue' = Tail(queue)
        \/ queue' = <<>>
        \/ \E kind \in {"bind", "seed", "abandon", "complete"} : queue' = Append(queue, Task(kind))
    BY <1>8 DEF Next, Finish, Deliver, WriterCommits, WriterFails, WriterGivesUp,
         LiveBody, BeginBind, NoteBind, CommitBind, RollBackBind, LeaveBind, StartSeed, SeedBody, SeedFails, SeedApply,
         AbandonBody, ReleaseHold, CompleteBody, QueueAndDeliver, Leave, Cancel, Crash, Release, Goto, Advance, Wait,
         lock, At, Holder, Enqueue
  <2>2. \A kind \in {"bind", "seed", "abandon", "complete"} : Task(kind) \in Tasks /\ Task(kind).kind # "live"
    BY DEF Task, Tasks
  <2> QED BY <1>3, <1>4, <1>5, <1>6, <2>1, <2>2
<1> QED BY <1>7, <1>8

(* The seed's own task. *)

(* Nobody of the seed comes or leaves. *)
LEMMA SeedsUndisturbed ==
    ASSUME JInv, Data, UNCHANGED failures,
           \/ UNCHANGED queue /\ (UNCHANGED seeder \/ (seeder = "due" /\ seeder' = "gone"))
           \/ UNCHANGED seeder /\ \E task \in Tasks : queue' = Append(queue, task) /\ task.kind \notin {"seed", "abandon"}
    PROVE  SeedOK'
<1>1. queue \in Seq(Tasks) /\ SeedOK
  BY DEF JInv, Holding, Data
<1>2. CASE UNCHANGED queue /\ (UNCHANGED seeder \/ (seeder = "due" /\ seeder' = "gone"))
  BY <1>1, <1>2 DEF SeedOK, Seeds
<1>3. ASSUME UNCHANGED seeder, NEW task \in Tasks, queue' = Append(queue, task), task.kind \notin {"seed", "abandon"}
      PROVE  SeedOK'
  <2>1. /\ Len(queue') = Len(queue) + 1 /\ Len(queue) \in Nat
        /\ \A i \in 1 .. Len(queue) : queue'[i] = queue[i]
        /\ queue'[Len(queue) + 1] = task
    BY <1>1, <1>3, QueueAppended
  <2>2. \A i \in Seeds' : i \in Seeds /\ queue'[i] = queue[i]
    BY <1>3, <2>1 DEF Seeds
  <2> QED BY <1>1, <1>3, <2>2 DEF SeedOK
<1> QED BY <1>2, <1>3

(* The holder leaves: when it is of the seed, none of them is left. *)
LEMMA SeedsLeft ==
    ASSUME JInv, Data, queue # <<>>, queue' = Tail(queue),
           seeder' \in {"due", "queued", "gone"}, failures' \in 0 .. SeedRetries + 1,
           Holder("seed") \/ Holder("abandon") \/ UNCHANGED <<seeder, failures>>
    PROVE  SeedOK'
<1>1. queue \in Seq(Tasks) /\ SeedOK
  BY DEF JInv, Holding, Data
<1>2. \A i \in 1 .. Len(queue') : queue'[i] = queue[i + 1] /\ i + 1 \in 1 .. Len(queue) /\ i \in Nat
  BY <1>1, QueueLeft
<1>3. 1 \in 1 .. Len(queue)
  BY <1>1, EmptySeq, LenProperties
<1>4. \A i \in Seeds' : i + 1 \in Seeds /\ queue'[i] = queue[i + 1] /\ i \in 1 .. Len(queue')
  BY <1>2 DEF Seeds
<1>5. CASE Holder("seed") \/ Holder("abandon")
  <2>1. 1 \in Seeds BY <1>3, <1>5 DEF Seeds, Holder
  <2>2. Seeds' = {}
    <3> SUFFICES ASSUME NEW i \in Seeds' PROVE FALSE
      OBVIOUS
    <3>1. i + 1 = 1 BY <1>1, <1>4, <2>1 DEF SeedOK
    <3>2. i \in 1 .. Len(queue') BY <1>4
    <3> QED BY <3>1, <3>2
  <2> QED BY <2>2 DEF SeedOK
<1>6. CASE UNCHANGED <<seeder, failures>>
  <2>1. ASSUME NEW i \in Seeds', NEW j \in Seeds' PROVE i = j
    <3>1. i + 1 = j + 1 BY <1>1, <1>4 DEF SeedOK
    <3>2. i \in 1 .. Len(queue') /\ j \in 1 .. Len(queue') BY <1>4
    <3> QED BY <3>1, <3>2
  <2> QED BY <1>1, <1>4, <1>6, <2>1 DEF SeedOK
<1> QED BY <1>5, <1>6

(* At most one task of the seed is at the lock, within its budget. *)
LEMMA SeedStep == ASSUME JInv, DueOK, Data, Next PROVE SeedOK'
<1>1. queue \in Seq(Tasks) /\ SeedOK
  BY DEF JInv, Holding, Data
<1>2. CASE \/ Deliver \/ WriterCommits \/ WriterFails \/ WriterGivesUp \/ NoteBind
           \/ SeedBody \/ SeedApply \/ AbandonBody \/ ReleaseHold \/ CompleteBody
  <2>1. UNCHANGED <<queue, failures, seeder>>
    BY <1>2 DEF Deliver, WriterCommits, WriterFails, WriterGivesUp, NoteBind, SeedBody, SeedApply, AbandonBody,
         ReleaseHold, CompleteBody, QueueAndDeliver, Goto, Advance, Wait, tail
  <2> QED BY <2>1, SeedsUndisturbed
<1>3. ASSUME NEW t \in Trays, NEW l \in {Layer, Layer + 1}, Report(t, l) PROVE SeedOK'
  <2>1. [kind |-> "live", at |-> Len(seen) + 1] \in Tasks
    BY LenProperties DEF JInv, Types, Tasks
  <2> QED BY <1>3, <2>1, SeedsUndisturbed DEF Report, Enqueue, tail
<1>4. CASE Finish \/ \E t \in Trays, r \in Reels, locked \in BOOLEAN : BeginBind(t, r, locked)
  <2>1. Task("bind") \in Tasks /\ Task("complete") \in Tasks
        /\ Task("bind").kind = "bind" /\ Task("complete").kind = "complete"
    BY DEF Task, Tasks
  <2>2. UNCHANGED <<failures, seeder>>
        /\ (UNCHANGED queue \/ queue' = Append(queue, Task("bind")) \/ queue' = Append(queue, Task("complete")))
    BY <1>4 DEF Finish, BeginBind, Enqueue, tail
  <2> QED BY <2>1, <2>2, SeedsUndisturbed
<1>5. CASE StartSeed
  <2>1. UNCHANGED failures /\ seeder = "due"
    BY <1>5 DEF StartSeed
  <2>2. CASE UNCHANGED queue /\ seeder' = "gone"
    BY <2>1, <2>2, SeedsUndisturbed
  <2>3. CASE ~(UNCHANGED queue /\ seeder' = "gone")
    <3> DEFINE task == Task(IF failures > SeedRetries THEN "abandon" ELSE "seed")
    <3>1. queue' = Append(queue, task) /\ seeder' = "queued"
      BY <1>5, <2>3 DEF StartSeed, Enqueue
    <3>2. task \in Tasks /\ (task.kind = "seed" => failures <= SeedRetries)
      BY <1>1, LimitAssumption DEF Task, Tasks, SeedOK
    <3> HIDE DEF task
    <3>3. /\ Len(queue') = Len(queue) + 1 /\ Len(queue) \in Nat
          /\ \A i \in 1 .. Len(queue) : queue'[i] = queue[i]
          /\ queue'[Len(queue) + 1] = task
      BY <1>1, <3>1, <3>2, QueueAppended
    <3>4. Seeds = {} BY <1>1, <2>1 DEF SeedOK
    <3>5. \A i \in Seeds' : i = Len(queue) + 1
      BY <3>3, <3>4 DEF Seeds
    <3> QED BY <1>1, <2>1, <3>1, <3>2, <3>3, <3>5 DEF SeedOK
  <2> QED BY <2>2, <2>3
<1>6. CASE LiveBody \/ CommitBind \/ RollBackBind
  <2>1. UNCHANGED <<failures, seeder>> /\ (UNCHANGED queue \/ (queue # <<>> /\ queue' = Tail(queue)))
    BY <1>6 DEF LiveBody, CommitBind, RollBackBind, LeaveBind, At, Holder, Release, lock, tail
  <2> QED BY <1>1, <2>1, SeedsUndisturbed, SeedsLeft DEF SeedOK
<1>7. CASE SeedFails
  <2>1. Holder("seed") /\ queue # <<>> /\ queue' = Tail(queue) /\ failures' = failures + 1 /\ seeder' = "due"
    BY <1>7 DEF SeedFails, Holder, Release
  <2>2. failures <= SeedRetries
    <3>1. 1 \in Seeds BY <1>1, <2>1, EmptySeq, LenProperties DEF Seeds, Holder
    <3> QED BY <1>1, <2>1, <3>1 DEF SeedOK, Holder
  <2>3. failures' \in 0 .. SeedRetries + 1
    BY <1>1, <2>1, <2>2, LimitAssumption DEF SeedOK
  <2> QED BY <2>1, <2>3, SeedsLeft
<1>8. CASE Leave
  <2>1. queue # <<>> /\ queue' = Tail(queue) /\ UNCHANGED failures /\ seeder' \in {seeder, "gone"}
        /\ (Holder("complete") => UNCHANGED seeder)
    BY <1>8 DEF Leave, Release
  <2>2. Holder("seed") \/ Holder("abandon") \/ Holder("complete")
    <3>1. queue[1] \in Tasks BY <1>1, <2>1, EmptySeq, LenProperties, ElementOfSeq
    <3>2. pc[1] = "done" BY <1>8 DEF Leave
    <3>3. queue[1].kind \in {"live", "bind", "seed", "abandon", "complete"} BY <3>1 DEF Tasks
    <3>4. queue[1].kind \notin {"live", "bind"} BY <2>1, <3>2 DEF DueOK, Due, Entering
    <3> QED BY <2>1, <3>3, <3>4 DEF Holder
  <2> QED BY <1>1, <2>1, <2>2, SeedsLeft DEF SeedOK
<1>9. CASE Cancel
  <2>1. UNCHANGED failures /\ queue # <<>> /\ queue' = Tail(queue)
        /\ ((Holder("seed") /\ seeder' = "gone") \/ UNCHANGED seeder)
    BY <1>9 DEF Cancel, Holder, Release
  <2> QED BY <1>1, <2>1, SeedsLeft DEF SeedOK
<1>10. CASE Crash
  <2>1. queue' = <<>> /\ seeder' = "due" /\ failures' = 0 BY <1>10 DEF Crash
  <2> QED BY <2>1, LimitAssumption DEF SeedOK, Seeds
<1> QED BY <1>2, <1>3, <1>4, <1>5, <1>6, <1>7, <1>8, <1>9, <1>10 DEF Next

(* Every step keeps what the variables hold. *)
LEMMA DataStep == ASSUME JInv, DueOK, Data, Next PROVE DueOK' /\ Data'
BY ClientStep, JournalStep, BatchStep, SnapStep, SeenStep, CountsStep, CallbackStep, SeedStep, DueStep DEF Data

(* They hold it at the start. *)
LEMMA DataInit == Init => DueOK /\ Data
<1> SUFFICES ASSUME Init PROVE DueOK /\ Data
  OBVIOUS
<1>1. client = FreshClient /\ queue = <<>> /\ pc = <<"body">> /\ replays = <<>> /\ seen = <<>> /\ finished = FALSE
      /\ astray = FALSE /\ joined = 0 /\ binds = 0 /\ faults = 0 /\ seeder = "due" /\ failures = 0
  BY DEF Init
<1>2. ClientOK
  <2>1. FreshClient \in ClientRec /\ FreshClient.reports = <<>>
    BY DEF FreshClient, ClientRec
  <2> QED BY <1>1, <2>1, NothingHeld, LimitAssumption DEF ClientOK
<1>3. JournalOK
  <2>1. PICK t \in Trays : journal = <<[tray |-> t, layer |-> 0, reel |-> NoReel, at |-> 0]>>
    BY DEF Init
  <2>2. [tray |-> t, layer |-> 0, reel |-> NoReel, at |-> 0] \in Row
    BY LayersAre DEF Row, Feeds, Names
  <2> QED BY <2>1, <2>2 DEF JournalOK
<1>4. BatchOK /\ DueOK /\ CallbackOK
  BY <1>1, EmptySeq DEF BatchOK, DueOK, CallbackOK
<1>5. SnapOK
  BY <1>1 DEF SnapOK
<1>6. SeenOK /\ CountsOK
  <2>1. seen \in Seq(SeenRec) /\ Len(seen) = 0
    BY <1>1, EmptySeq
  <2>2. SeenOK
    BY <2>1, BoundAssumption DEF SeenOK
  <2>3. CountsOK
    <3>1. joined \in 0 .. Len(seen) BY <1>1, <2>1
    <3>2. binds \in 0 .. MaxBinds /\ faults \in 0 .. MaxFaults BY <1>1, BoundAssumption
    <3>3. finished \in BOOLEAN /\ astray \in BOOLEAN BY <1>1
    <3> QED BY <3>1, <3>2, <3>3 DEF CountsOK
  <2> QED BY <2>2, <2>3
<1>7. SeedOK
  BY <1>1, LimitAssumption DEF SeedOK, Seeds
<1> QED BY <1>2, <1>3, <1>4, <1>5, <1>6, <1>7 DEF Data

(* What they hold is the type invariant. *)
LEMMA DataTyped == JInv /\ Data => TypeOK
<1> SUFFICES ASSUME JInv, Data PROVE TypeOK
  OBVIOUS
<1>1. /\ DOMAIN client = {"held", "reports", "lostFrom", "log", "last"}
      /\ client.held \in BOOLEAN
      /\ client.reports \in Seq(HeldReport \cup HeldChange)
      /\ Cardinality(ReportsOf(client.reports)) <= PendingLimit
      /\ client.lostFrom \in Layers \cup {None}
      /\ client.log \in Seq(Entry) /\ client.last \in Feeds \cup {None}
  BY DEF Data, ClientOK, ClientRec, Held
<1>2. journal \in Seq([tray : Feeds, layer : Layers, reel : Names, at : Layers])
  BY DEF Data, JournalOK, Row
<1>3. /\ binding \in [Trays -> Names]
      /\ bind \in {None} \cup [tray : Trays, reel : Reels, locked : BOOLEAN, noted : BOOLEAN]
  BY DEF JInv, Types
<1>4. queue \in Seq([kind : {"live"}, at : Layers] \cup [kind : {"bind", "seed", "abandon", "complete"}])
  <2> DEFINE T == [kind : {"live"}, at : Layers] \cup [kind : {"bind", "seed", "abandon", "complete"}]
  <2>1. queue \in Seq(Tasks) /\ Len(queue) \in Nat
    BY LenProperties DEF JInv, Holding
  <2>2. ASSUME NEW i \in 1 .. Len(queue) PROVE queue[i] \in T
    <3>1. queue[i] \in Tasks BY <2>1, <2>2, ElementOfSeq
    <3>2. CASE queue[i] \in [kind : {"live"}, at : Nat]
      <4>1. queue[i].at \in 1 .. Len(seen) BY <3>2 DEF Data, CallbackOK
      <4>2. queue[i].at \in Layers BY <4>1, LayersAre DEF Data, SeenOK
      <4> QED BY <3>2, <4>2
    <3> QED BY <3>1, <3>2 DEF Tasks
  <2> HIDE DEF T
  <2>3. queue \in Seq(T)
    BY <2>1, <2>2, SeqDef
  <2> QED BY <2>3 DEF T
<1>5. pc \in Seq({"deliver", "await", "body", "apply", "release", "commit", "done"})
  <2> DEFINE T == {"deliver", "await", "body", "apply", "release", "commit", "done"}
  <2>1. \A a, b, d \in T : <<a>> \in Seq(T) /\ <<a, b>> \in Seq(T) /\ <<a, b, d>> \in Seq(T)
    OBVIOUS
  <2>2. Entering \subseteq Seq(T)
    BY <2>1 DEF Entering
  <2>3. Completing \subseteq Seq(T)
    BY <2>1, <2>2 DEF Completing
  <2>4. Programs \subseteq Seq(T)
    BY <2>1, <2>3 DEF Programs
  <2>5. pc \in Seq(T)
    BY <2>4 DEF JInv, Holding
  <2> QED BY <2>5
<1>6. \A i \in DOMAIN replays : replays[i].facts \in Seq(Fact) /\ replays[i].failures \in 0 .. 1
  <2>1. replays # <<>> => replays[1].facts \in Seq(Fact)
    <3>1. Seq(Named) \subseteq Seq(Fact) BY DEF Named
    <3> QED BY <3>1 DEF Data, BatchOK
  <2> QED BY <2>1 DEF JInv, Batches
<1>7. seeder \in {"due", "queued", "gone"} /\ failures \in 0 .. SeedRetries + 1
  BY DEF Data, SeedOK
<1>8. {finished, writer, settled, astray} \subseteq BOOLEAN
  BY DEF Data, CountsOK, JInv, Types
<1>9. joined \in 0 .. Len(seen) /\ binds \in 0 .. MaxBinds /\ faults \in 0 .. MaxFaults
  BY DEF Data, CountsOK
<1> QED BY <1>1, <1>2, <1>3, <1>4, <1>5, <1>6, <1>7, <1>8, <1>9 DEF TypeOK

-----------------------------------------------------------------------------
(* The order of what is on its way to the journal. *)

(* A sequence of rows, facts, held entries or tasks names its reports in     *)
(* their order.                                                            *)
InOrder(q) == \A i, j \in DOMAIN q : i < j /\ q[i].at # 0 /\ q[j].at # 0 => q[i].at < q[j].at

Ats(q)  == {q[i].at : i \in DOMAIN q} \ {0}
Written == Ats(journal)
Waiting == IF replays = <<>> THEN {} ELSE Ats(replays[1].facts)
HeldAts == {client.reports[i].at : i \in ReportsOf(client.reports)}
Lives   == {i \in DOMAIN queue : queue[i].kind = "live"}
Called  == {queue[i].at : i \in Lives}

(* A batch that waits without a writer, or for one a holder started anew,   *)
(* has failed before; at a body none waits.                                *)
Second ==
    /\ ~writer \/ pc = <<"await", "body">> => Tried
    /\ pc = <<"body">> => replays = <<>>

Ahead(A, B) == \A a \in A, b \in B : a < b

InHoldOrder(held) == \A i, j \in ReportsOf(held) : i < j => held[i].at < held[j].at
CallsInOrder == \A i, j \in Lives : i < j => queue[i].at < queue[j].at

Order ==
    /\ InOrder(journal) /\ (replays # <<>> => InOrder(replays[1].facts))
    /\ InHoldOrder(client.reports) /\ CallsInOrder
    /\ Ahead(Written, Waiting) /\ Ahead(Written, Called) /\ Ahead(Waiting, Called)
    /\ client.held => Ahead(Written, HeldAts) /\ Lives = {}
    /\ Written \cup Waiting \cup HeldAts \subseteq 1 .. Len(seen)

-----------------------------------------------------------------------------
(* The reels a report may be named with. *)

ChangesOf(q, t) == {j \in DOMAIN q : q[j].kind = "change" /\ q[j].tray = t}
LastChange(q, t, c) == c \in ChangesOf(q, t) /\ \A d \in ChangesOf(q, t) : d <= c
NextChange(q, i, c) ==
    /\ c \in ChangesOf(q, q[i].tray) /\ i < c
    /\ \A d \in ChangesOf(q, q[i].tray) : i < d => c <= d
Open(q, i) == \A d \in ChangesOf(q, q[i].tray) : d < i

(* What follows speaks of held entries q, the reports s seen so far, the     *)
(* bindings b, the assignment n under way and the reels u rolled back.     *)
Fits(r, at, s, u) == r \in s[at].reels \cup u
Noted(n, t) == n # None /\ n.noted /\ n.tray = t

(* A held report fits what its tray holds and is about to hold, until a     *)
(* change is recorded after it; then it fits what that change took out.    *)
ToldAt(i, q, s, b, n, u) ==
    /\ q[i].at \in 1 .. Len(s)
    /\ Open(q, i) => /\ Fits(b[q[i].tray], q[i].at, s, u)
                     /\ Noted(n, q[i].tray) => Fits(n.reel, q[i].at, s, u)
    /\ \A c \in DOMAIN q : NextChange(q, i, c) => Fits(q[c].out, q[i].at, s, u)
Told(q, s, b, n, u) == \A i \in ReportsOf(q) : ToldAt(i, q, s, b, n, u)

(* The last change of a tray brought in what the tray holds or is about to  *)
(* hold, or was rolled back.                                               *)
AssignedTo(t, q, b, n, u) ==
    /\ Noted(n, t) => ChangesOf(q, t) # {}
    /\ \A c \in DOMAIN q : LastChange(q, t, c) =>
           IF Noted(n, t) THEN q[c].new = n.reel ELSE q[c].new \in u \cup {b[t]}
Assigned(q, b, n, u) == \A t \in Trays : AssignedTo(t, q, b, n, u)

(* A tray without a change holds what was read as its binding. *)
Read(q, b, bound) == bound # None => \A t \in Trays : ChangesOf(q, t) = {} => bound[t] = b[t]

HeldNames ==
    client.held =>
        /\ Told(client.reports, seen, binding, bind, undone)
        /\ Assigned(client.reports, binding, bind, undone)
        /\ pc[1] \in {"apply", "release"} => Read(client.reports, binding, snapshot.bound)

(* A fact of a batch fits its report. *)
NamedRight(f, s, u) == f.at # 0 /\ f.reel # AtWrite => f.at \in 1 .. Len(s) /\ Fits(f.reel, f.at, s, u)
BatchNames == replays # <<>> => \A k \in DOMAIN replays[1].facts : NamedRight(replays[1].facts[k], seen, undone)

(* A writer ends with the batch written, given up, or failed once. *)
LEMMA WriterResult ==
    ASSUME JInv, WriterCommits \/ WriterFails \/ WriterGivesUp
    PROVE  /\ writer /\ ~writer' /\ replays # <<>>
           /\ replays' = <<>> \/ (replays[1].failures = 0 /\ Tried')
<1>1. writer /\ replays = <<replays[1]>> /\ DOMAIN replays[1] = {"facts", "failures"} /\ replays # <<>>
  BY DEF WriterCommits, WriterFails, WriterGivesUp, JInv, Batches
<1>2. CASE WriterFails
  <2>1. replays' = <<[replays[1] EXCEPT !.failures = 1]>> BY <1>1, <1>2 DEF WriterFails
  <2> QED BY <1>1, <1>2, <2>1 DEF WriterFails, WriterEnds, Tried
<1>3. CASE WriterCommits \/ WriterGivesUp
  <2>1. BatchDone BY <1>3 DEF WriterCommits, WriterGivesUp
  <2>2. replays' = <<>> BY <1>1, <2>1, LastBatch
  <2>3. ~(Len(replays) > 1)
    <3>1. PICK batch : replays = <<batch>> BY <1>1
    <3>2. Len(<<batch>>) = 1 OBVIOUS
    <3> QED BY <3>1, <3>2
  <2> QED BY <1>1, <2>1, <2>2, <2>3 DEF BatchDone, WriterEnds
<1> QED BY <1>2, <1>3

(* No holder but a writer's reaches its body with a batch of no failure. *)
LEMMA SecondStep == ASSUME JInv, Data, Second, Next PROVE Second'
<1>1. pc \in Programs /\ (pc[1] = "await" => writer) /\ (writer => replays # <<>>)
  BY DEF JInv, Holding, Batches
<1>2. CASE UNCHANGED <<replays, writer, pc>>
  BY <1>2 DEF Second, Tried
<1>3. CASE UNCHANGED <<replays, writer>> /\ pc' = Steps(replays # <<>>)
  BY <1>3 DEF Second, Tried, Steps
<1>4. CASE \/ \E t \in Trays, l \in {Layer, Layer + 1} : Report(t, l)
           \/ Finish \/ StartSeed
           \/ \E t \in Trays, r \in Reels, locked \in BOOLEAN : BeginBind(t, r, locked)
  BY <1>2, <1>4 DEF Report, Finish, StartSeed, BeginBind
<1>5. CASE LiveBody \/ SeedFails \/ Leave \/ Cancel \/ CommitBind \/ RollBackBind
  BY <1>2, <1>3, <1>5 DEF LiveBody, SeedFails, Leave, Cancel, CommitBind, RollBackBind, LeaveBind, Release, lock
<1>6. CASE NoteBind \/ SeedBody \/ AbandonBody \/ CompleteBody
  <2>1. UNCHANGED <<replays, writer>>
        /\ (UNCHANGED pc \/ pc' \in {<<"commit">>, <<"apply", "done">>, <<"release", "done">>,
                                     <<"release", "deliver", "done">>, <<"deliver", "done">>})
    BY <1>6 DEF NoteBind, SeedBody, AbandonBody, CompleteBody, Goto
  <2> QED BY <2>1 DEF Second, Tried
<1>7. CASE Deliver
  <2>1. UNCHANGED replays /\ ~writer /\ pc[1] = "deliver"
    BY <1>7 DEF Deliver
  <2>2. replays = <<>> \/ (writer' /\ Tried)
    BY <1>7, <2>1 DEF Deliver, Second
  <2>3. Tried' BY <2>1, <2>2 DEF Tried
  <2>4. replays # <<>> => pc' = [pc EXCEPT ![1] = "await"]
    BY <1>7 DEF Deliver, Wait, Goto
  <2>5. [pc EXCEPT ![1] = "await"] # <<"body">>
    BY <1>1 DEF Programs, Completing, Entering
  <2> QED BY <2>1, <2>3, <2>4, <2>5 DEF Second
<1>8. CASE WriterCommits \/ WriterFails \/ WriterGivesUp
  <2>1. writer /\ ~writer' /\ replays # <<>> /\ (replays' = <<>> \/ (replays[1].failures = 0 /\ Tried'))
    BY <1>8, WriterResult
  <2>2. Tried' BY <2>1 DEF Tried
  <2>3. ASSUME pc' = <<"body">> PROVE replays' = <<>>
    <3>1. pc = <<"await", "body">>
      <4>1. pc # <<"body">> BY <2>1 DEF Second
      <4>2. pc[1] = "await" /\ pc' = Tail(pc)
        BY <1>8, <2>1, <2>3, <4>1 DEF WriterCommits, WriterFails, WriterGivesUp, BatchDone, WriterEnds, JInv, Batches
      <4>3. pc \in {<<"await", "body">>, <<"await", "deliver", "done">>, <<"await", "done">>}
        BY <1>1, <4>2 DEF Programs, Completing, Entering
      <4> QED BY <2>3, <4>2, <4>3, Programme
    <3>2. replays[1].failures = 1 BY <2>1, <3>1 DEF Second, Tried
    <3> QED BY <2>1, <3>2
  <2> QED BY <2>2, <2>3 DEF Second
<1>9. CASE SeedApply \/ ReleaseHold
  <2>1. pc[1] \in {"apply", "release"}
    BY <1>9 DEF SeedApply, ReleaseHold, At
  <2>2. pc \in {<<"apply", "done">>, <<"release", "done">>, <<"release", "deliver", "done">>}
    BY <1>1, <2>1 DEF Programs, Completing, Entering
  <2>3. pc' = Tail(pc) \/ pc' = [pc EXCEPT ![1] = "await"]
    BY <1>9 DEF SeedApply, ReleaseHold, QueueAndDeliver, Advance, Wait, Goto
  <2>4. pc' \notin {<<"body">>, <<"await", "body">>}
    <3>1. pc' \in {<<"done">>, <<"deliver", "done">>, <<"await", "done">>, <<"await", "deliver", "done">>}
      BY <2>2, <2>3, Programme
    <3> QED BY <3>1
  <2>5. UNCHANGED <<replays, writer>> \/ writer' = (replays' # <<>>)
    BY <1>9 DEF SeedApply, ReleaseHold, QueueAndDeliver
  <2> QED BY <2>4, <2>5 DEF Second, Tried
<1>10. CASE Crash
  BY <1>10 DEF Crash, Second, Tried
<1> QED BY <1>4, <1>5, <1>6, <1>7, <1>8, <1>9, <1>10 DEF Next

-----------------------------------------------------------------------------
(* What writing and replaying do to the order. *)

(* A later report at the end keeps the order. *)
LEMMA AppendInOrder ==
    ASSUME NEW S, NEW q \in Seq(S), NEW e \in S, InOrder(q), e.at # 0 => \A a \in Ats(q) : a < e.at
    PROVE  InOrder(Append(q, e)) /\ Ats(Append(q, e)) \subseteq Ats(q) \cup ({e.at} \ {0})
<1> DEFINE grown == Append(q, e)
<1>1. /\ grown \in Seq(S) /\ Len(grown) = Len(q) + 1 /\ Len(q) \in Nat
      /\ \A i \in 1 .. Len(q) : grown[i] = q[i]
      /\ grown[Len(q) + 1] = e
  BY AppendProperties, LenProperties
<1> HIDE DEF grown
<1>2. DOMAIN grown = 1 .. Len(q) + 1 /\ DOMAIN q = 1 .. Len(q)
  BY <1>1, LenProperties
<1>3. ASSUME NEW i \in DOMAIN grown PROVE \/ i = Len(q) + 1 /\ grown[i] = e
                                          \/ i \in DOMAIN q /\ grown[i] = q[i]
  BY <1>1, <1>2
<1>4. \A i \in DOMAIN q : q[i].at # 0 => q[i].at \in Ats(q)
  BY DEF Ats
<1>5. InOrder(grown)
  <2> SUFFICES ASSUME NEW i \in DOMAIN grown, NEW j \in DOMAIN grown, i < j, grown[i].at # 0, grown[j].at # 0
               PROVE  grown[i].at < grown[j].at
    BY DEF InOrder
  <2>1. i \in DOMAIN q /\ grown[i] = q[i]
    BY <1>2, <1>3
  <2>2. CASE j = Len(q) + 1 /\ grown[j] = e
    BY <1>4, <2>1, <2>2
  <2>3. CASE j \in DOMAIN q /\ grown[j] = q[j]
    BY <2>1, <2>3 DEF InOrder
  <2> QED BY <1>3, <2>2, <2>3
<1>6. Ats(grown) \subseteq Ats(q) \cup ({e.at} \ {0})
  <2> SUFFICES ASSUME NEW i \in DOMAIN grown, grown[i].at # 0 PROVE grown[i].at \in Ats(q) \cup ({e.at} \ {0})
    BY DEF Ats
  <2> QED BY <1>3, <1>4
<1> QED BY <1>5, <1>6 DEF grown

(* One more row in order. *)
LEMMA RecordedInOrder ==
    ASSUME NEW rows \in Seq(Row) \ {<<>>}, NEW row \in Row, InOrder(rows), row.at # 0 => \A a \in Ats(rows) : a < row.at
    PROVE  InOrder(Recorded(rows, row)) /\ Ats(Recorded(rows, row)) \subseteq Ats(rows) \cup ({row.at} \ {0})
<1>1. Recorded(rows, row) = rows \/ Recorded(rows, row) = Append(rows, row)
  BY DEF Recorded
<1>2. CASE Recorded(rows, row) = rows
  BY <1>2
<1>3. CASE Recorded(rows, row) = Append(rows, row)
  <2>1. rows \in Seq(Row) OBVIOUS
  <2> QED BY <1>3, <2>1, AppendInOrder
<1> QED BY <1>1, <1>2, <1>3

(* A batch is written after what the journal holds, in its own order.       *)
LEMMA BatchInOrder ==
    ASSUME binding \in [Trays -> Names], NEW written \in Seq(Row) \ {<<>>}, NEW facts \in Seq(Named),
           InOrder(written), InOrder(facts), Ahead(Ats(written), Ats(facts))
    PROVE  /\ InOrder(BatchWritten(written, facts))
           /\ Ats(BatchWritten(written, facts)) \subseteq Ats(written) \cup Ats(facts)
<1>1. PICK f : Writes(f, written, facts)
  BY BatchUnfolds
<1> DEFINE N == Len(facts)
           Sofar(i) == Ats(written) \cup {a \in Ats(facts) : \E k \in 1 .. i : facts[k].at = a}
           g == [i \in 0 .. N |-> <<i, f[i]>>]
           T == {p \in (0 .. N) \X (Seq(Row) \ {<<>>}) : InOrder(p[2]) /\ Ats(p[2]) \subseteq Sofar(p[1])}
<1>2. N \in Nat /\ DOMAIN facts = 1 .. N /\ \A i \in 1 .. N : facts[i] \in Named
  BY ElementOfSeq, LenProperties
<1>3. f \in [0 .. N -> Seq(Row) \ {<<>>}] /\ f[0] = written /\ \A i \in 1 .. N : f[i] = FactWritten(f[i - 1], facts[i])
      /\ BatchWritten(written, facts) = f[N]
  BY <1>1 DEF Writes
<1>4. g[0] \in T
  BY <1>2, <1>3
<1>5. ASSUME NEW i \in 1 .. N, g[i - 1] \in T PROVE g[i] \in T
  <2>1. i - 1 \in 0 .. N /\ i \in 0 .. N
    BY <1>2
  <2>2. f[i - 1] \in Seq(Row) \ {<<>>} /\ InOrder(f[i - 1]) /\ Ats(f[i - 1]) \subseteq Sofar(i - 1)
    BY <1>5, <2>1
  <2>3. f[i] = FactWritten(f[i - 1], facts[i]) /\ f[i] \in Seq(Row) \ {<<>>} /\ facts[i] \in Named
    BY <1>2, <1>3, <2>1
  <2> DEFINE row == [tray |-> facts[i].tray, layer |-> facts[i].layer, at |-> facts[i].at,
                     reel |-> IF facts[i].reel = AtWrite THEN binding[facts[i].tray] ELSE facts[i].reel]
  <2>4. row \in Row /\ row.at = facts[i].at
    <3>1. (IF facts[i].reel = AtWrite THEN binding[facts[i].tray] ELSE facts[i].reel) \in Names
      BY <2>3 DEF Named, Fact
    <3> QED BY <2>3, <3>1 DEF Named, Fact, Row
  <2>5. f[i] = f[i - 1] \/ f[i] = Recorded(f[i - 1], row)
    BY <2>3 DEF FactWritten
  <2> HIDE DEF row
  <2>6. facts[i].at # 0 => \A a \in Sofar(i - 1) : a < facts[i].at
    <3> SUFFICES ASSUME facts[i].at # 0, NEW a \in Sofar(i - 1) PROVE a < facts[i].at
      OBVIOUS
    <3>1. facts[i].at \in Ats(facts)
      BY <1>2 DEF Ats
    <3>2. CASE a \in Ats(written)
      BY <3>1, <3>2 DEF Ahead
    <3>3. CASE a \in Ats(facts) /\ \E k \in 1 .. i - 1 : facts[k].at = a
      <4>1. PICK k \in 1 .. i - 1 : facts[k].at = a /\ a # 0
        BY <3>3 DEF Ats
      <4>2. k \in DOMAIN facts /\ k < i
        BY <1>2, <4>1
      <4> QED BY <1>2, <4>1, <4>2 DEF InOrder
    <3> QED BY <3>2, <3>3
  <2>7. Sofar(i - 1) \subseteq Sofar(i)
    <3>1. 1 .. i - 1 \subseteq 1 .. i BY <1>2
    <3> QED BY <3>1
  <2>8. {facts[i].at} \ {0} \subseteq Sofar(i)
    BY <1>2 DEF Ats
  <2> HIDE DEF Sofar
  <2>9. InOrder(f[i]) /\ Ats(f[i]) \subseteq Sofar(i)
    <3>1. CASE f[i] = f[i - 1]
      BY <2>2, <2>7, <3>1
    <3>2. CASE f[i] = Recorded(f[i - 1], row)
      <4>1. row.at # 0 => \A a \in Ats(f[i - 1]) : a < row.at
        BY <2>2, <2>4, <2>6
      <4>2. InOrder(f[i]) /\ Ats(f[i]) \subseteq Ats(f[i - 1]) \cup ({row.at} \ {0})
        BY <2>2, <2>4, <3>2, <4>1, RecordedInOrder
      <4> QED BY <2>2, <2>4, <2>7, <2>8, <4>2
    <3> QED BY <2>5, <3>1, <3>2
  <2> QED BY <2>1, <2>3, <2>9
<1>6. N \in 0 .. N /\ \A i \in 0 .. N : g[i] \in T
  <2>1. N \in 0 .. N BY <1>2
  <2> HIDE DEF g, T, N
  <2>2. \A i \in 0 .. N : g[i] \in T
    BY ONLY <1>2, <1>4, <1>5, Along
  <2> QED BY <2>1, <2>2
<1>7. InOrder(f[N]) /\ Ats(f[N]) \subseteq Sofar(N)
  <2>1. g[N] = <<N, f[N]>> /\ g[N] \in T
    BY <1>6
  <2> HIDE DEF g, Sofar, N
  <2> QED BY <2>1
<1>8. Sofar(N) \subseteq Ats(written) \cup Ats(facts)
  OBVIOUS
<1>9. BatchWritten(written, facts) = f[N]
  BY <1>1 DEF Writes
<1> HIDE DEF Sofar, N
<1> QED BY <1>7, <1>8, <1>9

(* The facts of a replay up to held entry i: each with a report is that of   *)
(* one of these entries, in their order.                                   *)
Replaying(facts, held, bound, i) ==
    /\ InOrder(facts)
    /\ \A k \in DOMAIN facts : facts[k].at # 0 =>
           \E r \in ReportsOf(held) : /\ r <= i /\ facts[k].at = held[r].at
                                      /\ facts[k].reel = IdentityAt(held, r, bound)

(* One more entry replayed in order. *)
LEMMA EntryInOrder ==
    ASSUME NEW held \in Seq(Held), InHoldOrder(held), NEW bound \in Bound, NEW running,
           NEW i \in 1 .. Len(held), NEW acc \in Acc, Replaying(acc.facts, held, bound, i - 1)
    PROVE  Replaying(EntryReplayed(acc, held, i, bound, running).facts, held, bound, i)
<1> DEFINE e == held[i]
           new == EntryReplayed(acc, held, i, bound, running).facts
           Of(f) == f.at # 0 => f.at = e.at /\ i \in ReportsOf(held) /\ f.reel = IdentityAt(held, i, bound)
<1>1. acc.facts \in Seq(Named) /\ e \in Held /\ i \in DOMAIN held /\ Len(held) \in Nat
  BY ElementOfSeq, LenProperties DEF Acc
<1>2. new \in Seq(Named)
  BY <1>1, EntryReplayedType DEF Acc
<1>3. \/ new = acc.facts
      \/ \E f : new = Append(acc.facts, f) /\ Of(f)
  <2>1. CASE e.kind = "change"
    <3> DEFINE f == [kind |-> "held_assignment", tray |-> e.tray, layer |-> e.layer, reel |-> e.new, at |-> 0]
    <3>1. new = acc.facts \/ new = Append(acc.facts, f)
      BY <2>1 DEF EntryReplayed, Acc
    <3>2. Of(f)
      OBVIOUS
    <3> HIDE DEF f, new, Of
    <3> QED BY <3>1, <3>2
  <2>2. CASE e.kind # "change"
    <3> DEFINE f == [kind |-> "tray_change", tray |-> e.tray, layer |-> e.layer,
                     reel |-> IdentityAt(held, i, bound), at |-> e.at]
    <3>1. new = acc.facts \/ new = Append(acc.facts, f)
      BY <2>2 DEF EntryReplayed
    <3>2. e.kind = "report"
      BY <1>1, <2>2 DEF Held, HeldReport, HeldChange
    <3>3. Of(f)
      BY <1>1, <3>2 DEF ReportsOf
    <3> HIDE DEF f, new, Of
    <3> QED BY <3>1, <3>3
  <2> QED BY <2>1, <2>2
<1>4. \A k \in DOMAIN acc.facts : acc.facts[k].at # 0 =>
        \E r \in ReportsOf(held) : /\ r <= i /\ r < i /\ acc.facts[k].at = held[r].at
                                   /\ acc.facts[k].reel = IdentityAt(held, r, bound)
  <2>1. ReportsOf(held) \subseteq Nat BY ReportsFinite
  <2> QED BY <1>1, <2>1 DEF Replaying
<1> HIDE DEF new
<1>5. CASE new = acc.facts
  BY <1>4, <1>5 DEF Replaying, new
<1>6. ASSUME NEW f, new = Append(acc.facts, f), Of(f) PROVE Replaying(new, held, bound, i)
  <2>1. /\ Len(new) = Len(acc.facts) + 1 /\ Len(acc.facts) \in Nat
        /\ DOMAIN new = 1 .. Len(acc.facts) + 1 /\ DOMAIN acc.facts = 1 .. Len(acc.facts)
        /\ \A k \in 1 .. Len(acc.facts) : new[k] = acc.facts[k]
        /\ new[Len(acc.facts) + 1] = f
    BY <1>1, <1>2, <1>6, AppendProperties, LenProperties
  <2>2. f \in Named
    BY <1>2, <2>1, ElementOfSeq
  <2>3. f.at # 0 => \A a \in Ats(acc.facts) : a < f.at
    <3> SUFFICES ASSUME f.at # 0, NEW k \in DOMAIN acc.facts, acc.facts[k].at # 0 PROVE acc.facts[k].at < f.at
      BY DEF Ats
    <3>1. PICK r \in ReportsOf(held) : r < i /\ acc.facts[k].at = held[r].at
      BY <1>4
    <3>2. i \in ReportsOf(held) /\ f.at = held[i].at
      BY <1>6
    <3> QED BY <3>1, <3>2 DEF InHoldOrder
  <2>4. InOrder(new)
    BY <1>1, <1>6, <2>2, <2>3, AppendInOrder DEF Replaying
  <2>5. ASSUME NEW k \in DOMAIN new, new[k].at # 0
        PROVE  \E r \in ReportsOf(held) : /\ r <= i /\ new[k].at = held[r].at
                                          /\ new[k].reel = IdentityAt(held, r, bound)
    <3>1. CASE k = Len(acc.facts) + 1
      <4>1. new[k] = f BY <2>1, <3>1
      <4>2. i <= i BY <1>1
      <4> QED BY <1>6, <2>5, <4>1, <4>2
    <3>2. CASE k # Len(acc.facts) + 1
      <4>1. k \in DOMAIN acc.facts /\ new[k] = acc.facts[k] BY <2>1, <3>2
      <4> QED BY <1>4, <2>5, <4>1
    <3> QED BY <3>1, <3>2
  <2> QED BY <2>4, <2>5 DEF Replaying
<1> QED BY <1>3, <1>5, <1>6 DEF new

(* The loss stated first names no report. *)
LEMMA LossInOrder ==
    ASSUME NEW c \in ClientRec, NEW bound, NEW running
    PROVE  Replaying(LossStated(c, running).facts, c.reports, bound, 0)
<1> DEFINE facts == LossStated(c, running).facts
<1>1. facts = <<>> \/ \E from : facts = <<[kind |-> "tray_change", tray |-> Unknown, layer |-> from,
                                            reel |-> NoReel, at |-> 0]>>
  BY DEF LossStated
<1>2. \A i \in DOMAIN facts : facts[i].at = 0
  <2> HIDE DEF facts
  <2>1. CASE facts = <<>>
    BY <2>1
  <2>2. ASSUME NEW from, facts = <<[kind |-> "tray_change", tray |-> Unknown, layer |-> from, reel |-> NoReel, at |-> 0]>>
        PROVE  \A i \in DOMAIN facts : facts[i].at = 0
    <3> DEFINE f == [kind |-> "tray_change", tray |-> Unknown, layer |-> from, reel |-> NoReel, at |-> 0]
    <3>1. f.at = 0
      OBVIOUS
    <3>2. facts = <<f>>
      BY <2>2
    <3> HIDE DEF f
    <3>3. \A i \in DOMAIN <<f>> : <<f>>[i] = f
      OBVIOUS
    <3> QED BY <3>1, <3>2, <3>3
  <2> QED BY <1>1, <2>1, <2>2
<1> HIDE DEF facts
<1> QED BY <1>2 DEF Replaying, InOrder, facts

(* Every fact of a replay with a report is that of a held one, under the    *)
(* reel it was observed with; they come in the order of the hold.          *)
LEMMA ReplayedFacts ==
    ASSUME NEW c \in ClientRec, InHoldOrder(c.reports), NEW bound \in Bound, NEW running
    PROVE  Replaying(Replayed(c, bound, running).facts, c.reports, bound, Len(c.reports))
<1>1. PICK f : Replays(f, c, bound, running)
  BY ReplayUnfolds
<1> DEFINE N == Len(c.reports)
           g == [i \in 0 .. N |-> <<i, f[i]>>]
           T == {p \in (0 .. N) \X Acc : Replaying(p[2].facts, c.reports, bound, p[1])}
<1>2. N \in Nat /\ c.reports \in Seq(Held)
  BY LenProperties DEF ClientRec
<1>3. f \in [0 .. N -> Acc] /\ f[0] = LossStated(c, running) /\ Replayed(c, bound, running) = f[N]
      /\ \A i \in 1 .. N : f[i] = EntryReplayed(f[i - 1], c.reports, i, bound, running)
  BY <1>1 DEF Replays
<1>4. g[0] \in T
  <2>1. g[0] = <<0, f[0]>> /\ 0 \in 0 .. N /\ f[0] \in Acc BY <1>2, <1>3
  <2>2. Replaying(f[0].facts, c.reports, bound, 0) BY <1>3, LossInOrder
  <2> QED BY <2>1, <2>2
<1>5. ASSUME NEW i \in 1 .. N, g[i - 1] \in T PROVE g[i] \in T
  <2>1. i - 1 \in 0 .. N /\ i \in 0 .. N
    BY <1>2
  <2>2. g[i - 1] = <<i - 1, f[i - 1]>> /\ g[i] = <<i, f[i]>>
    BY <2>1
  <2>3. f[i - 1] \in Acc /\ Replaying(f[i - 1].facts, c.reports, bound, i - 1)
    BY <1>5, <2>2
  <2>4. f[i] \in Acc /\ f[i] = EntryReplayed(f[i - 1], c.reports, i, bound, running)
    BY <1>3, <2>1
  <2>5. Replaying(f[i].facts, c.reports, bound, i)
    BY <1>2, <2>3, <2>4, EntryInOrder
  <2> HIDE DEF g
  <2> QED BY <2>1, <2>2, <2>4, <2>5
<1>6. N \in 0 .. N /\ \A i \in 0 .. N : g[i] \in T
  <2>1. N \in 0 .. N BY <1>2
  <2> HIDE DEF g, T, N
  <2>2. \A i \in 0 .. N : g[i] \in T
    BY ONLY <1>2, <1>4, <1>5, Along
  <2> QED BY <2>1, <2>2
<1>7. g[N] = <<N, f[N]>> /\ g[N] \in T
  BY <1>6
<1>8. Replaying(f[N].facts, c.reports, bound, N)
  <2> HIDE DEF g, N
  <2> QED BY <1>7
<1> QED BY <1>3, <1>8

(* The hold keeps the order of its reports, whatever it drops.             *)
LEMMA RemovedEntries ==
    ASSUME NEW q \in Seq(Held), NEW o \in ReportsOf(q)
    PROVE  LET r     == RemoveAt(q, o)
               Was(k) == IF k < o THEN k ELSE k + 1
           IN  /\ DOMAIN r = 1 .. Len(q) - 1 /\ DOMAIN q = 1 .. Len(q) /\ Len(q) \in Nat /\ o \in 1 .. Len(q)
               /\ \A k \in DOMAIN r : Was(k) \in DOMAIN q /\ r[k] = q[Was(k)] /\ Was(k) # o
               /\ \A i, j \in DOMAIN r : i < j <=> Was(i) < Was(j)
               /\ \A m \in DOMAIN q : m # o => \E k \in DOMAIN r : Was(k) = m
<1> DEFINE r == RemoveAt(q, o)
           Was(k) == IF k < o THEN k ELSE k + 1
<1>1. o \in 1 .. Len(q) /\ Len(q) \in Nat /\ DOMAIN q = 1 .. Len(q)
  BY ReportsFinite, LenProperties
<1>2. r \in Seq(Held) /\ Len(r) = Len(q) - 1 /\ \A k \in 1 .. Len(q) - 1 : r[k] = q[Was(k)]
  BY <1>1, RemovedAt
<1> HIDE DEF r
<1>3. DOMAIN r = 1 .. Len(q) - 1
  BY <1>2, LenProperties
<1>4. \A k \in DOMAIN r : Was(k) \in DOMAIN q /\ r[k] = q[Was(k)] /\ Was(k) # o
  <2>1. \A k \in 1 .. Len(q) - 1 : Was(k) \in 1 .. Len(q) /\ Was(k) # o
    BY <1>1
  <2> QED BY <1>1, <1>2, <1>3, <2>1
<1>5. \A i, j \in DOMAIN r : i < j <=> Was(i) < Was(j)
  BY <1>1, <1>3
<1>6. ASSUME NEW m \in DOMAIN q, m # o PROVE \E k \in DOMAIN r : Was(k) = m
  <2>1. CASE m < o
    <3>1. m \in DOMAIN r /\ Was(m) = m BY <1>1, <1>3, <2>1
    <3> QED BY <3>1
  <2>2. CASE ~(m < o)
    <3>1. m - 1 \in DOMAIN r /\ Was(m - 1) = m BY <1>1, <1>3, <1>6, <2>2
    <3> QED BY <3>1
  <2> QED BY <2>1, <2>2
<1> QED BY <1>1, <1>3, <1>4, <1>5, <1>6 DEF r

(* The hold after a report: as it was, or with the report at its end, and    *)
(* then perhaps without one of its reports.                                *)
LEMMA HoldGrows ==
    ASSUME ClientOK, NEW t \in Trays, NEW l \in Layers, NEW at \in Layers
    PROVE  LET new   == HoldReport(client, t, l, at).reports
               grown == Append(client.reports, Reported(t, l, at))
           IN  \/ new = client.reports \/ new = grown
               \/ \E o \in ReportsOf(grown) : new = RemoveAt(grown, o)
BY HoldCases DEF ClientOK

(* A hold with one more entry, entry by entry. *)
LEMMA GrownEntries ==
    ASSUME NEW q \in Seq(Held), NEW e \in Held
    PROVE  LET grown == Append(q, e)
           IN  /\ grown \in Seq(Held) /\ Len(q) \in Nat
               /\ DOMAIN grown = 1 .. Len(q) + 1 /\ DOMAIN q = 1 .. Len(q)
               /\ \A i \in 1 .. Len(q) : grown[i] = q[i]
               /\ grown[Len(q) + 1] = e
               /\ ReportsOf(grown) = ReportsOf(q) \cup (IF e.kind = "report" THEN {Len(q) + 1} ELSE {})
               /\ ReportsOf(q) \subseteq 1 .. Len(q)
BY AppendProperties, LenProperties, AppendedReports, ReportsFinite

(* Without one of its entries a hold is in order still.                     *)
LEMMA RemovedInOrder ==
    ASSUME NEW q \in Seq(Held), NEW o \in ReportsOf(q), InHoldOrder(q)
    PROVE  LET r == RemoveAt(q, o)
           IN  InHoldOrder(r) /\ {r[i].at : i \in ReportsOf(r)} \subseteq {q[i].at : i \in ReportsOf(q)}
<1> DEFINE r == RemoveAt(q, o)
           Was(k) == IF k < o THEN k ELSE k + 1
<1>1. /\ \A k \in DOMAIN r : Was(k) \in DOMAIN q /\ r[k] = q[Was(k)]
      /\ \A i, j \in DOMAIN r : i < j <=> Was(i) < Was(j)
  BY RemovedEntries
<1>2. \A k \in ReportsOf(r) : k \in DOMAIN r /\ Was(k) \in ReportsOf(q) /\ r[k] = q[Was(k)]
  BY <1>1 DEF ReportsOf
<1> HIDE DEF r, Was
<1> QED BY <1>1, <1>2 DEF InHoldOrder, r

(* One more report in a hold is in order. *)
LEMMA ReportInOrder ==
    ASSUME ClientOK, SeenOK, NEW t \in Trays, NEW l \in Layers, NEW at \in Layers, InHoldOrder(client.reports),
           \A a \in HeldAts : a < at
    PROVE  LET new == HoldReport(client, t, l, at).reports
           IN  InHoldOrder(new) /\ {new[i].at : i \in ReportsOf(new)} \subseteq HeldAts \cup {at}
<1> DEFINE new == HoldReport(client, t, l, at).reports
           q == client.reports
           e == Reported(t, l, at)
           grown == Append(q, e)
<1>1. q \in Seq(Held) /\ e \in Held /\ e.kind = "report" /\ e.at = at
  BY ReportedType DEF ClientOK, ClientRec, Reported
<1>2. new = q \/ new = grown \/ \E o \in ReportsOf(grown) : new = RemoveAt(grown, o)
  BY HoldGrows
<1> HIDE DEF q, e, new
<1>3. /\ grown \in Seq(Held) /\ Len(q) \in Nat
      /\ \A i \in 1 .. Len(q) : grown[i] = q[i]
      /\ grown[Len(q) + 1] = e
      /\ ReportsOf(grown) = ReportsOf(q) \cup {Len(q) + 1}
      /\ ReportsOf(q) \subseteq 1 .. Len(q)
  BY <1>1, GrownEntries
<1> HIDE DEF grown
<1>4. InHoldOrder(grown)
  <2> SUFFICES ASSUME NEW i \in ReportsOf(grown), NEW j \in ReportsOf(grown), i < j PROVE grown[i].at < grown[j].at
    BY DEF InHoldOrder
  <2>1. i \in ReportsOf(q) /\ i \in 1 .. Len(q)
    BY <1>3
  <2>2. grown[i] = q[i] /\ q[i].at \in HeldAts
    BY <1>3, <2>1 DEF HeldAts, q
  <2>3. CASE j = Len(q) + 1
    BY <1>1, <1>3, <2>2, <2>3
  <2>4. CASE j \in ReportsOf(q)
    <3>1. grown[j] = q[j] BY <1>3, <2>4
    <3> QED BY <2>1, <2>2, <2>4, <3>1 DEF InHoldOrder, q
  <2> QED BY <1>3, <2>3, <2>4
<1>5. {grown[i].at : i \in ReportsOf(grown)} \subseteq HeldAts \cup {at}
  <2> SUFFICES ASSUME NEW i \in ReportsOf(grown) PROVE grown[i].at \in HeldAts \cup {at}
    OBVIOUS
  <2>1. CASE i \in ReportsOf(q)
    BY <1>3, <2>1 DEF HeldAts, q
  <2> QED BY <1>1, <1>3, <2>1
<1>6. CASE new = q
  BY <1>6 DEF HeldAts, q, new
<1>7. CASE new = grown
  BY <1>4, <1>5, <1>7 DEF new
<1>8. ASSUME NEW o \in ReportsOf(grown), new = RemoveAt(grown, o)
      PROVE  InHoldOrder(new) /\ {new[i].at : i \in ReportsOf(new)} \subseteq HeldAts \cup {at}
  <2>1. InHoldOrder(new) /\ {new[i].at : i \in ReportsOf(new)} \subseteq {grown[i].at : i \in ReportsOf(grown)}
    BY <1>3, <1>4, <1>8, RemovedInOrder
  <2> QED BY <1>5, <2>1
<1> QED BY <1>2, <1>6, <1>7, <1>8 DEF new

-----------------------------------------------------------------------------
(* What the steps do to the order. *)

(* Tasks that carry no report come, tasks go. *)
NoCall ==
    \/ UNCHANGED queue
    \/ \E task \in Tasks : task.kind # "live" /\ queue' = Append(queue, task)
    \/ queue # <<>> /\ queue' = Tail(queue)
    \/ queue' = <<>>

(* No new callback: those that wait stay in order. *)
LEMMA CallsKept ==
    ASSUME JInv, CallsInOrder, NoCall
    PROVE  CallsInOrder' /\ Called' \subseteq Called /\ (Lives = {} => Lives' = {})
<1>1. queue \in Seq(Tasks) /\ DOMAIN queue = 1 .. Len(queue) /\ Len(queue) \in Nat
  BY LenProperties DEF JInv, Holding
<1>2. CASE UNCHANGED queue
  BY <1>2 DEF CallsInOrder, Called, Lives
<1>3. ASSUME NEW task \in Tasks, task.kind # "live", queue' = Append(queue, task)
      PROVE  CallsInOrder' /\ Called' \subseteq Called /\ (Lives = {} => Lives' = {})
  <2>1. /\ DOMAIN queue' = 1 .. Len(queue) + 1
        /\ \A i \in 1 .. Len(queue) : queue'[i] = queue[i]
        /\ queue'[Len(queue) + 1] = task
    BY <1>1, <1>3, AppendProperties, LenProperties
  <2>2. \A i \in Lives' : i \in Lives /\ queue'[i] = queue[i]
    BY <1>1, <1>3, <2>1 DEF Lives
  <2> QED BY <2>2 DEF CallsInOrder, Called
<1>4. CASE queue # <<>> /\ queue' = Tail(queue)
  <2>1. /\ DOMAIN queue' = 1 .. Len(queue) - 1
        /\ \A i \in DOMAIN queue' : i \in Nat /\ i + 1 \in DOMAIN queue /\ queue'[i] = queue[i + 1]
    BY <1>1, <1>4, QueueLeft, HeadTailProperties, LenProperties
  <2>2. \A i \in Lives' : i \in Nat /\ i + 1 \in Lives /\ queue'[i] = queue[i + 1]
    BY <2>1 DEF Lives
  <2>3. \A i, j \in Lives' : i < j => i + 1 < j + 1
    BY <2>2
  <2> QED BY <2>2, <2>3 DEF CallsInOrder, Called
<1>5. CASE queue' = <<>>
  BY <1>5 DEF CallsInOrder, Called, Lives
<1> QED BY <1>2, <1>3, <1>4, <1>5 DEF NoCall

(* Every callback is of a report seen. *)
LEMMA CalledSeen == ASSUME JInv, CallbackOK PROVE Called \subseteq 1 .. Len(seen)
BY LenProperties DEF JInv, Holding, CallbackOK, Called, Lives

(* All that is on its way was seen. *)
LEMMA OrderedNumbers ==
    ASSUME JInv, Data, Order
    PROVE  /\ Len(seen) \in Nat
           /\ Written \subseteq 1 .. Len(seen) /\ Waiting \subseteq 1 .. Len(seen)
           /\ HeldAts \subseteq 1 .. Len(seen) /\ Called \subseteq 1 .. Len(seen)
BY CalledSeen DEF Order, Data, SeenOK

(* Nothing is written, replayed or reported, or only what was to be dropped. *)
LEMMA OrderKept ==
    ASSUME JInv, Data, Order, NoCall, UNCHANGED seen,
           InOrder(journal'), Written' \subseteq Written,
           replays' # <<>> => InOrder(replays'[1].facts), Waiting' \subseteq Waiting,
           InHoldOrder(client'.reports), HeldAts' \subseteq HeldAts, client'.held => client.held
    PROVE  Order'
<1>1. CallsInOrder' /\ Called' \subseteq Called /\ (Lives = {} => Lives' = {})
  BY CallsKept DEF Order
<1>2. Ahead(Written', Waiting') /\ Ahead(Written', Called') /\ Ahead(Waiting', Called')
      /\ (client'.held => Ahead(Written', HeldAts'))
  BY <1>1 DEF Order, Ahead
<1>3. Written' \cup Waiting' \cup HeldAts' \subseteq 1 .. Len(seen')
  BY DEF Order
<1> QED BY <1>1, <1>2, <1>3 DEF Order

(* A report comes after all that is on its way. *)
LEMMA OrderByReport ==
    ASSUME JInv, Data, Order, NEW t \in Trays, NEW l \in {Layer, Layer + 1}, Report(t, l)
    PROVE  Order'
<1> DEFINE at == Len(seen) + 1
<1>1. /\ Len(seen') = Len(seen) + 1 /\ at \in Layers /\ l \in Layers
  BY OneMoreSeen, LayerBound DEF Report, Data
<1>2. /\ Len(seen) \in Nat
      /\ Written \subseteq 1 .. Len(seen) /\ Waiting \subseteq 1 .. Len(seen)
      /\ HeldAts \subseteq 1 .. Len(seen) /\ Called \subseteq 1 .. Len(seen)
  BY OrderedNumbers
<1>3. UNCHANGED <<journal, replays>>
  BY DEF Report
<1>4. Written' = Written /\ Waiting' = Waiting /\ InOrder(journal') /\ (replays' # <<>> => InOrder(replays'[1].facts))
  BY <1>3 DEF Written, Waiting, Order
<1>5. CASE client.held
  <2>1. UNCHANGED queue /\ client' = HoldReport(client, t, l, at)
    BY <1>5 DEF Report
  <2>2. \A a \in HeldAts : a < at
    BY <1>2
  <2>3. InHoldOrder(client'.reports) /\ HeldAts' \subseteq HeldAts \cup {at}
    <3> DEFINE new == HoldReport(client, t, l, at).reports
    <3>1. ClientOK /\ SeenOK /\ InHoldOrder(client.reports)
      BY DEF Data, Order
    <3>2. InHoldOrder(new) /\ {new[i].at : i \in ReportsOf(new)} \subseteq HeldAts \cup {at}
      BY <1>1, <2>2, <3>1, ReportInOrder
    <3>3. client'.reports = new
      BY <2>1
    <3> HIDE DEF new
    <3> QED BY <3>2, <3>3 DEF HeldAts
  <2>4. Lives' = Lives /\ Called' = Called /\ CallsInOrder'
    BY <2>1 DEF Lives, Called, Order, CallsInOrder
  <2>5. Ahead(Written', HeldAts')
    <3>1. \A a \in Written : a < at BY <1>2
    <3> QED BY <1>4, <1>5, <2>3, <3>1 DEF Order, Ahead
  <2>6. Written' \cup Waiting' \cup HeldAts' \subseteq 1 .. Len(seen')
    <3>1. 1 .. Len(seen) \subseteq 1 .. Len(seen') /\ at \in 1 .. Len(seen') BY <1>1, <1>2
    <3> QED BY <1>2, <1>4, <2>3, <3>1
  <2> QED BY <1>4, <1>5, <2>3, <2>4, <2>5, <2>6 DEF Order
<1>6. CASE ~client.held
  <2> DEFINE task == [kind |-> "live", at |-> at]
  <2>1. client' = Applied(client, t, l, Running) /\ (UNCHANGED queue \/ queue' = Append(queue, task))
    BY <1>6 DEF Report, Enqueue
  <2>2. client'.reports = client.reports /\ client'.held = client.held
    BY <2>1 DEF Applied, Data, ClientOK, ClientRec
  <2>3. HeldAts' = HeldAts /\ InHoldOrder(client'.reports)
    BY <2>2 DEF HeldAts, Order
  <2>4. queue \in Seq(Tasks) /\ task \in Tasks
    BY <1>2 DEF JInv, Holding, Tasks
  <2>5. CallsInOrder' /\ Called' \subseteq Called \cup {at}
    <3>1. CASE UNCHANGED queue
      BY <3>1 DEF Lives, Called, Order, CallsInOrder
    <3>2. CASE queue' = Append(queue, task)
      <4>1. /\ DOMAIN queue' = 1 .. Len(queue) + 1 /\ DOMAIN queue = 1 .. Len(queue) /\ Len(queue) \in Nat
            /\ \A i \in 1 .. Len(queue) : queue'[i] = queue[i]
            /\ queue'[Len(queue) + 1].at = at
        BY <2>4, <3>2, AppendProperties, LenProperties
      <4>2. \A i \in Lives' : (i \in Lives /\ i \in 1 .. Len(queue) /\ queue'[i] = queue[i] /\ queue[i].at < at)
                              \/ (i = Len(queue) + 1 /\ queue'[i].at = at)
        <5>1. \A i \in Lives : queue[i].at \in Called BY DEF Called
        <5>2. \A a \in Called : a < at BY <1>2
        <5> QED BY <4>1, <5>1, <5>2 DEF Lives
      <4>3. CallsInOrder'
        <5> SUFFICES ASSUME NEW i \in Lives', NEW j \in Lives', i < j PROVE queue'[i].at < queue'[j].at
          BY DEF CallsInOrder
        <5>1. j <= Len(queue) + 1 /\ i \in 1 .. Len(queue) + 1 BY <4>1 DEF Lives
        <5>2. i \in Lives /\ queue'[i] = queue[i] /\ queue[i].at < at BY <4>1, <4>2, <5>1
        <5> QED BY <4>2, <5>2 DEF Order, CallsInOrder
      <4>4. Called' \subseteq Called \cup {at}
        BY <4>2 DEF Called
      <4> QED BY <4>3, <4>4
    <3> QED BY <2>1, <3>1, <3>2
  <2>6. Ahead(Written', Called') /\ Ahead(Waiting', Called')
    <3>1. (\A a \in Written : a < at) /\ (\A a \in Waiting : a < at) BY <1>2
    <3> QED BY <1>4, <2>5, <3>1 DEF Order, Ahead
  <2>7. Written' \cup Waiting' \cup HeldAts' \subseteq 1 .. Len(seen')
    <3>1. 1 .. Len(seen) \subseteq 1 .. Len(seen') BY <1>1, <1>2
    <3> QED BY <1>2, <1>4, <2>3, <3>1
  <2>8. Ahead(Written', Waiting')
    BY <1>4 DEF Order
  <2> QED BY <1>4, <1>6, <2>2, <2>3, <2>5, <2>6, <2>7, <2>8 DEF Order
<1>7. client.held \in BOOLEAN
  BY DEF JInv, Types
<1> QED BY <1>5, <1>6, <1>7

(* The batch is written: its reports are the last of the journal. *)
LEMMA OrderByWriter ==
    ASSUME JInv, Data, Order, WriterCommits \/ WriterGivesUp
    PROVE  Order'
<1>1. writer /\ replays # <<>> /\ replays' = <<>> /\ replays[1].facts \in Seq(Named) /\ ~client.held
  BY LastBatch DEF WriterCommits, WriterGivesUp, JInv, Batches, Data, BatchOK
<1>2. UNCHANGED <<queue, seen>>
  BY DEF WriterCommits, WriterGivesUp, history
<1>3. client'.held = client.held /\ client'.reports = client.reports
  <2>1. CASE WriterCommits BY <2>1 DEF WriterCommits
  <2>2. CASE WriterGivesUp
    BY <2>2 DEF WriterGivesUp, UnknownFrom, Data, ClientOK, ClientRec
  <2> QED BY <2>1, <2>2
<1>4. Waiting' = {} /\ Waiting = Ats(replays[1].facts) /\ Lives' = Lives /\ Called' = Called /\ HeldAts' = HeldAts
  BY <1>1, <1>2, <1>3 DEF Waiting, Lives, Called, HeldAts
<1>5. journal \in Seq(Row) \ {<<>>} /\ binding \in [Trays -> Names]
  BY DEF Data, JournalOK, JInv, Types
<1>6. InOrder(journal') /\ Written' \subseteq Written \cup Waiting
  <2>1. CASE WriterCommits
    <3>1. journal' = BatchWritten(journal, replays[1].facts)
      BY <2>1 DEF WriterCommits
    <3>2. InOrder(journal) /\ InOrder(replays[1].facts) /\ Ahead(Ats(journal), Ats(replays[1].facts))
      BY <1>1, <1>4 DEF Order, Written
    <3> QED BY <1>1, <1>4, <1>5, <3>1, <3>2, BatchInOrder DEF Written
  <2>2. CASE WriterGivesUp
    <3>1. replays[1].facts \in Seq(Named) \ {<<>>}
      BY <1>1 DEF Data, BatchOK
    <3>2. PICK m \in Layers : journal' \in {journal, Recorded(journal, [tray |-> Unknown, layer |-> m, reel |-> NoReel, at |-> 0])}
      BY <2>2, <3>1, FirstLayer DEF WriterGivesUp
    <3> DEFINE row == [tray |-> Unknown, layer |-> m, reel |-> NoReel, at |-> 0]
    <3>3. row \in Row /\ row.at = 0
      BY LayersAre DEF Row, Feeds, Names
    <3>4. journal' = journal \/ journal' = Recorded(journal, row)
      BY <3>2
    <3> HIDE DEF row
    <3>5. InOrder(Recorded(journal, row)) /\ Ats(Recorded(journal, row)) \subseteq Ats(journal) \cup ({row.at} \ {0})
      BY <1>5, <3>3, RecordedInOrder DEF Order
    <3> QED BY <3>3, <3>4, <3>5 DEF Written, Order
  <2> QED BY <2>1, <2>2
<1>7. CallsInOrder'
  BY <1>2 DEF CallsInOrder, Lives, Order
<1>8. Ahead(Written', Waiting') /\ Ahead(Written', Called') /\ Ahead(Waiting', Called')
  BY <1>4, <1>6 DEF Order, Ahead
<1>9. Written' \cup Waiting' \cup HeldAts' \subseteq 1 .. Len(seen')
  BY <1>2, <1>4, <1>6 DEF Order
<1> QED BY <1>1, <1>3, <1>4, <1>6, <1>7, <1>8, <1>9 DEF Order

(* A callback writes its row: the batch before it is gone. *)
LEMMA OrderByCallback ==
    ASSUME JInv, Data, Second, Order, LiveBody
    PROVE  Order'
<1>1. queue # <<>> /\ queue[1].kind = "live" /\ pc[1] = "body" /\ queue' = Tail(queue)
  BY DEF LiveBody, At, Holder, Release
<1>2. queue \in Seq(Tasks) /\ DOMAIN queue = 1 .. Len(queue) /\ Len(queue) \in Nat \ {0} /\ pc \in Programs
  BY <1>1, LenProperties, EmptySeq DEF JInv, Holding
<1>3. replays = <<>>
  <2>1. pc = <<"body">> BY <1>1, <1>2 DEF Programs, Completing, Entering
  <2> QED BY <2>1 DEF Second
<1>4. UNCHANGED <<client, replays, seen>>
  BY DEF LiveBody, history
<1>5. 1 \in Lives /\ queue[1].at \in Called /\ Lives # {}
  BY <1>1, <1>2 DEF Lives, Called
<1>6. CallsInOrder' /\ \A a \in Called' : a \in Called /\ queue[1].at < a
  <2>1. NoCall BY <1>1 DEF NoCall
  <2>2. CallsInOrder' /\ Called' \subseteq Called BY <2>1, CallsKept DEF Order
  <2>3. ASSUME NEW i \in Lives' PROVE queue[1].at < queue'[i].at
    <3>1. i \in 1 .. Len(queue')
      <4>1. queue' \in Seq(Tasks) BY <1>1, <1>2, HeadTailProperties
      <4> QED BY <2>3, <4>1, LenProperties DEF Lives
    <3>2. queue'[i] = queue[i + 1] /\ i + 1 \in 1 .. Len(queue) /\ i \in Nat \ {0}
      BY <1>1, <1>2, <3>1, QueueLeft
    <3>3. i + 1 \in Lives /\ 1 < i + 1
      BY <1>2, <2>3, <3>2 DEF Lives
    <3> QED BY <1>5, <3>2, <3>3 DEF Order, CallsInOrder
  <2> QED BY <2>2, <2>3 DEF Called
<1>7. InOrder(journal') /\ Written' \subseteq Written \cup {queue[1].at}
  <2>1. journal' = journal \/ journal' = Recorded(journal, CallbackRow)
    BY DEF LiveBody, CallbackRow
  <2>2. CallbackRow \in Row /\ CallbackRow.at = queue[1].at
    BY CallbackRowType DEF CallbackRow
  <2>3. \A a \in Ats(journal) : a < CallbackRow.at
    BY <1>5, <2>2 DEF Order, Ahead, Written
  <2>4. journal \in Seq(Row) \ {<<>>} /\ InOrder(journal)
    BY DEF Data, JournalOK, Order
  <2>5. /\ InOrder(Recorded(journal, CallbackRow))
        /\ Ats(Recorded(journal, CallbackRow)) \subseteq Ats(journal) \cup ({CallbackRow.at} \ {0})
    BY <2>2, <2>3, <2>4, RecordedInOrder
  <2> QED BY <2>1, <2>2, <2>4, <2>5 DEF Written
<1>8. Waiting' = {} /\ HeldAts' = HeldAts /\ InHoldOrder(client'.reports) /\ ~client'.held
  BY <1>3, <1>4, <1>5 DEF Waiting, HeldAts, Order
<1>9. Ahead(Written', Waiting') /\ Ahead(Written', Called') /\ Ahead(Waiting', Called')
  BY <1>6, <1>7, <1>8 DEF Order, Ahead
<1>10. Written' \cup Waiting' \cup HeldAts' \subseteq 1 .. Len(seen')
  <2>1. queue[1].at \in 1 .. Len(seen) BY <1>5, OrderedNumbers
  <2> QED BY <1>4, <1>7, <1>8, <2>1 DEF Order
<1> QED BY <1>3, <1>4, <1>6, <1>7, <1>8, <1>9, <1>10 DEF Order

(* The hold ends: its reports are those of the batch. *)
LEMMA OrderByReplay ==
    ASSUME JInv, Data, Order, client.held, UNCHANGED <<journal, queue, seen>>,
           NEW c \in ClientRec, c.reports = client.reports, NEW bound \in Bound, NEW running,
           client' = Live(Replayed(c, bound, running)), QueueAndDeliver(Replayed(c, bound, running).facts)
    PROVE  Order'
<1> DEFINE facts == Replayed(c, bound, running).facts
           held  == client.reports
<1>1. InHoldOrder(held) /\ ReportsOf(held) \subseteq Nat
  <2>1. held \in Seq(Held) BY DEF Data, ClientOK, ClientRec
  <2> QED BY <2>1, ReportsFinite DEF Order
<1>2. Replaying(facts, held, bound, Len(held))
  BY <1>1, ReplayedFacts
<1>3. client'.held = FALSE /\ client'.reports = <<>>
  BY ReplayedType, LiveType, LiveHoldsNothing
<1> HIDE DEF facts, held
<1>4. replays' = IF facts = <<>> THEN <<>> ELSE <<[facts |-> facts, failures |-> 0]>>
  BY NewBatch DEF facts
<1>5. InOrder(facts) /\ Ats(facts) \subseteq HeldAts
  BY <1>2 DEF Replaying, Ats, HeldAts, held
<1>6. (replays' # <<>> => InOrder(replays'[1].facts)) /\ Waiting' \subseteq HeldAts
  <2>1. CASE facts = <<>> BY <1>4, <2>1 DEF Waiting
  <2>2. CASE facts # <<>>
    <3>1. replays' # <<>> /\ replays'[1].facts = facts BY <1>4, <2>2
    <3> QED BY <1>5, <3>1 DEF Waiting
  <2> QED BY <2>1, <2>2
<1>7. HeldAts' = {} /\ InHoldOrder(client'.reports)
  BY <1>3 DEF HeldAts, InHoldOrder, ReportsOf
<1>8. Written' = Written /\ InOrder(journal') /\ Lives' = {} /\ Called' = {} /\ CallsInOrder'
  BY DEF Written, Order, Lives, Called, CallsInOrder
<1>9. Ahead(Written', Waiting') /\ Ahead(Written', Called') /\ Ahead(Waiting', Called')
  BY <1>6, <1>8 DEF Order, Ahead
<1>10. Written' \cup Waiting' \cup HeldAts' \subseteq 1 .. Len(seen')
  BY <1>6, <1>7, <1>8 DEF Order
<1> QED BY <1>3, <1>6, <1>7, <1>8, <1>9, <1>10 DEF Order

(* What a replay of the hold gives: of a seed that is applied, or of a hold  *)
(* that is given up.                                                       *)
ReplayOf(c, bound, running) ==
    /\ client' = Live(Replayed(c, bound, running))
    /\ QueueAndDeliver(Replayed(c, bound, running).facts)

(* The end of a hold replays it from some chronology. *)
LEMMA HoldEnds ==
    ASSUME JInv, Data, SeedApply \/ ReleaseHold
    PROVE  /\ UNCHANGED <<journal, queue, seen, binding, bind, undone, snapshot>>
           /\ \/ ~client.held /\ UNCHANGED <<client, replays>>
              \/ /\ client.held /\ snapshot \in Snap
                 /\ \E c \in ClientRec, running \in BOOLEAN :
                        c.reports = client.reports /\ ReplayOf(c, snapshot.bound, running)
<1>1. client \in ClientRec /\ client.held \in BOOLEAN
  BY DEF Data, ClientOK, JInv, Types
<1>2. snapshot \in Snap
  BY DEF SeedApply, ReleaseHold, At, Data, SnapOK
<1>3. UNCHANGED <<journal, queue, seen, binding, bind, undone, snapshot>>
  BY DEF SeedApply, ReleaseHold, QueueAndDeliver, Advance, Wait, Goto, history
<1>4. CASE ~client.held
  BY <1>3, <1>4 DEF SeedApply, ReleaseHold
<1>5. CASE client.held /\ SeedApply
  <2> DEFINE c == [client EXCEPT !.log = snapshot.log,
                                 !.last = IF snapshot.log = <<>> THEN @ ELSE Last(snapshot.log).tray]
  <2>1. c \in ClientRec
    BY <1>1, <1>2, RestoredClient DEF Snap
  <2>2. c.reports = client.reports
    BY <1>1 DEF ClientRec
  <2>3. ReplayOf(c, snapshot.bound, Running)
    BY <1>5 DEF SeedApply, ReplayOf
  <2>4. Running \in BOOLEAN
    BY DEF Running
  <2> HIDE DEF c
  <2> QED BY <1>2, <1>3, <1>5, <2>1, <2>2, <2>3, <2>4
<1>6. CASE client.held /\ ReleaseHold
  <2> DEFINE c == [client EXCEPT !.log = <<>>, !.lostFrom = 0]
  <2>1. c \in ClientRec
    BY <1>1, ForgottenClient
  <2>2. c.reports = client.reports
    BY <1>1 DEF ClientRec
  <2>3. ReplayOf(c, snapshot.bound, TRUE)
    BY <1>6 DEF ReleaseHold, ReplayOf
  <2> HIDE DEF c
  <2> QED BY <1>2, <1>3, <1>6, <2>1, <2>2, <2>3
<1> QED BY <1>1, <1>4, <1>5, <1>6

(* Steps that neither write nor replay. *)
LEMMA OrderElsewhere ==
    ASSUME JInv, Data, Order,
           \/ Finish \/ StartSeed \/ Deliver \/ WriterFails \/ NoteBind \/ CommitBind \/ RollBackBind
           \/ SeedBody \/ SeedFails \/ AbandonBody \/ CompleteBody \/ Leave \/ Cancel
           \/ \E t \in Trays, r \in Reels, locked \in BOOLEAN : BeginBind(t, r, locked)
    PROVE  Order'
<1>1. NoCall
  BY DEF Finish, StartSeed, Deliver, WriterFails, NoteBind, CommitBind, RollBackBind, LeaveBind, SeedBody, SeedFails,
         AbandonBody, CompleteBody, Leave, Cancel, BeginBind, Enqueue, Task, Tasks, NoCall, At, Holder, Release,
         Advance, Wait, Goto, lock
<1>2. UNCHANGED <<seen, journal>>
  BY DEF Finish, StartSeed, Deliver, WriterFails, NoteBind, CommitBind, RollBackBind, SeedBody, SeedFails,
         AbandonBody, CompleteBody, Leave, Cancel, BeginBind, history
<1>3. (replays' # <<>> => InOrder(replays'[1].facts)) /\ Waiting' \subseteq Waiting
  <2>1. CASE WriterFails
    <3>1. replays = <<replays[1]>> /\ DOMAIN replays[1] = {"facts", "failures"} /\ replays # <<>>
      BY <2>1 DEF WriterFails, JInv, Batches
    <3>2. replays' # <<>> /\ replays'[1].facts = replays[1].facts
      BY <2>1, <3>1 DEF WriterFails
    <3> QED BY <3>1, <3>2 DEF Order, Waiting
  <2>2. CASE UNCHANGED replays
    BY <2>2 DEF Order, Waiting
  <2>3. UNCHANGED replays \/ WriterFails
    BY DEF Finish, StartSeed, Deliver, NoteBind, CommitBind, RollBackBind, SeedBody, SeedFails,
         AbandonBody, CompleteBody, Leave, Cancel, BeginBind
  <2> QED BY <2>1, <2>2, <2>3
<1>4. InHoldOrder(client'.reports) /\ HeldAts' \subseteq HeldAts /\ (client'.held => client.held)
  <2>1. UNCHANGED client \/ NoteBind
    BY DEF Finish, StartSeed, Deliver, WriterFails, CommitBind, RollBackBind, SeedBody, SeedFails,
         AbandonBody, CompleteBody, Leave, Cancel, BeginBind
  <2>2. CASE UNCHANGED client
    BY <2>2 DEF Order, HeldAts
  <2>3. CASE NoteBind /\ client' # client
    <3> DEFINE q == client.reports
               e == [kind |-> "change", tray |-> bind.tray, layer |-> Layer,
                     out |-> binding[bind.tray], new |-> bind.reel]
    <3>1. client' = [client EXCEPT !.reports = Append(@, e)] /\ bind # None
      BY <2>3 DEF NoteBind
    <3>2. client \in ClientRec /\ q \in Seq(Held)
      BY DEF Data, ClientOK, ClientRec
    <3>3. client'.reports = Append(q, e) /\ client'.held = client.held
      BY <3>1, <3>2 DEF ClientRec
    <3>4. bind.tray \in Trays /\ bind.reel \in Reels /\ binding[bind.tray] \in Names
      BY <3>1 DEF JInv, Types
    <3>5. e \in Held /\ e.kind # "report"
      BY <3>4, LayerBound DEF Held, HeldChange, Data
    <3> HIDE DEF e, q
    <3>6. /\ ReportsOf(Append(q, e)) = ReportsOf(q) /\ ReportsOf(q) \subseteq 1 .. Len(q)
          /\ \A i \in 1 .. Len(q) : Append(q, e)[i] = q[i]
      <4>1. ReportsOf(Append(q, e)) = ReportsOf(q) BY <3>2, <3>5, AppendedReports
      <4>2. ReportsOf(q) \subseteq 1 .. Len(q) BY <3>2, ReportsFinite
      <4>3. \A i \in 1 .. Len(q) : Append(q, e)[i] = q[i] BY <3>2, <3>5, AppendProperties
      <4> QED BY <4>1, <4>2, <4>3
    <3> QED BY <3>3, <3>6 DEF Order, InHoldOrder, HeldAts, q
  <2> QED BY <2>1, <2>2, <2>3
<1>5. InOrder(journal') /\ Written' \subseteq Written
  BY <1>2 DEF Order, Written
<1> QED BY <1>1, <1>2, <1>3, <1>4, <1>5, OrderKept

(* Every step keeps the order. *)
LEMMA OrderStep == ASSUME JInv, Data, Second, Order, Next PROVE Order'
<1>1. ASSUME NEW t \in Trays, NEW l \in {Layer, Layer + 1}, Report(t, l) PROVE Order'
  BY <1>1, OrderByReport
<1>2. CASE WriterCommits \/ WriterGivesUp
  BY <1>2, OrderByWriter
<1>3. CASE LiveBody
  BY <1>3, OrderByCallback
<1>4. CASE SeedApply \/ ReleaseHold
  <2>1. UNCHANGED <<journal, queue, seen>>
    BY <1>4, HoldEnds
  <2>2. CASE ~client.held /\ UNCHANGED <<client, replays>>
    <3>1. NoCall BY <2>1 DEF NoCall
    <3>2. /\ InOrder(journal') /\ Written' \subseteq Written
          /\ (replays' # <<>> => InOrder(replays'[1].facts)) /\ Waiting' \subseteq Waiting
          /\ InHoldOrder(client'.reports) /\ HeldAts' \subseteq HeldAts /\ (client'.held => client.held)
      BY <2>1, <2>2 DEF Order, Written, Waiting, HeldAts
    <3> QED BY <2>1, <3>1, <3>2, OrderKept
  <2>3. ASSUME client.held, snapshot \in Snap, NEW c \in ClientRec, NEW running \in BOOLEAN,
               c.reports = client.reports, ReplayOf(c, snapshot.bound, running)
        PROVE  Order'
    <3>1. snapshot.bound \in Bound BY <2>3 DEF Snap
    <3> QED BY <2>1, <2>3, <3>1, OrderByReplay DEF ReplayOf
  <2> QED BY <1>4, <2>2, <2>3, HoldEnds
<1>5. CASE Crash
  <2>1. UNCHANGED <<journal, seen>> /\ queue' = <<>> /\ replays' = <<>> /\ client' = FreshClient
    BY <1>5 DEF Crash
  <2>2. Written' = Written /\ Waiting' = {} /\ Lives' = {} /\ Called' = {} /\ CallsInOrder'
    BY <2>1 DEF Written, Waiting, Lives, Called, CallsInOrder
  <2>3. HeldAts' = {} /\ InHoldOrder(client'.reports)
    BY <2>1 DEF FreshClient, HeldAts, ReportsOf, InHoldOrder
  <2>4. Ahead(Written', Waiting') /\ Ahead(Written', Called') /\ Ahead(Waiting', Called') /\ Ahead(Written', HeldAts')
    BY <2>2, <2>3 DEF Ahead
  <2>5. Written' \cup Waiting' \cup HeldAts' \subseteq 1 .. Len(seen')
    BY <2>1, <2>2, <2>3 DEF Order
  <2> QED BY <2>1, <2>2, <2>3, <2>4, <2>5 DEF Order
<1>6. CASE \/ Finish \/ StartSeed \/ Deliver \/ WriterFails \/ NoteBind \/ CommitBind \/ RollBackBind
           \/ SeedBody \/ SeedFails \/ AbandonBody \/ CompleteBody \/ Leave \/ Cancel
           \/ \E t \in Trays, r \in Reels, locked \in BOOLEAN : BeginBind(t, r, locked)
  BY <1>6, OrderElsewhere
<1> QED BY <1>1, <1>2, <1>3, <1>4, <1>5, <1>6 DEF Next

(* Nothing is on its way at the start. *)
LEMMA OrderInit == ASSUME Init PROVE Second /\ Order
<1>1. client = FreshClient /\ queue = <<>> /\ pc = <<"body">> /\ replays = <<>> /\ writer = FALSE /\ seen = <<>>
  BY DEF Init
<1>2. Second
  BY <1>1 DEF Second, Tried
<1>3. PICK t \in Trays : journal = <<[tray |-> t, layer |-> 0, reel |-> NoReel, at |-> 0]>>
  BY DEF Init
<1>4. InOrder(journal) /\ Written = {}
  <2>1. \A i \in DOMAIN journal : journal[i].at = 0
    <3> DEFINE start == [tray |-> t, layer |-> 0, reel |-> NoReel, at |-> 0]
    <3>1. journal = <<start>> /\ start.at = 0 BY <1>3
    <3> HIDE DEF start
    <3>2. \A i \in DOMAIN <<start>> : <<start>>[i] = start OBVIOUS
    <3> QED BY <3>1, <3>2
  <2> QED BY <2>1 DEF InOrder, Written, Ats
<1>5. Waiting = {} /\ Lives = {} /\ Called = {} /\ CallsInOrder
  BY <1>1 DEF Waiting, Lives, Called, CallsInOrder
<1>6. HeldAts = {} /\ InHoldOrder(client.reports)
  BY <1>1 DEF FreshClient, HeldAts, ReportsOf, InHoldOrder
<1> QED BY <1>1, <1>2, <1>4, <1>5, <1>6 DEF Order, Ahead

-----------------------------------------------------------------------------
(* The reel a held report is named with. *)

(* The changes of a tray are entries of the hold. *)
LEMMA ChangesIn ==
    ASSUME NEW q \in Seq(Held), NEW t
    PROVE  ChangesOf(q, t) \subseteq 0 .. Len(q) /\ ChangesOf(q, t) \subseteq DOMAIN q /\ Len(q) \in Nat
BY LenProperties DEF ChangesOf

(* _identity_at gives a reel the report fits, or leaves it to the writing. *)
LEMMA IdentityFits ==
    ASSUME NEW q \in Seq(Held), NEW s, NEW b, NEW n, NEW u, NEW bound,
           Told(q, s, b, n, u), Assigned(q, b, n, u), Read(q, b, bound), NEW i \in ReportsOf(q)
    PROVE  /\ q[i].at \in 1 .. Len(s)
           /\ IdentityAt(q, i, bound) = AtWrite \/ Fits(IdentityAt(q, i, bound), q[i].at, s, u)
<1> DEFINE t == q[i].tray
           changes == ChangesOf(q, t)
           after == {j \in changes : i < j}
           next == CHOOSE j \in after : \A k \in after : j <= k
           latest == CHOOSE j \in changes : \A k \in changes : k <= j
<1>1. i \in DOMAIN q /\ q[i].kind = "report" /\ q[i] \in Held /\ i \in Nat
  <2>1. i \in DOMAIN q /\ i \in 1 .. Len(q) BY ReportsFinite DEF ReportsOf
  <2> QED BY <2>1, ElementOfSeq DEF ReportsOf
<1>2. t \in Trays
  BY <1>1 DEF Held, HeldReport, HeldChange
<1>3. ToldAt(i, q, s, b, n, u) /\ AssignedTo(t, q, b, n, u)
  BY <1>2 DEF Told, Assigned
<1>4. changes \in SUBSET (0 .. Len(q)) /\ changes \subseteq DOMAIN q /\ Len(q) \in Nat /\ i \notin changes
  BY <1>1, ChangesIn DEF ChangesOf
<1>5. IdentityAt(q, i, bound) = IF after # {} THEN q[next].out
                                ELSE IF changes # {} THEN q[latest].new
                                ELSE IF bound = None THEN AtWrite ELSE bound[t]
  BY DEF IdentityAt, ChangesOf
<1> HIDE DEF t, changes, next, latest
<1>6. CASE after # {}
  <2>1. after \in SUBSET Nat BY <1>4
  <2>2. next \in after /\ \A k \in after : next <= k
    <3> HIDE DEF after
    <3>1. \E j \in after : \A k \in after : j <= k BY <1>6, <2>1, LeastOf
    <3> QED BY <3>1 DEF next
  <2>3. NextChange(q, i, next) /\ next \in DOMAIN q
    BY <1>4, <2>2 DEF NextChange, changes, t
  <2>4. Fits(q[next].out, q[i].at, s, u)
    BY <1>3, <2>3 DEF ToldAt
  <2> QED BY <1>3, <1>5, <1>6, <2>4 DEF ToldAt
<1>7. CASE after = {}
  <2>1. Open(q, i)
    BY <1>1, <1>4, <1>7 DEF Open, changes, t
  <2>2. Fits(b[t], q[i].at, s, u) /\ (Noted(n, t) => Fits(n.reel, q[i].at, s, u)) /\ q[i].at \in 1 .. Len(s)
    BY <1>3, <2>1 DEF ToldAt, t
  <2>3. CASE changes # {}
    <3>1. latest \in changes /\ \A k \in changes : k <= latest
      <4>1. \E j \in changes : \A k \in changes : k <= j BY <1>4, <2>3, GreatestOf
      <4> QED BY <4>1 DEF latest
    <3>2. LastChange(q, t, latest) /\ latest \in DOMAIN q
      BY <1>4, <3>1 DEF LastChange, changes
    <3>3. IF Noted(n, t) THEN q[latest].new = n.reel ELSE q[latest].new \in u \cup {b[t]}
      BY <1>3, <3>2 DEF AssignedTo
    <3>4. Fits(q[latest].new, q[i].at, s, u)
      BY <2>2, <3>3 DEF Fits
    <3> QED BY <1>5, <1>7, <2>2, <2>3, <3>4
  <2>4. CASE changes = {}
    <3>1. bound # None => bound[t] = b[t]
      BY <1>2, <2>4 DEF Read, changes
    <3> QED BY <1>5, <1>7, <2>2, <2>4, <3>1
  <2> QED BY <2>3, <2>4
<1> QED BY <1>6, <1>7

(* Without one of its reports a hold names the others as before. *)
LEMMA RemovedNames ==
    ASSUME NEW q \in Seq(Held), NEW o \in ReportsOf(q), NEW s, NEW b, NEW n, NEW u,
           Told(q, s, b, n, u), Assigned(q, b, n, u)
    PROVE  /\ Told(RemoveAt(q, o), s, b, n, u) /\ Assigned(RemoveAt(q, o), b, n, u)
           /\ \A t : ChangesOf(RemoveAt(q, o), t) = {} => ChangesOf(q, t) = {}
<1> DEFINE r == RemoveAt(q, o)
           Was(k) == IF k < o THEN k ELSE k + 1
<1>1. /\ DOMAIN r = 1 .. Len(q) - 1 /\ DOMAIN q = 1 .. Len(q) /\ Len(q) \in Nat
      /\ \A k \in DOMAIN r : Was(k) \in DOMAIN q /\ r[k] = q[Was(k)] /\ Was(k) # o
      /\ \A i, j \in DOMAIN r : i < j <=> Was(i) < Was(j)
      /\ \A m \in DOMAIN q : m # o => \E k \in DOMAIN r : Was(k) = m
  BY RemovedEntries
<1>2. q[o].kind = "report"
  BY DEF ReportsOf
<1> HIDE DEF r, Was
<1>3. \A t : \A k \in ChangesOf(r, t) : k \in DOMAIN r /\ Was(k) \in ChangesOf(q, t)
  BY <1>1 DEF ChangesOf
<1>4. \A t : \A m \in ChangesOf(q, t) : \E k \in ChangesOf(r, t) : Was(k) = m
  <2> SUFFICES ASSUME NEW t, NEW m \in ChangesOf(q, t) PROVE \E k \in ChangesOf(r, t) : Was(k) = m
    OBVIOUS
  <2>1. m \in DOMAIN q /\ m # o BY <1>2 DEF ChangesOf
  <2>2. PICK k \in DOMAIN r : Was(k) = m BY <1>1, <2>1
  <2> QED BY <1>1, <2>2 DEF ChangesOf
<1>5. \A i, j \in DOMAIN r : i <= j <=> Was(i) <= Was(j)
  <2> SUFFICES ASSUME NEW i \in DOMAIN r, NEW j \in DOMAIN r PROVE i <= j <=> Was(i) <= Was(j)
    OBVIOUS
  <2>1. i \in Int /\ j \in Int /\ Was(i) \in Int /\ Was(j) \in Int BY <1>1
  <2>2. j < i <=> Was(j) < Was(i) BY <1>1
  <2> QED BY <2>1, <2>2
<1>6. ASSUME NEW i \in ReportsOf(r) PROVE ToldAt(i, r, s, b, n, u)
  <2>1. i \in DOMAIN r /\ Was(i) \in ReportsOf(q) /\ r[i] = q[Was(i)]
    BY <1>1, <1>6 DEF ReportsOf
  <2>2. ToldAt(Was(i), q, s, b, n, u)
    BY <2>1 DEF Told
  <2>3. Open(r, i) => Open(q, Was(i))
    <3> SUFFICES ASSUME Open(r, i), NEW d \in ChangesOf(q, q[Was(i)].tray) PROVE d < Was(i)
      BY DEF Open
    <3>1. PICK k \in ChangesOf(r, r[i].tray) : Was(k) = d BY <1>4, <2>1
    <3>2. k < i /\ k \in DOMAIN r BY <1>3, <3>1 DEF Open
    <3> QED BY <1>1, <2>1, <3>1, <3>2
  <2>4. ASSUME NEW c \in DOMAIN r, NextChange(r, i, c) PROVE NextChange(q, Was(i), Was(c)) /\ r[c] = q[Was(c)] /\ Was(c) \in DOMAIN q
    <3>1. c \in ChangesOf(r, r[i].tray) /\ i < c /\ \A d \in ChangesOf(r, r[i].tray) : i < d => c <= d
      BY <2>4 DEF NextChange
    <3>2. Was(c) \in ChangesOf(q, q[Was(i)].tray) /\ Was(i) < Was(c)
      BY <1>1, <1>3, <2>1, <3>1
    <3>3. ASSUME NEW d \in ChangesOf(q, q[Was(i)].tray), Was(i) < d PROVE Was(c) <= d
      <4>1. PICK k \in ChangesOf(r, r[i].tray) : Was(k) = d BY <1>4, <2>1
      <4>2. k \in DOMAIN r BY <1>3
      <4>3. i < k BY <1>1, <2>1, <3>3, <4>1, <4>2
      <4> QED BY <1>5, <3>1, <4>1, <4>2, <4>3
    <3> QED BY <1>1, <3>2, <3>3 DEF NextChange
  <2> QED BY <2>1, <2>2, <2>3, <2>4 DEF ToldAt
<1>7. ASSUME NEW t \in Trays PROVE AssignedTo(t, r, b, n, u)
  <2>1. AssignedTo(t, q, b, n, u)
    BY DEF Assigned
  <2>2. Noted(n, t) => ChangesOf(r, t) # {}
    BY <1>4, <2>1 DEF AssignedTo
  <2>3. ASSUME NEW c \in DOMAIN r, LastChange(r, t, c) PROVE LastChange(q, t, Was(c)) /\ r[c] = q[Was(c)] /\ Was(c) \in DOMAIN q
    <3>1. c \in ChangesOf(r, t) /\ \A d \in ChangesOf(r, t) : d <= c
      BY <2>3 DEF LastChange
    <3>2. ASSUME NEW d \in ChangesOf(q, t) PROVE d <= Was(c)
      <4>1. PICK k \in ChangesOf(r, t) : Was(k) = d BY <1>4
      <4>2. k \in DOMAIN r BY <1>3
      <4> QED BY <1>5, <3>1, <4>1, <4>2
    <3> QED BY <1>1, <1>3, <3>1, <3>2 DEF LastChange
  <2> QED BY <2>1, <2>2, <2>3 DEF AssignedTo
<1> QED BY <1>4, <1>6, <1>7 DEF Told, Assigned, r

(* A hold with one more report names the others as before. *)
LEMMA GrownNames ==
    ASSUME NEW q \in Seq(Held), NEW e \in Held, NEW s, NEW b, NEW n, NEW u, e.kind = "report",
           Told(q, s, b, n, u), Assigned(q, b, n, u),
           e.at \in 1 .. Len(s), Fits(b[e.tray], e.at, s, u), Noted(n, e.tray) => Fits(n.reel, e.at, s, u)
    PROVE  /\ Told(Append(q, e), s, b, n, u) /\ Assigned(Append(q, e), b, n, u)
           /\ \A t : ChangesOf(Append(q, e), t) = ChangesOf(q, t)
<1> DEFINE grown == Append(q, e)
<1>1. /\ Len(q) \in Nat /\ DOMAIN grown = 1 .. Len(q) + 1 /\ DOMAIN q = 1 .. Len(q)
      /\ \A i \in 1 .. Len(q) : grown[i] = q[i]
      /\ grown[Len(q) + 1] = e
      /\ ReportsOf(grown) = ReportsOf(q) \cup {Len(q) + 1} /\ ReportsOf(q) \subseteq 1 .. Len(q)
  BY GrownEntries
<1> HIDE DEF grown
<1>2. \A t : ChangesOf(grown, t) = ChangesOf(q, t) /\ ChangesOf(q, t) \subseteq 1 .. Len(q)
  BY <1>1 DEF ChangesOf
<1>3. ASSUME NEW i \in ReportsOf(grown) PROVE ToldAt(i, grown, s, b, n, u)
  <2>1. CASE i \in ReportsOf(q)
    <3>1. grown[i] = q[i] /\ ToldAt(i, q, s, b, n, u)
      BY <1>1, <2>1 DEF Told
    <3>2. Open(grown, i) => Open(q, i)
      BY <1>2, <3>1 DEF Open
    <3>3. ASSUME NEW c \in DOMAIN grown, NextChange(grown, i, c) PROVE NextChange(q, i, c) /\ c \in DOMAIN q /\ grown[c] = q[c]
      <4>1. NextChange(q, i, c) BY <1>2, <3>1, <3>3 DEF NextChange
      <4>2. c \in 1 .. Len(q) BY <1>2, <4>1 DEF NextChange
      <4> QED BY <1>1, <4>1, <4>2
    <3> QED BY <3>1, <3>2, <3>3 DEF ToldAt
  <2>2. CASE i = Len(q) + 1
    <3>1. grown[i] = e
      BY <1>1, <2>2
    <3>2. \A c \in DOMAIN grown : ~NextChange(grown, i, c)
      BY <1>1, <1>2, <2>2 DEF NextChange
    <3> QED BY <3>1, <3>2 DEF ToldAt
  <2> QED BY <1>1, <2>1, <2>2
<1>4. ASSUME NEW t \in Trays PROVE AssignedTo(t, grown, b, n, u)
  <2>1. AssignedTo(t, q, b, n, u)
    BY DEF Assigned
  <2>2. ASSUME NEW c \in DOMAIN grown, LastChange(grown, t, c) PROVE LastChange(q, t, c) /\ c \in DOMAIN q /\ grown[c] = q[c]
    <3>1. LastChange(q, t, c) BY <1>2, <2>2 DEF LastChange
    <3>2. c \in 1 .. Len(q) BY <1>2, <3>1 DEF LastChange
    <3> QED BY <1>1, <3>1, <3>2
  <2> QED BY <1>2, <2>1, <2>2 DEF AssignedTo
<1> QED BY <1>2, <1>3, <1>4 DEF Told, Assigned, grown

(* The note of an assignment: what was bound goes out, the new reel comes in. *)
LEMMA ChangedNames ==
    ASSUME NEW q \in Seq(Held), NEW e \in Held, NEW s, NEW b, NEW n, NEW m, NEW u,
           Told(q, s, b, n, u), Assigned(q, b, n, u), \A t \in Trays : ~Noted(n, t),
           e.kind = "change", e.out = b[e.tray], \A t : Noted(m, t) <=> t = e.tray, m.reel = e.new
    PROVE  /\ Told(Append(q, e), s, b, m, u) /\ Assigned(Append(q, e), b, m, u)
           /\ \A t : ChangesOf(Append(q, e), t) = {} => ChangesOf(q, t) = {} /\ t # e.tray
<1> DEFINE grown == Append(q, e)
           N == Len(q) + 1
<1>1. /\ Len(q) \in Nat /\ DOMAIN grown = 1 .. N /\ DOMAIN q = 1 .. Len(q)
      /\ \A i \in 1 .. Len(q) : grown[i] = q[i]
      /\ grown[N] = e
      /\ ReportsOf(grown) = ReportsOf(q) /\ ReportsOf(q) \subseteq 1 .. Len(q)
  <2>1. ReportsOf(grown) = ReportsOf(q) BY AppendedReports
  <2>2. ReportsOf(q) \subseteq 1 .. Len(q) BY ReportsFinite
  <2> QED BY <2>1, <2>2, GrownEntries
<1> HIDE DEF grown
<1>2. \A t : ChangesOf(q, t) \subseteq 1 .. Len(q)
             /\ ChangesOf(grown, t) = ChangesOf(q, t) \cup (IF t = e.tray THEN {N} ELSE {})
  BY <1>1 DEF ChangesOf
<1>3. ASSUME NEW i \in ReportsOf(grown) PROVE ToldAt(i, grown, s, b, m, u)
  <2> DEFINE t == q[i].tray
  <2>1. i \in 1 .. Len(q) /\ q[i].kind = "report" /\ grown[i] = q[i] /\ ToldAt(i, q, s, b, n, u) /\ i < N
    BY <1>1, <1>3 DEF Told, ReportsOf
  <2>2. t \in Trays
    <3>1. q[i] \in Held BY <2>1, ElementOfSeq
    <3> QED BY <2>1, <3>1 DEF Held, HeldReport, HeldChange
  <2>3. ASSUME Open(grown, i) PROVE t # e.tray /\ Open(q, i) /\ ~Noted(m, t)
    <3>1. t # e.tray
      <4> SUFFICES ASSUME t = e.tray PROVE FALSE
        OBVIOUS
      <4>1. N \in ChangesOf(grown, t) /\ grown[i].tray = t BY <1>2, <2>1
      <4>2. N < i BY <2>3, <4>1 DEF Open
      <4> QED BY <1>1, <2>1, <4>2
    <3>2. Open(q, i) BY <1>2, <2>1, <2>3 DEF Open
    <3> QED BY <3>1, <3>2
  <2>4. ASSUME NEW c \in DOMAIN grown, NextChange(grown, i, c) PROVE Fits(grown[c].out, q[i].at, s, u)
    <3>1. c \in ChangesOf(grown, t) /\ i < c /\ \A d \in ChangesOf(grown, t) : i < d => c <= d
      BY <2>1, <2>4 DEF NextChange
    <3>2. CASE c \in ChangesOf(q, t)
      <4>1. NextChange(q, i, c) /\ c \in DOMAIN q /\ grown[c] = q[c]
        BY <1>1, <1>2, <3>1, <3>2 DEF NextChange
      <4> QED BY <2>1, <4>1 DEF ToldAt
    <3>3. CASE c = N /\ t = e.tray
      <4>1. \A d \in ChangesOf(q, t) : d # i BY <2>1 DEF ChangesOf
      <4>2. Open(q, i) BY <1>1, <1>2, <2>1, <3>1, <3>3, <4>1 DEF Open
      <4> QED BY <1>1, <2>1, <3>3, <4>2 DEF ToldAt
    <3> QED BY <1>2, <3>1, <3>2, <3>3
  <2> HIDE DEF t
  <2> QED BY <2>1, <2>3, <2>4 DEF ToldAt, t
<1>4. ASSUME NEW t \in Trays PROVE AssignedTo(t, grown, b, m, u)
  <2>1. AssignedTo(t, q, b, n, u) /\ ~Noted(n, t)
    BY DEF Assigned
  <2>2. Noted(m, t) => ChangesOf(grown, t) # {}
    BY <1>2
  <2>3. ASSUME NEW c \in DOMAIN grown, LastChange(grown, t, c)
        PROVE  IF Noted(m, t) THEN grown[c].new = m.reel ELSE grown[c].new \in u \cup {b[t]}
    <3>1. c \in ChangesOf(grown, t) /\ \A d \in ChangesOf(grown, t) : d <= c
      BY <2>3 DEF LastChange
    <3>2. CASE t = e.tray
      <4>1. N <= c BY <1>2, <3>1, <3>2
      <4>2. c = N BY <1>1, <4>1
      <4> QED BY <1>1, <3>2, <4>2
    <3>3. CASE t # e.tray
      <4>1. LastChange(q, t, c) /\ c \in DOMAIN q /\ grown[c] = q[c]
        BY <1>1, <1>2, <3>1, <3>3 DEF LastChange
      <4> QED BY <2>1, <3>3, <4>1 DEF AssignedTo
    <3> QED BY <3>2, <3>3
  <2> QED BY <2>2, <2>3 DEF AssignedTo
<1>5. \A t : ChangesOf(grown, t) = {} => ChangesOf(q, t) = {} /\ t # e.tray
  BY <1>2
<1> QED BY <1>3, <1>4, <1>5 DEF Told, Assigned, grown

(* The commit of what was noted. *)
LEMMA CommittedNames ==
    ASSUME NEW q, NEW s, NEW b \in [Trays -> Names], NEW n, NEW m, NEW u, NEW t \in Trays,
           Told(q, s, b, n, u), Assigned(q, b, n, u), \A i \in ReportsOf(q) : q[i].tray \in Trays,
           Noted(n, t), \A r : ~Noted(m, r)
    PROVE  LET c == [b EXCEPT ![t] = n.reel]
           IN  /\ Told(q, s, c, m, u) /\ Assigned(q, c, m, u)
               /\ \A bound : Read(q, b, bound) => Read(q, c, bound)
<1> DEFINE c == [b EXCEPT ![t] = n.reel]
<1>1. c[t] = n.reel /\ \A r \in Trays : r # t => c[r] = b[r] /\ ~Noted(n, r)
  BY DEF Noted
<1> HIDE DEF c
<1>2. ASSUME NEW i \in ReportsOf(q) PROVE ToldAt(i, q, s, c, m, u)
  BY <1>1, <1>2 DEF Told, ToldAt
<1>3. ASSUME NEW r \in Trays PROVE AssignedTo(r, q, c, m, u)
  <2>1. AssignedTo(r, q, b, n, u) BY DEF Assigned
  <2>2. CASE r = t BY <1>1, <2>1, <2>2 DEF AssignedTo
  <2>3. CASE r # t BY <1>1, <2>1, <2>3 DEF AssignedTo
  <2> QED BY <2>2, <2>3
<1>4. ChangesOf(q, t) # {}
  BY DEF Assigned, AssignedTo
<1>5. ASSUME NEW bound, Read(q, b, bound) PROVE Read(q, c, bound)
  BY <1>1, <1>4, <1>5 DEF Read
<1> QED BY <1>2, <1>3, <1>5 DEF Told, Assigned, c

(* No assignment is under way any more; what was noted was rolled back. *)
LEMMA RolledBackNames ==
    ASSUME NEW q, NEW s, NEW b, NEW n, NEW m, NEW u, NEW w, u \subseteq w,
           Told(q, s, b, n, u), Assigned(q, b, n, u),
           \A t : Noted(n, t) => n.reel \in w, \A t : ~Noted(m, t)
    PROVE  Told(q, s, b, m, w) /\ Assigned(q, b, m, w)
<1>1. ASSUME NEW i \in ReportsOf(q) PROVE ToldAt(i, q, s, b, m, w)
  <2>1. ToldAt(i, q, s, b, n, u) BY DEF Told
  <2>2. \A r, at : Fits(r, at, s, u) => Fits(r, at, s, w) BY DEF Fits
  <2> QED BY <2>1, <2>2 DEF ToldAt
<1>2. ASSUME NEW t \in Trays PROVE AssignedTo(t, q, b, m, w)
  <2>1. AssignedTo(t, q, b, n, u) BY DEF Assigned
  <2> QED BY <2>1 DEF AssignedTo
<1> QED BY <1>1, <1>2 DEF Told, Assigned

(* More reports seen leave those before as they were. *)
LEMMA LaterNames ==
    ASSUME NEW q, NEW s, NEW z, NEW b, NEW n, NEW u, Told(q, s, b, n, u),
           Len(s) \in Nat, Len(z) \in Nat, Len(s) <= Len(z), \A k \in 1 .. Len(s) : z[k] = s[k]
    PROVE  Told(q, z, b, n, u)
<1> SUFFICES ASSUME NEW i \in ReportsOf(q) PROVE ToldAt(i, q, z, b, n, u)
  BY DEF Told
<1>1. ToldAt(i, q, s, b, n, u)
  BY DEF Told
<1>2. q[i].at \in 1 .. Len(s) /\ q[i].at \in 1 .. Len(z) /\ z[q[i].at] = s[q[i].at]
  BY <1>1 DEF ToldAt
<1>3. \A r : Fits(r, q[i].at, s, u) => Fits(r, q[i].at, z, u)
  BY <1>2 DEF Fits
<1> QED BY <1>1, <1>2, <1>3 DEF ToldAt

-----------------------------------------------------------------------------
(* The steps keep the names. *)

Bindings == [tray : Trays, reel : Reels, locked : BOOLEAN, noted : BOOLEAN]

(* Whoever is about to replay has read the bindings a tray without a change *)
(* has still.                                                              *)
LEMMA ReadKept ==
    ASSUME JInv, HeldNames, Next, client.held,
           \A bound : Read(client.reports, binding, bound) => Read(client'.reports, binding', bound)
    PROVE  pc'[1] \in {"apply", "release"} => Read(client'.reports, binding', snapshot'.bound)
<1> SUFFICES ASSUME pc'[1] \in {"apply", "release"} PROVE Read(client'.reports, binding', snapshot'.bound)
  OBVIOUS
<1>1. CASE UNCHANGED <<pc, snapshot>>
  <2>1. Read(client.reports, binding, snapshot.bound) BY <1>1 DEF HeldNames
  <2> QED BY <1>1, <2>1
<1>2. CASE SeedBody \/ AbandonBody \/ CompleteBody
  <2>1. snapshot'.bound \in {binding, None} BY <1>2 DEF SeedBody, AbandonBody, CompleteBody
  <2>2. Read(client.reports, binding, snapshot'.bound) BY <2>1 DEF Read
  <2> QED BY <2>2
<1> QED BY <1>1, <1>2, SnapshotStays

(* Nothing a name depends on is changed. *)
LEMMA NamesKept ==
    ASSUME JInv, HeldNames, Next, client.held, client'.reports = client.reports, UNCHANGED <<seen, undone, binding>>,
           UNCHANGED bind \/ (bind = None /\ \A t : ~Noted(bind', t))
    PROVE  HeldNames'
<1>1. Told(client.reports, seen, binding, bind, undone) /\ Assigned(client.reports, binding, bind, undone)
  BY DEF HeldNames
<1>2. Told(client.reports, seen, binding, bind', undone) /\ Assigned(client.reports, binding, bind', undone)
  <2>1. CASE UNCHANGED bind BY <1>1, <2>1
  <2>2. CASE bind = None /\ \A t : ~Noted(bind', t)
    <3>1. \A t : Noted(bind, t) => bind.reel \in undone BY <2>2 DEF Noted
    <3> QED BY <1>1, <2>2, <3>1, RolledBackNames
  <2> QED BY <2>1, <2>2
<1>3. pc'[1] \in {"apply", "release"} => Read(client'.reports, binding', snapshot'.bound)
  BY ReadKept
<1> QED BY <1>2, <1>3 DEF HeldNames

(* A report under the hold. *)
LEMMA NamesByReport ==
    ASSUME JInv, Data, HeldNames, Next, client.held, NEW t \in Trays, NEW l \in {Layer, Layer + 1}, Report(t, l)
    PROVE  HeldNames'
<1> DEFINE q == client.reports
           e == Reported(t, l, Len(seen) + 1)
           new == client'.reports
<1>1. /\ client' = HoldReport(client, t, l, Len(seen) + 1)
      /\ UNCHANGED <<binding, bind, undone, pc, snapshot>>
  BY DEF Report, history, lock
<1>2. /\ Len(seen) \in Nat /\ Len(seen') = Len(seen) + 1
      /\ \A i \in 1 .. Len(seen) : seen'[i] = seen[i]
      /\ seen'[Len(seen) + 1] = [tray |-> t, layer |-> l, reels |-> ReelsNow(t)]
      /\ l \in Layers /\ Len(seen) + 1 \in Layers
  <2>1. Len(seen) \in Nat BY DEF Data, SeenOK
  <2>2. Len(seen) + 1 \in Layers
    <3>1. Len(seen) < MaxReports BY DEF Report
    <3> QED BY <2>1, <3>1, LayersAre
  <2> QED BY <2>1, <2>2, OneMoreSeen
<1>3. q \in Seq(Held) /\ ClientOK
  BY DEF Data, ClientOK, ClientRec
<1>4. e \in Held /\ e.kind = "report" /\ e.tray = t /\ e.at = Len(seen) + 1
  BY <1>2, ReportedType DEF Reported
<1>5. Told(q, seen, binding, bind, undone) /\ Assigned(q, binding, bind, undone)
  BY DEF HeldNames
<1>6. new = q \/ new = Append(q, e) \/ \E o \in ReportsOf(Append(q, e)) : new = RemoveAt(Append(q, e), o)
  BY <1>1, <1>2, <1>3, HoldGrows
<1> HIDE DEF q, e, new
<1>7. Told(q, seen', binding, bind, undone)
  BY <1>2, <1>5, LaterNames
<1>8. /\ e.at \in 1 .. Len(seen') /\ Fits(binding[e.tray], e.at, seen', undone)
      /\ Noted(bind, e.tray) => Fits(bind.reel, e.at, seen', undone)
  BY <1>2, <1>4 DEF Fits, ReelsNow, Noted
<1>9. /\ Told(Append(q, e), seen', binding, bind, undone) /\ Assigned(Append(q, e), binding, bind, undone)
      /\ \A r : ChangesOf(Append(q, e), r) = ChangesOf(q, r)
  BY <1>3, <1>4, <1>5, <1>7, <1>8, GrownNames
<1>10. /\ Told(new, seen', binding, bind, undone) /\ Assigned(new, binding, bind, undone)
       /\ \A r : ChangesOf(new, r) = {} => ChangesOf(q, r) = {}
  <2>1. CASE new = q BY <1>5, <1>7, <2>1
  <2>2. CASE new = Append(q, e) BY <1>9, <2>2
  <2>3. ASSUME NEW o \in ReportsOf(Append(q, e)), new = RemoveAt(Append(q, e), o)
        PROVE  /\ Told(new, seen', binding, bind, undone) /\ Assigned(new, binding, bind, undone)
               /\ \A r : ChangesOf(new, r) = {} => ChangesOf(q, r) = {}
    <3>1. Append(q, e) \in Seq(Held) BY <1>3, <1>4, AppendProperties
    <3> QED BY <1>9, <2>3, <3>1, RemovedNames
  <2> QED BY <1>6, <2>1, <2>2, <2>3
<1>11. pc'[1] \in {"apply", "release"} => Read(new, binding', snapshot'.bound)
  BY <1>1, <1>10 DEF HeldNames, Read, q
<1> QED BY <1>1, <1>10, <1>11 DEF HeldNames, new

(* The note of an assignment. *)
LEMMA NamesByNote ==
    ASSUME JInv, Data, HeldNames, Next, client.held, NoteBind
    PROVE  HeldNames'
<1> DEFINE q == client.reports
           e == [kind |-> "change", tray |-> bind.tray, layer |-> Layer,
                 out |-> binding[bind.tray], new |-> bind.reel]
<1>1. /\ client' = [client EXCEPT !.reports = Append(@, e)] /\ bind # None /\ ~bind.noted
      /\ bind' = [bind EXCEPT !.noted = TRUE] /\ UNCHANGED <<seen, undone, binding>>
  BY DEF NoteBind, history
<1>2. q \in Seq(Held) /\ client'.reports = Append(q, e)
  BY <1>1 DEF Data, ClientOK, ClientRec
<1>3. bind \in Bindings /\ binding[bind.tray] \in Names
  BY <1>1 DEF JInv, Types, Bindings
<1>4. e \in Held /\ e.kind = "change" /\ e.tray = bind.tray /\ e.out = binding[e.tray] /\ e.new = bind.reel
  BY <1>3, LayerBound DEF Held, HeldChange, Data, Bindings
<1>5. bind' \in Bindings /\ bind'.noted /\ bind'.tray = bind.tray /\ bind'.reel = bind.reel
  BY <1>1, <1>3 DEF Bindings
<1>6. bind' # None
  BY <1>5, NoneAssumption DEF Bindings
<1> HIDE DEF q, e
<1>7. (\A t : Noted(bind', t) <=> t = e.tray) /\ bind'.reel = e.new /\ \A t \in Trays : ~Noted(bind, t)
  BY <1>1, <1>4, <1>5, <1>6 DEF Noted
<1>8. Told(q, seen, binding, bind, undone) /\ Assigned(q, binding, bind, undone)
  BY DEF HeldNames, q
<1>9. /\ Told(Append(q, e), seen, binding, bind', undone) /\ Assigned(Append(q, e), binding, bind', undone)
      /\ \A t : ChangesOf(Append(q, e), t) = {} => ChangesOf(q, t) = {} /\ t # e.tray
  BY <1>2, <1>4, <1>7, <1>8, ChangedNames
<1>10. \A bound : Read(client.reports, binding, bound) => Read(client'.reports, binding', bound)
  BY <1>1, <1>2, <1>9 DEF Read, q
<1>11. pc'[1] \in {"apply", "release"} => Read(client'.reports, binding', snapshot'.bound)
  BY <1>10, ReadKept
<1> QED BY <1>1, <1>2, <1>9, <1>11 DEF HeldNames

(* An assignment commits. *)
LEMMA NamesByCommit ==
    ASSUME JInv, Data, HeldNames, Next, client.held, CommitBind
    PROVE  HeldNames'
<1>1. /\ bind # None /\ bind.noted /\ binding' = [binding EXCEPT ![bind.tray] = bind.reel] /\ bind' = None
      /\ UNCHANGED <<seen, undone, client>>
  BY DEF CommitBind, history
<1>2. binding \in [Trays -> Names] /\ bind.tray \in Trays /\ client.reports \in Seq(Held)
  BY <1>1 DEF JInv, Types, Data, ClientOK, ClientRec
<1>3. Noted(bind, bind.tray) /\ \A r : ~Noted(bind', r)
  BY <1>1 DEF Noted
<1>4. Told(client.reports, seen, binding, bind, undone) /\ Assigned(client.reports, binding, bind, undone)
  BY DEF HeldNames
<1>5. \A i \in ReportsOf(client.reports) : client.reports[i].tray \in Trays
  <2> DEFINE q == client.reports
  <2>1. \A i \in 1 .. Len(q) : q[i] \in Held BY <1>2, ElementOfSeq
  <2>2. ReportsOf(q) \subseteq 1 .. Len(q) BY <1>2, ReportsFinite
  <2> QED BY <2>1, <2>2 DEF Held, HeldReport, HeldChange
<1>6. /\ Told(client.reports, seen, binding', bind', undone) /\ Assigned(client.reports, binding', bind', undone)
      /\ \A bound : Read(client.reports, binding, bound) => Read(client.reports, binding', bound)
  BY <1>1, <1>2, <1>3, <1>4, <1>5, CommittedNames
<1>7. pc'[1] \in {"apply", "release"} => Read(client'.reports, binding', snapshot'.bound)
  BY <1>1, <1>6, ReadKept
<1> QED BY <1>1, <1>6, <1>7 DEF HeldNames

(* An assignment is rolled back or cancelled. *)
LEMMA NamesByRollback ==
    ASSUME JInv, HeldNames, Next, client.held, UNCHANGED <<client, seen, binding>>,
           bind' = None, undone \subseteq undone', \A t : Noted(bind, t) => bind.reel \in undone'
    PROVE  HeldNames'
<1>1. Told(client.reports, seen, binding, bind, undone) /\ Assigned(client.reports, binding, bind, undone)
  BY DEF HeldNames
<1>2. \A t : ~Noted(bind', t)
  BY DEF Noted
<1>3. Told(client.reports, seen, binding, bind', undone') /\ Assigned(client.reports, binding, bind', undone')
  BY <1>1, <1>2, RolledBackNames
<1>4. pc'[1] \in {"apply", "release"} => Read(client'.reports, binding', snapshot'.bound)
  BY ReadKept
<1> QED BY <1>3, <1>4 DEF HeldNames

(* The other steps of the client and of an assignment. *)
LEMMA HeldStays ==
    ASSUME JInv, Data, Next, client'.held,
           \/ UNCHANGED client \/ WriterGivesUp \/ SeedApply \/ ReleaseHold
    PROVE  client.held /\ client'.reports = client.reports
<1>1. client \in ClientRec /\ DOMAIN client = DOMAIN FreshClient
  BY DEF Data, ClientOK, JInv, Types
<1>2. CASE UNCHANGED client
  BY <1>2
<1>3. CASE WriterGivesUp
  <2>1. replays # <<>> /\ replays[1].facts \in Seq(Named) \ {<<>>}
    BY <1>3 DEF WriterGivesUp, JInv, Batches, Data, BatchOK
  <2>2. PICK l \in Layers : client' = UnknownFrom(client, l)
    BY <1>3, <2>1, FirstLayer DEF WriterGivesUp
  <2> QED BY <1>1, <2>2, UnknownFromType, ClientKept
<1>4. CASE SeedApply \/ ReleaseHold
  <2>1. \A replay : Live(replay).held = FALSE BY LiveHoldsNothing
  <2> QED BY <1>4, <2>1, HoldEnds DEF ReplayOf
<1> QED BY <1>2, <1>3, <1>4

(* The steps that touch an assignment. *)
LEMMA BindWriters ==
    ASSUME Next
    PROVE  \/ UNCHANGED <<binding, bind, undone>>
           \/ \E t \in Trays, r \in Reels, locked \in BOOLEAN : BeginBind(t, r, locked)
           \/ NoteBind \/ CommitBind \/ RollBackBind \/ Cancel \/ Crash
BY DEF Next, Report, Finish, Deliver, WriterCommits, WriterFails, WriterGivesUp, LiveBody, StartSeed, SeedBody, SeedFails,
       SeedApply, AbandonBody, ReleaseHold, CompleteBody, Leave, history

(* Every step keeps the names of the held reports. *)
LEMMA HeldNamesStep == ASSUME JInv, Data, HeldNames, Next PROVE HeldNames'
<1> SUFFICES ASSUME client'.held PROVE HeldNames'
  BY DEF HeldNames
<1>1. ASSUME NEW t \in Trays, NEW l \in {Layer, Layer + 1}, Report(t, l) PROVE HeldNames'
  <2>1. client.held
    <3>1. DOMAIN client = DOMAIN FreshClient BY DEF JInv, Types
    <3> QED BY <1>1, <3>1, ClientKept DEF Report
  <2> QED BY <1>1, <2>1, NamesByReport
<1>2. CASE NoteBind /\ client.held
  BY <1>2, NamesByNote
<1>3. CASE CommitBind
  <2>1. client.held BY <1>3 DEF CommitBind
  <2> QED BY <1>3, <2>1, NamesByCommit
<1>4. CASE RollBackBind
  <2>1. client.held /\ UNCHANGED <<client, seen, binding>> /\ bind' = None /\ undone' = undone \cup {bind.reel}
    BY <1>4 DEF RollBackBind
  <2> QED BY <2>1, NamesByRollback
<1>5. CASE Cancel
  <2>1. client.held /\ UNCHANGED <<client, seen, binding>>
    BY <1>5 DEF Cancel
  <2>2. CASE UNCHANGED <<bind, undone>>
    BY <2>1, <2>2, NamesKept
  <2>3. CASE bind' = None /\ undone' = IF bind.noted THEN undone \cup {bind.reel} ELSE undone
    <3>1. undone \subseteq undone' /\ \A t : Noted(bind, t) => bind.reel \in undone'
      BY <2>3 DEF Noted
    <3> QED BY <2>1, <2>3, <3>1, NamesByRollback
  <2> QED BY <1>5, <2>2, <2>3 DEF Cancel
<1>6. CASE Crash
  <2>1. client' = FreshClient /\ bind' = None /\ pc' = <<"body">>
    BY <1>6 DEF Crash
  <2>2. client'.reports = <<>> /\ pc'[1] = "body"
    BY <2>1 DEF FreshClient
  <2>3. ReportsOf(client'.reports) = {} /\ \A t : ~Noted(bind', t) /\ ChangesOf(client'.reports, t) = {}
    BY <2>1, <2>2 DEF ReportsOf, Noted, ChangesOf
  <2>4. Told(client'.reports, seen', binding', bind', undone') /\ Assigned(client'.reports, binding', bind', undone')
    BY <2>3 DEF Told, Assigned, AssignedTo, LastChange
  <2> QED BY <2>2, <2>4 DEF HeldNames
<1>7. ASSUME NEW t \in Trays, NEW r \in Reels, NEW locked \in BOOLEAN, BeginBind(t, r, locked) PROVE HeldNames'
  <2>1. UNCHANGED <<client, seen, undone, binding>> /\ bind = None
    BY <1>7 DEF BeginBind, history
  <2>2. \A u : ~Noted(bind', u)
    BY <1>7 DEF BeginBind, Noted
  <2> QED BY <2>1, <2>2, NamesKept
<1>8. CASE /\ UNCHANGED <<binding, bind, undone>>
           /\ ~\E t \in Trays, l \in {Layer, Layer + 1} : Report(t, l)
           /\ UNCHANGED client \/ WriterGivesUp \/ SeedApply \/ ReleaseHold
  <2>1. UNCHANGED seen BY <1>8, SeenWriters
  <2>2. client.held /\ client'.reports = client.reports BY <1>8, HeldStays
  <2> QED BY <1>8, <2>1, <2>2, NamesKept
<1>9. NoteBind => client.held
  <2> SUFFICES ASSUME NoteBind PROVE client.held
    OBVIOUS
  <2>1. client' = client \/ client.held BY DEF NoteBind
  <2> QED BY <2>1
<1> QED BY <1>1, <1>2, <1>3, <1>4, <1>5, <1>6, <1>7, <1>8, <1>9, BindWriters, ClientWriters

(* What was seen stays seen. *)
LEMMA SeenGrows ==
    ASSUME JInv, Data, Next
    PROVE  /\ Len(seen) \in Nat /\ Len(seen') \in Nat /\ Len(seen) <= Len(seen')
           /\ \A k \in 1 .. Len(seen) : seen'[k] = seen[k]
<1>1. Len(seen) \in Nat
  BY DEF Data, SeenOK
<1>2. CASE UNCHANGED seen
  BY <1>1, <1>2
<1>3. ASSUME NEW t \in Trays, NEW l \in {Layer, Layer + 1}, Report(t, l)
      PROVE  Len(seen') = Len(seen) + 1 /\ \A k \in 1 .. Len(seen) : seen'[k] = seen[k]
  BY <1>3, OneMoreSeen
<1> QED BY <1>1, <1>2, <1>3, SeenWriters

(* What was rolled back stays rolled back. *)
LEMMA UndoneGrows == ASSUME Next PROVE undone \subseteq undone'
<1>1. CASE UNCHANGED <<binding, bind, undone>>
  BY <1>1
<1>2. CASE NoteBind \/ CommitBind \/ RollBackBind \/ Crash
  BY <1>2 DEF NoteBind, CommitBind, RollBackBind, Crash, history
<1>3. CASE Cancel
  BY <1>3 DEF Cancel
<1>4. ASSUME NEW t \in Trays, NEW r \in Reels, NEW locked \in BOOLEAN, BeginBind(t, r, locked) PROVE undone \subseteq undone'
  BY <1>4 DEF BeginBind, history
<1> QED BY <1>1, <1>2, <1>3, <1>4, BindWriters

(* Every step keeps the names of a batch. *)
LEMMA BatchNamesStep == ASSUME JInv, Data, Order, HeldNames, BatchNames, Next PROVE BatchNames'
<1> SUFFICES ASSUME replays' # <<>>, NEW k \in DOMAIN replays'[1].facts
             PROVE  NamedRight(replays'[1].facts[k], seen', undone')
  BY DEF BatchNames
<1>1. CASE replays # <<>> /\ replays'[1].facts = replays[1].facts
  <2>1. NamedRight(replays[1].facts[k], seen, undone)
    BY <1>1 DEF BatchNames
  <2>2. /\ Len(seen) \in Nat /\ Len(seen') \in Nat /\ Len(seen) <= Len(seen')
        /\ \A i \in 1 .. Len(seen) : seen'[i] = seen[i]
    BY SeenGrows
  <2> QED BY <1>1, <2>1, <2>2, UndoneGrows DEF NamedRight, Fits
<1>2. CASE UNCHANGED replays
  BY <1>1, <1>2
<1>3. CASE WriterFails
  <2>1. replays = <<replays[1]>> /\ DOMAIN replays[1] = {"facts", "failures"}
    BY <1>3 DEF WriterFails, JInv, Batches
  <2>2. replays'[1].facts = replays[1].facts /\ replays # <<>>
    BY <1>3, <2>1 DEF WriterFails
  <2> QED BY <1>1, <2>2
<1>4. CASE WriterCommits \/ WriterGivesUp \/ Crash
  BY <1>4, LastBatch DEF WriterCommits, WriterGivesUp, Crash
<1>5. CASE SeedApply \/ ReleaseHold
  <2>1. UNCHANGED <<seen, undone>> /\ (UNCHANGED replays \/ client.held)
    BY <1>5, HoldEnds
  <2>2. ASSUME client.held, snapshot \in Snap, NEW c \in ClientRec, NEW running \in BOOLEAN,
               c.reports = client.reports, ReplayOf(c, snapshot.bound, running)
        PROVE  NamedRight(replays'[1].facts[k], seen', undone')
    <3> DEFINE facts == Replayed(c, snapshot.bound, running).facts
               q == client.reports
    <3>1. snapshot.bound \in Bound /\ q \in Seq(Held)
      BY <2>2 DEF Snap, Data, ClientOK, ClientRec
    <3>2. Replaying(facts, q, snapshot.bound, Len(q))
      BY <2>2, <3>1, ReplayedFacts DEF Order
    <3>3. QueueAndDeliver(facts)
      BY <2>2 DEF ReplayOf
    <3>4. Told(q, seen, binding, bind, undone) /\ Assigned(q, binding, bind, undone) /\ Read(q, binding, snapshot.bound)
      BY <1>5, <2>2 DEF HeldNames, SeedApply, ReleaseHold, At
    <3> HIDE DEF facts, q
    <3>5. replays' = IF facts = <<>> THEN <<>> ELSE <<[facts |-> facts, failures |-> 0]>>
      BY <2>2, <3>3, NewBatch
    <3>6. replays'[1].facts = facts
      BY <3>5
    <3>7. ASSUME facts[k].at # 0, facts[k].reel # AtWrite
          PROVE  facts[k].at \in 1 .. Len(seen) /\ Fits(facts[k].reel, facts[k].at, seen, undone)
      <4>1. PICK r \in ReportsOf(q) : facts[k].at = q[r].at /\ facts[k].reel = IdentityAt(q, r, snapshot.bound)
        BY <3>2, <3>6, <3>7 DEF Replaying
      <4> QED BY <3>1, <3>4, <3>7, <4>1, IdentityFits
    <3> QED BY <2>1, <3>6, <3>7 DEF NamedRight
  <2> QED BY <1>2, <1>5, <2>2, HoldEnds
<1> QED BY <1>2, <1>3, <1>4, <1>5, ReplayWriters

-----------------------------------------------------------------------------
(* The inductive invariant of the module, and what it says. *)

UInv == JInv /\ DueOK /\ Data /\ Second /\ Order /\ HeldNames /\ BatchNames

(* Nothing is held or replayed at the start. *)
LEMMA NamesInit == ASSUME Init PROVE HeldNames /\ BatchNames
<1>1. client = FreshClient /\ bind = None /\ pc = <<"body">> /\ replays = <<>>
  BY DEF Init
<1>2. client.reports = <<>> /\ pc[1] = "body"
  BY <1>1 DEF FreshClient
<1>3. ReportsOf(client.reports) = {} /\ \A t : ~Noted(bind, t) /\ ChangesOf(client.reports, t) = {}
  BY <1>1, <1>2 DEF ReportsOf, Noted, ChangesOf
<1>4. Told(client.reports, seen, binding, bind, undone) /\ Assigned(client.reports, binding, bind, undone)
  BY <1>3 DEF Told, Assigned, AssignedTo, LastChange
<1> QED BY <1>1, <1>2, <1>4 DEF HeldNames, BatchNames

(* The invariant holds at the start. *)
LEMMA UInit == Init => UInv
BY JInit, DataInit, OrderInit, NamesInit DEF UInv

(* Every step keeps it. *)
LEMMA UStep == UInv /\ [Next]_vars => UInv'
<1> SUFFICES ASSUME UInv, [Next]_vars PROVE UInv'
  OBVIOUS
<1>1. JInv' BY JStep DEF UInv
<1>2. CASE Next
  <2>1. DueOK' /\ Data' BY <1>2, DataStep DEF UInv
  <2>2. Second' /\ Order' BY <1>2, SecondStep, OrderStep DEF UInv
  <2>3. HeldNames' /\ BatchNames' BY <1>2, HeldNamesStep, BatchNamesStep DEF UInv
  <2> QED BY <1>1, <2>1, <2>2, <2>3 DEF UInv
<1>3. CASE UNCHANGED vars
  <2> USE <1>3 DEF UInv, vars, lock, tail, history
  <2>1. DueOK' BY DEF DueOK
  <2>2. ClientOK' /\ JournalOK' /\ BatchOK' /\ SnapOK' BY DEF Data, ClientOK, JournalOK, BatchOK, SnapOK
  <2>3. SeenOK' /\ CountsOK' BY DEF Data, SeenOK, CountsOK
  <2>4. CallbackOK' /\ SeedOK' BY DEF Data, CallbackOK, SeedOK, Seeds
  <2>5. Second' BY DEF Second, Tried
  <2>6. Order' BY DEF Order, Written, Waiting, HeldAts, Lives, Called, CallsInOrder
  <2>7. HeldNames' BY DEF HeldNames
  <2>8. BatchNames' BY DEF BatchNames
  <2> QED BY <1>1, <2>1, <2>2, <2>3, <2>4, <2>5, <2>6, <2>7, <2>8 DEF Data
<1> QED BY <1>2, <1>3

(* The completion reads the chronology only when no hold, no batch and no   *)
(* writer of the print is left (settle_pending_replay), whatever crashed,   *)
(* was cancelled or failed to be written before: at most one batch ever     *)
(* waits, a batch that the second delivery of the completion finds has      *)
(* failed once, and a second failure is stated as unknown instead of kept.  *)
THEOREM Settled == Spec => []NothingLeftWaiting
<1>1. JInv /\ [Next]_vars => JInv' BY JStep
<1>2. JInv => NothingLeftWaiting BY DEF JInv
<1> QED BY JInit, <1>1, <1>2, PTL DEF Spec

(* The records of the client, the journal, the batches, the queue at the    *)
(* lock and the counters stay within their types: the hold never keeps more *)
(* than _JOURNAL_PENDING_LIMIT reports, whatever assignments are noted       *)
(* between them, and the seed never exceeds the budget of its retries.      *)
THEOREM UsageJournalTyped == Spec => []TypeOK
<1>1. UInv => TypeOK BY DataTyped DEF UInv
<1> QED BY <1>1, UInit, UStep, PTL DEF Spec

(* The changes reach the journal in the order the printer reported them,    *)
(* for any number of reports, held ones and live ones, of failed writes and *)
(* of restarts (journal_lock, deliver_pending_replay).                      *)
THEOREM JournalKeepsOrder == Spec => []JournalInOrder
<1>1. UInv => JournalInOrder BY DEF UInv, Order, InOrder, JournalInOrder
<1> QED BY <1>1, UInit, UStep, PTL DEF Spec

(* A replayed change names a reel that was in the tray when the printer     *)
(* reported it, or one of an assignment that was noted and rolled back, for *)
(* any assignments before, during and after the hold (_identity_at,         *)
(* ensure_tail_recorded).                                                  *)
THEOREM ReplaysAreNamed == Spec => []ReplayNamesItsReel
<1>1. UInv => ReplayNamesItsReel
  <2> SUFFICES ASSUME UInv, NEW i \in DOMAIN replays, NEW k \in DOMAIN replays[i].facts,
                      replays[i].facts[k].at # 0, replays[i].facts[k].reel # AtWrite
               PROVE  replays[i].facts[k].reel \in seen[replays[i].facts[k].at].reels \cup undone
    BY DEF ReplayNamesItsReel
  <2>1. i = 1 /\ replays # <<>>
    <3>1. replays = <<>> \/ replays = <<replays[1]>> BY DEF UInv, JInv, Batches
    <3> QED BY <3>1
  <2> QED BY <2>1 DEF UInv, BatchNames, NamedRight, Fits
<1> QED BY <1>1, UInit, UStep, PTL DEF Spec

=============================================================================
