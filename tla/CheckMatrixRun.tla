--------------------------- MODULE CheckMatrixRun ---------------------------
(***************************************************************************)
(* The life of the runs (수행) of the check matrix: check_matrix_runs rows *)
(* are created by an API request or by the cron path, published to Celery, *)
(* executed by a worker, cancelled by a user and swept by the minutely     *)
(* dispatcher.  Every actor works on the same row through its own          *)
(* SQLAlchemy session, under READ COMMITTED, so a read and the write that  *)
(* relies on it are separate steps here whenever the code holds no lock    *)
(* between them.                                                           *)
(*                                                                         *)
(* item_id, cluster_id and trigger of a run never change; they are the     *)
(* constants CellOf and CronRuns.  Rows that do not exist yet are "none".  *)
(***************************************************************************)
EXTENDS Naturals

CONSTANTS
  Runs,        \* ids of check_matrix_runs rows; also the Celery task ids
  Cells,       \* (item, cluster) pairs
  CellOf,      \* the cell a run belongs to
  SourceOf,    \* source_type of the cell's item
  CronRuns,    \* runs created by the cron path (their task id is not the run id)
  Requesters,  \* API requests that call start_batch, once each
  Cancellers,  \* API requests that call cancel_runs
  MaxTries,    \* bound: retries of a run waiting for its tenant's slot
  MaxSteps,    \* bound: step callbacks of one check
  NoRun        \* marks the absence of a run

\* addon and batch_job items commit like playbook items, within the default
\* task limit: they are "short".  manual items are never executed.
Sources == {"core_bundle", "deep_check", "short", "playbook"}

ASSUME RunAssumption ==
  /\ CellOf \in [Runs -> Cells]
  /\ SourceOf \in [Cells -> Sources]
  /\ CronRuns \subseteq Runs
  /\ MaxTries \in Nat /\ MaxSteps \in Nat
  /\ NoRun \notin Runs

VARIABLES
  state,      \* run_state column of the row
  verdict,    \* whether the status column of the row holds a judgement
  overdue,    \* rows older than the sweeper's cut-off for their state
  pc,         \* where the task of the run is
  seen,       \* run_state in the worker session's identity map
  next,       \* run_state the worker's open transaction will write
  upserts,    \* whether that transaction also upserts the cell
  streamed,   \* whether a step callback has logged (streamed[0] > 0)
  steps,      \* steps the checker has entered
  tries,      \* task.request.retries
  result,     \* check_matrix_results: the run whose verdict the cell shows
  resultLog,  \* check_matrix_result_logs: runs with an appended entry
  rq,         \* start_batch requests: their program counter
  fresh,      \* cells a request found idle and will queue
  plan,       \* runs a request still has to publish
  broken,     \* whether a request has met a broker error
  marking,    \* the run a request is marking failed
  cn,         \* cancel_runs requests: their program counter
  cnQueued,   \* rows a cancel read as queued
  cnRunning,  \* rows a cancel read as running
  cancelAt    \* history: when the last effective cancel was committed

rowVars    == <<state, verdict, overdue>>
workVars   == <<pc, seen, next, upserts, streamed, steps, tries>>
cellVars   == <<result, resultLog>>
rqVars     == <<rq, fresh, plan, broken, marking>>
cnVars     == <<cn, cnQueued, cnRunning, cancelAt>>
vars       == <<rowVars, workVars, cellVars, rqVars, cnVars>>

Active   == {"queued", "running"}
Settled  == {"success", "failed", "skipped", "cancelled"}
States   == {"none"} \cup Active \cup Settled
ManualRuns == Runs \ CronRuns

\* The task is in a flush: its before_flush SELECT is done, its UPDATE is not.
Flushing == {"starting", "finishing"}
\* A worker process is executing the task.
Live     == {"picked", "starting", "started", "plan", "check", "stepping",
             "collected", "finishing"}
PCs      == {"none", "sent", "done", "dead"} \cup Live

Source(r) == SourceOf[CellOf[r]]

Init ==
  /\ state = [r \in Runs |-> "none"]
  /\ verdict = [r \in Runs |-> FALSE]
  /\ overdue = {}
  /\ pc = [r \in Runs |-> "none"]
  /\ seen = [r \in Runs |-> "expired"]
  /\ next = [r \in Runs |-> "none"]
  /\ upserts = [r \in Runs |-> FALSE]
  /\ streamed = [r \in Runs |-> FALSE]
  /\ steps = [r \in Runs |-> 0]
  /\ tries = [r \in Runs |-> 0]
  /\ result = [c \in Cells |-> NoRun]
  /\ resultLog = {}
  /\ rq = [q \in Requesters |-> "idle"]
  /\ fresh = [q \in Requesters |-> {}]
  /\ plan = [q \in Requesters |-> {}]
  /\ broken = [q \in Requesters |-> FALSE]
  /\ marking = [q \in Requesters |-> NoRun]
  /\ cn = [c \in Cancellers |-> "idle"]
  /\ cnQueued = [c \in Cancellers |-> {}]
  /\ cnRunning = [c \in Cancellers |-> {}]
  /\ cancelAt = [r \in Runs |-> "no"]

-----------------------------------------------------------------------------
(* start_batch: read the active pairs, insert the others, publish them.    *)

\* Cells with a queued or running run.
ActiveCells == {CellOf[r] : r \in {s \in Runs : state[s] \in Active}}

BatchRead(q) ==
  /\ rq[q] = "idle"
  /\ \E pairs \in SUBSET Cells :
       /\ pairs # {}
       /\ fresh' = [fresh EXCEPT ![q] = pairs \ ActiveCells]
  /\ rq' = [rq EXCEPT ![q] = "insert"]
  /\ UNCHANGED <<rowVars, workVars, cellVars, plan, broken, marking, cnVars>>

\* All rows of the batch in one commit: one new run for each fresh cell.
BatchInsert(q) ==
  /\ rq[q] = "insert"
  /\ \E new \in SUBSET {r \in ManualRuns : state[r] = "none"} :
       /\ {CellOf[r] : r \in new} = fresh[q]
       /\ \A r, s \in new : CellOf[r] = CellOf[s] => r = s
       /\ state' = [r \in Runs |-> IF r \in new THEN "queued" ELSE state[r]]
       /\ plan' = [plan EXCEPT ![q] = new]
  /\ rq' = [rq EXCEPT ![q] = "publish"]
  /\ UNCHANGED <<verdict, overdue, workVars, cellVars, fresh, broken, marking, cnVars>>

Publish(q, r) ==
  /\ r \in plan[q] /\ ~broken[q]
  /\ plan' = [plan EXCEPT ![q] = @ \ {r}]
  /\ pc' = [pc EXCEPT ![r] = "sent"]
  /\ UNCHANGED <<rowVars, seen, next, upserts, streamed, steps, tries, cellVars,
                 rq, fresh, broken, marking, cnVars>>

\* The first broker error ends the publishing; the rest is marked failed.
PublishFails(q) ==
  /\ plan[q] # {} /\ ~broken[q]
  /\ broken' = [broken EXCEPT ![q] = TRUE]
  /\ UNCHANGED <<rowVars, workVars, cellVars, rq, fresh, plan, marking, cnVars>>

\* Only a run that is still queued is marked failed.
MarkRead(q, r) ==
  /\ r \in plan[q] /\ broken[q] /\ marking[q] = NoRun
  /\ plan' = [plan EXCEPT ![q] = @ \ {r}]
  /\ marking' = [marking EXCEPT ![q] = IF state[r] = "queued" THEN r ELSE NoRun]
  /\ UNCHANGED <<rowVars, workVars, cellVars, rq, fresh, broken, cnVars>>

MarkWrite(q) ==
  /\ marking[q] # NoRun
  /\ state' = [state EXCEPT ![marking[q]] = "failed"]
  /\ marking' = [marking EXCEPT ![q] = NoRun]
  /\ UNCHANGED <<verdict, overdue, workVars, cellVars, rq, fresh, plan, broken, cnVars>>

\* The API process dies after the insert: its background publish is lost.
RequesterDies(q) ==
  /\ plan[q] # {} \/ marking[q] # NoRun
  /\ plan' = [plan EXCEPT ![q] = {}]
  /\ marking' = [marking EXCEPT ![q] = NoRun]
  /\ UNCHANGED <<rowVars, workVars, cellVars, rq, fresh, broken, cnVars>>

\* run_check_matrix_cell_one / _core_bundle_one / _definition_one create their
\* run and execute it in place, without looking for an active one.
CronFire(r) ==
  /\ r \in CronRuns /\ state[r] = "none"
  /\ state' = [state EXCEPT ![r] = "queued"]
  /\ pc' = [pc EXCEPT ![r] = "picked"]
  /\ seen' = [seen EXCEPT ![r] = "queued"]
  /\ UNCHANGED <<verdict, overdue, next, upserts, streamed, steps, tries, cellVars,
                 rqVars, cnVars>>

-----------------------------------------------------------------------------
(* The worker: run_check_matrix_run_one and execute_run.                   *)

Pick(r) ==
  /\ pc[r] = "sent"
  /\ IF state[r] = "queued"
       THEN /\ pc' = [pc EXCEPT ![r] = "picked"]
            /\ seen' = [seen EXCEPT ![r] = "queued"]
       ELSE /\ pc' = [pc EXCEPT ![r] = "done"]
            /\ UNCHANGED seen
  /\ UNCHANGED <<rowVars, next, upserts, streamed, steps, tries, cellVars, rqVars, cnVars>>

\* Mutant of WaitForSlot: one retry too many.
WaitForSlotOffByOne(r) ==
  /\ pc[r] = "picked" /\ r \in ManualRuns /\ tries[r] <= MaxTries
  /\ pc' = [pc EXCEPT ![r] = "sent"]
  /\ tries' = [tries EXCEPT ![r] = @ + 1]
  /\ seen' = [seen EXCEPT ![r] = "expired"]
  /\ UNCHANGED <<rowVars, next, upserts, streamed, steps, cellVars, rqVars, cnVars>>

\* The tenant is at its limit: note it on the row and retry later.
WaitForSlot(r) ==
  /\ pc[r] = "picked" /\ r \in ManualRuns /\ tries[r] < MaxTries
  /\ pc' = [pc EXCEPT ![r] = "sent"]
  /\ tries' = [tries EXCEPT ![r] = @ + 1]
  /\ seen' = [seen EXCEPT ![r] = "expired"]
  /\ UNCHANGED <<rowVars, next, upserts, streamed, steps, cellVars, rqVars, cnVars>>

\* Mutant of KeptState: no before_flush guard.
KeptStateUnguarded(r, requested) == requested

\* _keep_cancelled_runs: the state a flush will write for the requested one.
KeptState(r, requested) ==
  IF state[r] = "cancelled" THEN "cancelled" ELSE requested

\* _finish_run reads run.details, which reloads a row expired by a commit or a
\* rollback, and the caller commits.
FinishRun(r, requested) ==
  /\ pc' = [pc EXCEPT ![r] = "finishing"]
  /\ next' = [next EXCEPT ![r] = KeptState(r, requested)]
  /\ seen' = [seen EXCEPT ![r] = state[r]]

\* The ORM writes run_state only if it differs from what the session loaded.
Written(r) == IF next[r] # seen[r] THEN next[r] ELSE state[r]

\* The row is still cached, and the flush's hook SELECTs it: the UPDATE follows.
SlotTimeout(r) ==
  /\ pc[r] = "picked" /\ r \in ManualRuns /\ tries[r] = MaxTries
  /\ pc' = [pc EXCEPT ![r] = "finishing"]
  /\ next' = [next EXCEPT ![r] = KeptState(r, "failed")]
  /\ UNCHANGED <<rowVars, seen, upserts, streamed, steps, tries, cellVars, rqVars, cnVars>>

\* execute_run finds the row in the identity map, i.e. what Pick saw, unless a
\* run that has waited was told of its slot: that note commits and expires it.
Start(r) ==
  /\ pc[r] = "picked"
  /\ \E row \in {seen[r], IF tries[r] > 0 THEN state[r] ELSE seen[r]} :
       /\ seen' = [seen EXCEPT ![r] = row]
       /\ IF row = "cancelled"
            THEN /\ pc' = [pc EXCEPT ![r] = "done"]
                 /\ UNCHANGED next
            ELSE /\ pc' = [pc EXCEPT ![r] = "starting"]
                 /\ next' = [next EXCEPT ![r] = KeptState(r, "running")]
  /\ UNCHANGED <<rowVars, upserts, streamed, steps, tries, cellVars, rqVars, cnVars>>

\* The UPDATE restarts the sweeper's clock (started_at).
StartCommit(r) ==
  /\ pc[r] = "starting"
  /\ state' = [state EXCEPT ![r] = Written(r)]
  /\ overdue' = overdue \ {r}
  /\ pc' = [pc EXCEPT ![r] = "started"]
  /\ seen' = [seen EXCEPT ![r] = "expired"]
  /\ UNCHANGED <<verdict, next, upserts, streamed, steps, tries, cellVars, rqVars, cnVars>>

\* Mutant of FirstProgress: the re-read is dropped.
FirstProgressUnchecked(r) ==
  /\ pc[r] = "started"
  /\ pc' = [pc EXCEPT ![r] = "plan"]
  /\ UNCHANGED <<rowVars, seen, next, upserts, streamed, steps, tries, cellVars, rqVars, cnVars>>

\* The re-read after the commit and the first _progress: stop if cancelled.
FirstProgress(r) ==
  /\ pc[r] = "started"
  /\ pc' = [pc EXCEPT ![r] = IF state[r] = "cancelled" THEN "done" ELSE "plan"]
  /\ UNCHANGED <<rowVars, seen, next, upserts, streamed, steps, tries, cellVars, rqVars, cnVars>>

\* _progress evaluates run.run_state, which a preceding commit has expired,
\* and only then the row: RunCancelled needs the cancel between the two.
LoadRun(r) == seen' = [seen EXCEPT ![r] = IF @ = "expired" THEN state[r] ELSE @]
Notices(r) == seen[r] = "running" /\ state[r] = "cancelled"

PlanLoad(r) ==
  /\ pc[r] = "plan" /\ seen[r] = "expired"
  /\ LoadRun(r)
  /\ UNCHANGED <<rowVars, pc, next, upserts, streamed, steps, tries, cellVars, rqVars, cnVars>>

PlanProgress(r) ==
  /\ pc[r] = "plan" /\ seen[r] # "expired"
  /\ pc' = [pc EXCEPT ![r] = IF Notices(r) THEN "done" ELSE "check"]
  /\ seen' = [seen EXCEPT ![r] = "expired"]
  /\ UNCHANGED <<rowVars, next, upserts, streamed, steps, tries, cellVars, rqVars, cnVars>>

\* A deep check enters a step: on_step calls _progress ...
StepLoad(r) ==
  /\ pc[r] = "check" /\ Source(r) = "deep_check" /\ steps[r] < MaxSteps
  /\ LoadRun(r)
  /\ pc' = [pc EXCEPT ![r] = "stepping"]
  /\ steps' = [steps EXCEPT ![r] = @ + 1]
  /\ UNCHANGED <<rowVars, next, upserts, streamed, tries, cellVars, rqVars, cnVars>>

\* ... and _emit_step swallows whatever the callback raises.
StepProgress(r) ==
  /\ pc[r] = "stepping"
  /\ pc' = [pc EXCEPT ![r] = "check"]
  /\ IF Notices(r)
       THEN UNCHANGED <<seen, streamed>>
       ELSE /\ seen' = [seen EXCEPT ![r] = "expired"]
            /\ streamed' = [streamed EXCEPT ![r] = TRUE]
  /\ UNCHANGED <<rowVars, next, upserts, steps, tries, cellVars, rqVars, cnVars>>

\* Mutant of UpsertResult: the history append is forgotten.
UpsertResultOnly(r) ==
  /\ result' = [result EXCEPT ![CellOf[r]] = r]
  /\ UNCHANGED resultLog

\* The upsert of the cell and the append to its history.
UpsertResult(r) ==
  /\ result' = [result EXCEPT ![CellOf[r]] = r]
  /\ resultLog' = resultLog \cup {r}

\* Mutant of CommitsCellEarly: every source commits its cell before the verdict.
CommitsEveryCellEarly(r) == TRUE

\* DailyChecker's result is projected to the cell in a commit of its own.
CommitsCellEarly(r) == Source(r) = "core_bundle"

\* The check has returned.  The load is that of a _progress that may follow.
Collect(r) ==
  /\ pc[r] = "check"
  /\ LoadRun(r)
  /\ pc' = [pc EXCEPT ![r] = "collected"]
  /\ IF CommitsCellEarly(r) THEN UpsertResult(r) ELSE UNCHANGED cellVars
  /\ UNCHANGED <<rowVars, next, upserts, streamed, steps, tries, rqVars, cnVars>>

\* A check with no logged callback replays its steps through _progress, and a
\* collection error is announced through it: these may still raise.
StopsBeforeVerdict(r, outcome) ==
  Source(r) = "deep_check" /\ (outcome = "failed" \/ (~streamed[r] /\ steps[r] > 0)) /\ Notices(r)

\* Whether the transaction of the verdict holds the upsert of the cell.
UpsertsWithVerdict(r, outcome) == outcome = "success" /\ ~CommitsCellEarly(r)

\* _execute_into_run ends: success upserts the cell in the same transaction.
Judge(r, outcome) ==
  /\ pc[r] = "collected"
  /\ outcome = "failed" => Source(r) # "core_bundle"
  /\ outcome = "skipped" => Source(r) = "short"
  /\ IF StopsBeforeVerdict(r, outcome)
       THEN /\ pc' = [pc EXCEPT ![r] = "done"]
            /\ UNCHANGED <<seen, next, upserts>>
       ELSE /\ FinishRun(r, outcome)
            /\ upserts' = [upserts EXCEPT ![r] = UpsertsWithVerdict(r, outcome)]
  /\ UNCHANGED <<rowVars, streamed, steps, tries, cellVars, rqVars, cnVars>>

\* No definition, addon or job to run on this cluster: skipped, before the check.
\* (An addon check that resolves no target is skipped after it: see Judge.)
Skip(r) ==
  /\ pc[r] = "plan" /\ seen[r] # "expired" /\ ~Notices(r)
  /\ Source(r) # "core_bundle"
  /\ FinishRun(r, "skipped")
  /\ UNCHANGED <<rowVars, upserts, streamed, steps, tries, cellVars, rqVars, cnVars>>

\* Any exception, the soft time limit included: rollback, re-read, mark failed.
Fail(r) ==
  /\ pc[r] \in {"plan", "check", "stepping", "collected", "finishing"}
  /\ pc[r] = "finishing" => next[r] # "failed"
  /\ FinishRun(r, "failed")
  /\ upserts' = [upserts EXCEPT ![r] = FALSE]
  /\ UNCHANGED <<rowVars, streamed, steps, tries, cellVars, rqVars, cnVars>>

\* The commit of the verdict.  The upsert was executed before the flush: it is
\* committed whatever the hook made of run_state.
FinishCommit(r) ==
  /\ pc[r] = "finishing"
  /\ state' = [state EXCEPT ![r] = Written(r)]
  /\ verdict' = [verdict EXCEPT ![r] = @ \/ next[r] = "success"]
  /\ IF upserts[r] THEN UpsertResult(r) ELSE UNCHANGED cellVars
  /\ pc' = [pc EXCEPT ![r] = "done"]
  /\ UNCHANGED <<overdue, seen, next, upserts, streamed, steps, tries, rqVars, cnVars>>

\* A lost message, a killed worker, the hard time limit: the open transaction
\* is rolled back and nobody runs the task again (Celery acknowledges early).
TaskLost(r) ==
  /\ pc[r] \in Live \cup {"sent"}
  /\ pc' = [pc EXCEPT ![r] = "dead"]
  /\ UNCHANGED <<rowVars, seen, next, upserts, streamed, steps, tries, cellVars, rqVars, cnVars>>

-----------------------------------------------------------------------------
(* cancel_runs: read the active rows, mark them cancelled, then revoke.    *)

CancelRead(c) ==
  /\ cn[c] = "idle"
  /\ \E rows \in SUBSET {r \in Runs : state[r] \in Active} :
       /\ rows # {}
       /\ cnQueued' = [cnQueued EXCEPT ![c] = {r \in rows : state[r] = "queued"}]
       /\ cnRunning' = [cnRunning EXCEPT ![c] = {r \in rows : state[r] = "running"}]
  /\ cn' = [cn EXCEPT ![c] = "write"]
  /\ UNCHANGED <<rowVars, workVars, cellVars, rqVars, cancelAt>>

\* Where the run's own writers are when a cancel of it is committed.
Phase(r) ==
  IF pc[r] \in Flushing \/ (\E q \in Requesters : marking[q] = r) THEN "flush"
  ELSE IF pc[r] \in {"none", "sent", "picked"} THEN "early" ELSE "late"

\* UPDATE by primary key: nothing re-checks the state.  status is NULL in what
\* the session loaded, so the ORM leaves that column out of the UPDATE.
CancelWrite(c) ==
  /\ cn[c] = "write"
  /\ LET rows == cnQueued[c] \cup cnRunning[c] IN
       /\ state' = [r \in Runs |-> IF r \in rows THEN "cancelled" ELSE state[r]]
       /\ cancelAt' = [r \in Runs |-> IF r \in rows /\ state[r] # "cancelled"
                                        THEN Phase(r) ELSE cancelAt[r]]
  /\ cn' = [cn EXCEPT ![c] = "revoke"]
  /\ UNCHANGED <<verdict, overdue, workVars, cellVars, rqVars, cnQueued, cnRunning>>

\* Revoke by run id: a waiting task is dropped, a running one is terminated.
\* Both are best effort, and neither reaches a run executed by a cron task.
Revoke(c) ==
  /\ cn[c] = "revoke"
  /\ \E reached \in {{}, cnQueued[c], cnQueued[c] \cup cnRunning[c]} :
       pc' = [r \in Runs |->
                IF r \in reached \cap ManualRuns
                   /\ (pc[r] = "sent" \/ (r \in cnRunning[c] /\ pc[r] \in Live))
                  THEN "dead" ELSE pc[r]]
  /\ cn' = [cn EXCEPT ![c] = "idle"]
  /\ cnQueued' = [cnQueued EXCEPT ![c] = {}]
  /\ cnRunning' = [cnRunning EXCEPT ![c] = {}]
  /\ UNCHANGED <<rowVars, seen, next, upserts, streamed, steps, tries, cellVars, rqVars, cancelAt>>

-----------------------------------------------------------------------------
(* The sweeper of dispatch_due.                                            *)

\* The hard limit of a task (280 s) is far below the cut-off of a running row
\* (30 min): by then its worker is gone.  Only a playbook may have a longer
\* limit (timeout_seconds + 60, up to 1860 s).
Outlives(r) == Source(r) = "playbook" /\ r \in ManualRuns

Age(r) ==
  /\ state[r] \in Active /\ r \notin overdue
  /\ state[r] = "running" /\ pc[r] \in Live => Outlives(r)
  /\ overdue' = overdue \cup {r}
  /\ UNCHANGED <<state, verdict, workVars, cellVars, rqVars, cnVars>>

\* Mutant of Stale: only running rows are swept.
StaleRunning == {r \in overdue : state[r] = "running"}

\* The rows the bulk UPDATE matches.
Stale == {r \in overdue : state[r] \in Active}

Sweep ==
  /\ Stale # {}
  /\ state' = [r \in Runs |-> IF r \in Stale THEN "failed" ELSE state[r]]
  /\ overdue' = overdue \ Stale
  /\ UNCHANGED <<verdict, workVars, cellVars, rqVars, cnVars>>

-----------------------------------------------------------------------------
Request(q) ==
  \/ BatchRead(q) \/ BatchInsert(q) \/ PublishFails(q) \/ MarkWrite(q) \/ RequesterDies(q)
  \/ \E r \in Runs : Publish(q, r) \/ MarkRead(q, r)

Begin(r) ==
  \/ Pick(r) \/ WaitForSlot(r) \/ SlotTimeout(r) \/ Start(r) \/ StartCommit(r)

Execute(r) ==
  \/ FirstProgress(r) \/ PlanLoad(r) \/ PlanProgress(r) \/ Skip(r)
  \/ StepLoad(r) \/ StepProgress(r) \/ Collect(r)
  \/ \E outcome \in {"success", "failed", "skipped"} : Judge(r, outcome)
  \/ FinishCommit(r)

Cancel(c) == CancelRead(c) \/ CancelWrite(c) \/ Revoke(c)

Next ==
  \/ \E q \in Requesters : Request(q)
  \/ \E r \in Runs : CronFire(r) \/ Begin(r) \/ Execute(r) \/ Fail(r) \/ TaskLost(r) \/ Age(r)
  \/ \E c \in Cancellers : Cancel(c)
  \/ Sweep

Spec == Init /\ [][Next]_vars

\* A live worker process and the minutely dispatcher keep going, and time
\* passes.  Nothing forces a user to act, a broker to deliver or a request to
\* publish.
Fairness ==
  /\ \A r \in Runs : WF_vars(Begin(r) /\ pc[r] # "sent") /\ WF_vars(Execute(r)) /\ WF_vars(Age(r))
  /\ WF_vars(Sweep)

FairSpec == Spec /\ Fairness

-----------------------------------------------------------------------------
(* Properties.                                                             *)

\* Every variable keeps its type; a worker's pending write is a run state.
TypeOK ==
  /\ state \in [Runs -> States] /\ verdict \in [Runs -> BOOLEAN] /\ overdue \in SUBSET Runs
  /\ pc \in [Runs -> PCs] /\ seen \in [Runs -> States \cup {"expired"}]
  /\ next \in [Runs -> States] /\ upserts \in [Runs -> BOOLEAN]
  /\ streamed \in [Runs -> BOOLEAN] /\ steps \in [Runs -> 0..MaxSteps]
  /\ tries \in [Runs -> 0..MaxTries]
  /\ result \in [Cells -> Runs \cup {NoRun}] /\ resultLog \in SUBSET Runs
  /\ rq \in [Requesters -> {"idle", "insert", "publish"}]
  /\ fresh \in [Requesters -> SUBSET Cells] /\ plan \in [Requesters -> SUBSET Runs]
  /\ broken \in [Requesters -> BOOLEAN] /\ marking \in [Requesters -> Runs \cup {NoRun}]
  /\ cn \in [Cancellers -> {"idle", "write", "revoke"}]
  /\ cnQueued \in [Cancellers -> SUBSET Runs] /\ cnRunning \in [Cancellers -> SUBSET Runs]
  /\ cancelAt \in [Runs -> {"no", "flush", "early", "late"}]

\* A cancel stays: unless it is committed between the SELECT and the UPDATE of
\* another writer's flush, no worker, publisher or sweep ever overwrites it
\* (_keep_cancelled_runs, the sweeper's filter, the publisher's re-read).
CancelSticks ==
  \A r \in Runs : cancelAt[r] \in {"early", "late"} => state[r] = "cancelled"

\* A run cancelled before a worker flushes its start is never executed and
\* never touches its cell, wherever its message, its task and the revoke are.
EarlyCancelNeverRuns ==
  \A r \in Runs : cancelAt[r] = "early" =>
    /\ pc[r] \notin {"plan", "check", "stepping", "collected"}
    /\ r \notin resultLog

\* The cell and the row change together: a run whose result is in the cell's
\* history ended in success, or was cancelled; never failed, skipped, swept or
\* still active.  core_bundle, which commits its projection first, is excepted.
OnlyJudgedRunsWriteCells ==
  \A r \in resultLog : Source(r) # "core_bundle" => state[r] \in {"success", "cancelled"}

\* Conversely a judgement on a row, and whatever a cell shows, is in the cell's
\* append-only history, for every source and across crashes and cancels.
VerdictIsLogged ==
  /\ \A r \in Runs : verdict[r] \/ state[r] = "success" => r \in resultLog
  /\ \A c \in Cells : result[c] # NoRun => result[c] \in resultLog

\* What the rows of a cell's history promise, check_matrix_results and
\* check_matrix_result_logs being the cell and its history: see CellHistory.
History == INSTANCE CellHistory WITH shown <- result, recorded <- resultLog

\* Every run is recorded at most once, and the cell shows the last one recorded,
\* although runs of the same cell overlap, are cancelled, swept and retried.
RecordsOnce == History!Spec

\* No run stays queued or running for ever: whatever is lost (the publish, the
\* message, the worker), the sweeper settles it.
EveryRunSettles ==
  \A r \in Runs : state[r] \in Active ~> state[r] \in Settled

-----------------------------------------------------------------------------
(* What the repository says and the code does not do: TLC finds each of    *)
(* these violated (README).                                                *)

\* cancel_runs: "판정이 없는 중단이라 셀 값은 덮지 않는다(이전 결과 유지)".  Stated for
\* cancels committed while the check is executing, no flush of the row pending.
CancelledKeepsCell ==
  [][\A r \in Runs : cancelAt[r] = "late" /\ r \notin resultLog => r \notin resultLog']_vars

\* _progress: "실행 중 취소 — 다음 단계로 넘어가기 전에 멈춘다": no progress call of a
\* cancelled run lets the check go on.
CancelledEntersNoStep ==
  [][\A r \in Runs : state[r] = "cancelled" /\ pc[r] \in {"plan", "stepping"}
       => pc'[r] # "check"]_vars
=============================================================================
