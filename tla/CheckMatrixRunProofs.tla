------------------------ MODULE CheckMatrixRunProofs ------------------------
(***************************************************************************)
(* The safety of check matrix runs, for every set of runs, cells, requests *)
(* and cancels.  The inductive invariant has two halves: what a request    *)
(* may still do to a row (RequestInv), and how far the worker's task, the  *)
(* row and the cell's history may be apart (RunInv).                       *)
(***************************************************************************)
EXTENDS CheckMatrixRun, TLAPS

\* A request publishes or marks failed only rows it inserted and no task runs:
\* so its writes never meet a worker's.
RequestInv ==
  \A q \in Requesters :
    /\ \A r \in plan[q] : pc[r] = "none" /\ state[r] # "none"
    /\ marking[q] # NoRun => pc[marking[q]] = "none" /\ state[marking[q]] # "none"
    /\ \A p \in Requesters :
         /\ marking[q] \notin plan[p]
         /\ p # q => plan[q] \cap plan[p] = {}

\* A row exists before its task does, and starts without a past.
BirthInv(r) ==
  state[r] = "none" => pc[r] = "none" /\ cancelAt[r] = "no"

\* The write a flush has decided on is one the hook allows.
FlushInv(r) ==
  /\ pc[r] = "starting" => next[r] \in {"running", "cancelled"}
  /\ pc[r] = "finishing" => next[r] \in Settled
  /\ pc[r] \in Flushing /\ next[r] = "cancelled" => state[r] = "cancelled"

\* A cancel that found no flush open is seen by every flush after it.
CancelInv(r) ==
  /\ cancelAt[r] \in {"early", "late"} =>
       /\ state[r] = "cancelled"
       /\ pc[r] \in Flushing => next[r] = "cancelled"
       /\ \A q \in Requesters : marking[q] # r
  /\ cancelAt[r] = "early" =>
       /\ pc[r] \notin {"plan", "check", "stepping", "collected"}
       /\ pc[r] = "finishing" => ~upserts[r]
       /\ r \notin resultLog

\* The cell is written by the transaction that settles the row, or, for
\* core_bundle, by the projection just before it.
CellInv(r) ==
  /\ pc[r] \notin {"finishing", "done", "dead"} => ~upserts[r]
  /\ pc[r] = "finishing" /\ upserts[r] =>
       next[r] \in {"success", "cancelled"} /\ seen[r] # "success" /\ Source(r) # "core_bundle"
  /\ pc[r] = "finishing" /\ next[r] = "success" /\ Source(r) = "core_bundle" => r \in resultLog
  /\ pc[r] = "finishing" /\ next[r] = "success" /\ Source(r) # "core_bundle" => upserts[r]
  /\ pc[r] = "collected" /\ Source(r) = "core_bundle" => r \in resultLog
  /\ r \in resultLog => pc[r] \in {"collected", "finishing", "done", "dead"}
  /\ r \in resultLog /\ Source(r) # "core_bundle" =>
       pc[r] = "done" /\ state[r] \in {"success", "cancelled"}
  /\ verdict[r] \/ state[r] = "success" => r \in resultLog

OneRunInv(r) == BirthInv(r) /\ FlushInv(r) /\ CancelInv(r) /\ CellInv(r)

RunInv == \A r \in Runs : OneRunInv(r)

ShownInv == \A c \in Cells : result[c] # NoRun => result[c] \in resultLog

IInv == TypeOK /\ RequestInv /\ RunInv /\ ShownInv

-----------------------------------------------------------------------------

\* The variables keep their types in every step of every actor.
LEMMA TypeStep == TypeOK /\ [Next]_vars => TypeOK'
<1> SUFFICES ASSUME TypeOK, [Next]_vars PROVE TypeOK'
  OBVIOUS
<1> USE RunAssumption DEF TypeOK, rowVars, workVars, cellVars, rqVars, cnVars
<1>1. ASSUME NEW q \in Requesters, BatchRead(q) PROVE TypeOK'
  BY <1>1 DEF BatchRead
<1>2. ASSUME NEW q \in Requesters, BatchInsert(q) PROVE TypeOK'
  BY <1>2 DEF BatchInsert, States, Active, ManualRuns
<1>3. ASSUME NEW q \in Requesters, PublishFails(q) PROVE TypeOK'
  BY <1>3 DEF PublishFails
<1>4. ASSUME NEW q \in Requesters, MarkWrite(q) PROVE TypeOK'
  BY <1>4 DEF MarkWrite, States, Active, Settled
<1>5. ASSUME NEW q \in Requesters, RequesterDies(q) PROVE TypeOK'
  BY <1>5 DEF RequesterDies
<1>6. ASSUME NEW q \in Requesters, NEW r \in Runs, Publish(q, r) PROVE TypeOK'
  BY <1>6 DEF Publish, PCs
<1>7. ASSUME NEW q \in Requesters, NEW r \in Runs, MarkRead(q, r) PROVE TypeOK'
  BY <1>7 DEF MarkRead, PCs
<1>8. ASSUME NEW r \in Runs, CronFire(r) PROVE TypeOK'
  BY <1>8 DEF CronFire, States, Active, Settled, PCs, Live
<1>9. ASSUME NEW r \in Runs, Pick(r) PROVE TypeOK'
  BY <1>9 DEF Pick, States, Active, Settled, PCs, Live
<1>10. ASSUME NEW r \in Runs, WaitForSlot(r) PROVE TypeOK'
  BY <1>10 DEF WaitForSlot, States, Active, Settled, PCs, Live
<1>11. ASSUME NEW r \in Runs, SlotTimeout(r) PROVE TypeOK'
  BY <1>11 DEF SlotTimeout, States, Active, Settled, PCs, Live, KeptState
<1>12. ASSUME NEW r \in Runs, Start(r) PROVE TypeOK'
  <2>1. PICK row \in {seen[r], IF tries[r] > 0 THEN state[r] ELSE seen[r]} :
          /\ seen' = [seen EXCEPT ![r] = row]
          /\ IF row = "cancelled"
               THEN /\ pc' = [pc EXCEPT ![r] = "done"]
                    /\ UNCHANGED next
               ELSE /\ pc' = [pc EXCEPT ![r] = "starting"]
                    /\ next' = [next EXCEPT ![r] = KeptState(r, "running")]
    BY <1>12 DEF Start
  <2>2. row \in States \cup {"expired"}
    OBVIOUS
  <2>3. KeptState(r, "running") \in States
    BY DEF KeptState, States, Active, Settled
  <2>4. UNCHANGED <<rowVars, upserts, streamed, steps, tries, cellVars, rqVars, cnVars>>
    BY <1>12 DEF Start
  <2>5. seen' \in [Runs -> States \cup {"expired"}]
    BY <2>1, <2>2
  <2>6. pc' \in [Runs -> PCs]
    BY <2>1 DEF PCs, Live
  <2>7. next' \in [Runs -> States]
    BY <2>1, <2>3
  <2> QED
    BY <2>4, <2>5, <2>6, <2>7
<1>13. ASSUME NEW r \in Runs, StartCommit(r) PROVE TypeOK'
  BY <1>13 DEF StartCommit, States, Active, Settled, PCs, Live, Written
<1>14. ASSUME NEW r \in Runs, FirstProgress(r) PROVE TypeOK'
  BY <1>14 DEF FirstProgress, States, Active, Settled, PCs, Live
<1>15. ASSUME NEW r \in Runs, PlanLoad(r) PROVE TypeOK'
  BY <1>15 DEF PlanLoad, States, Active, Settled, PCs, Live, LoadRun
<1>16. ASSUME NEW r \in Runs, PlanProgress(r) PROVE TypeOK'
  BY <1>16 DEF PlanProgress, States, Active, Settled, PCs, Live
<1>17. ASSUME NEW r \in Runs, Skip(r) PROVE TypeOK'
  BY <1>17 DEF Skip, States, Active, Settled, PCs, Live, FinishRun, KeptState
<1>18. ASSUME NEW r \in Runs, StepLoad(r) PROVE TypeOK'
  BY <1>18 DEF StepLoad, States, Active, Settled, PCs, Live, LoadRun
<1>19. ASSUME NEW r \in Runs, StepProgress(r) PROVE TypeOK'
  BY <1>19 DEF StepProgress, States, Active, Settled, PCs, Live
<1>20. ASSUME NEW r \in Runs, Collect(r) PROVE TypeOK'
  BY <1>20 DEF Collect, States, Active, Settled, PCs, Live, LoadRun, UpsertResult
<1>21. ASSUME NEW r \in Runs, FinishCommit(r) PROVE TypeOK'
  BY <1>21 DEF FinishCommit, States, Active, Settled, PCs, Live, Written, UpsertResult
<1>22. ASSUME NEW r \in Runs, Fail(r) PROVE TypeOK'
  BY <1>22 DEF Fail, States, Active, Settled, PCs, Live, FinishRun, KeptState
<1>23. ASSUME NEW r \in Runs, TaskLost(r) PROVE TypeOK'
  BY <1>23 DEF TaskLost, States, Active, Settled, PCs, Live
<1>24. ASSUME NEW r \in Runs, Age(r) PROVE TypeOK'
  BY <1>24 DEF Age, States, Active, Settled, PCs, Live
<1>25. ASSUME NEW r \in Runs, NEW outcome \in {"success", "failed", "skipped"}, Judge(r, outcome) PROVE TypeOK'
  <2>1. UpsertsWithVerdict(r, outcome) \in BOOLEAN
    BY DEF UpsertsWithVerdict
  <2>2. CASE StopsBeforeVerdict(r, outcome)
    BY <1>25, <2>2 DEF Judge, PCs, Live
  <2>3. CASE ~StopsBeforeVerdict(r, outcome)
    <3>1. PICK b \in BOOLEAN : upserts' = [upserts EXCEPT ![r] = b]
      BY <1>25, <2>1, <2>3, Zenon DEF Judge
    <3>2. FinishRun(r, outcome)
      BY <1>25, <2>3, Zenon DEF Judge
    <3>3. KeptState(r, outcome) \in States
      BY DEF KeptState, States, Settled
    <3>4. UNCHANGED <<rowVars, streamed, steps, tries, cellVars, rqVars, cnVars>>
      BY <1>25, Zenon DEF Judge
    <3> QED
      BY <3>1, <3>2, <3>3, <3>4 DEF FinishRun, PCs, Live
  <2> QED
    BY <2>2, <2>3
<1>26. ASSUME NEW c \in Cancellers, CancelRead(c) PROVE TypeOK'
  BY <1>26 DEF CancelRead, States, Settled, PCs
<1>27. ASSUME NEW c \in Cancellers, CancelWrite(c) PROVE TypeOK'
  BY <1>27 DEF CancelWrite, States, Settled, PCs, Phase
<1>28. ASSUME NEW c \in Cancellers, Revoke(c) PROVE TypeOK'
  BY <1>28 DEF Revoke, States, Settled, PCs
<1>29. CASE Sweep
  BY <1>29 DEF Sweep, Stale, States, Settled
<1>30. CASE UNCHANGED vars
  BY <1>30 DEF vars
<1>31. QED
  BY <1>1, <1>2, <1>3, <1>4, <1>5, <1>6, <1>7, <1>8, <1>9, <1>10, <1>11, <1>12, <1>13, <1>14, <1>15, <1>16, <1>17, <1>18, <1>19, <1>20, <1>21, <1>22, <1>23, <1>24, <1>25, <1>26, <1>27, <1>28, <1>29, <1>30
     DEF Next, Request, Begin, Execute, Cancel

-----------------------------------------------------------------------------

\* A step that leaves the requests alone keeps what they rely on, if no row
\* disappears and no task starts on a row that already existed without one.
LEMMA RequestFrame ==
  ASSUME TypeOK, RequestInv, UNCHANGED <<plan, marking>>,
         \A r \in Runs : state[r] # "none" =>
           state'[r] # "none" /\ (pc[r] = "none" => pc'[r] = "none")
  PROVE  RequestInv'
<1> USE RunAssumption DEF TypeOK, RequestInv
<1> QED
  OBVIOUS

\* A step that touches neither the row of a run nor its task nor its entry in
\* the history keeps what is known of that run.
LEMMA RunFrame ==
  ASSUME NEW r \in Runs, OneRunInv(r),
         pc'[r] = pc[r], state'[r] = state[r], seen'[r] = seen[r], next'[r] = next[r],
         upserts'[r] = upserts[r], verdict'[r] = verdict[r], cancelAt'[r] = cancelAt[r],
         r \in resultLog' <=> r \in resultLog,
         \A q \in Requesters : marking'[q] = r => marking[q] = r
  PROVE  OneRunInv(r)'
BY DEF OneRunInv, BirthInv, FlushInv, CancelInv, CellInv, Source, Flushing

\* Requests keep away from rows that have a task.
LEMMA RequestStep == IInv /\ [Next]_vars => RequestInv'
<1> SUFFICES ASSUME IInv, [Next]_vars PROVE RequestInv'
  OBVIOUS
<1> USE RunAssumption DEF IInv, rowVars, workVars, cellVars, rqVars, cnVars
<1>1. ASSUME NEW q \in Requesters, BatchRead(q) PROVE RequestInv'
  BY <1>1, RequestFrame DEF BatchRead
<1>2. ASSUME NEW q \in Requesters, BatchInsert(q) PROVE RequestInv'
  BY <1>2 DEF BatchInsert, ManualRuns, TypeOK, RequestInv, RunInv, OneRunInv, BirthInv
<1>3. ASSUME NEW q \in Requesters, PublishFails(q) PROVE RequestInv'
  BY <1>3, RequestFrame DEF PublishFails
<1>4. ASSUME NEW q \in Requesters, MarkWrite(q) PROVE RequestInv'
  BY <1>4 DEF MarkWrite, TypeOK, RequestInv
<1>5. ASSUME NEW q \in Requesters, RequesterDies(q) PROVE RequestInv'
  BY <1>5 DEF RequesterDies, TypeOK, RequestInv
<1>6. ASSUME NEW q \in Requesters, NEW r \in Runs, Publish(q, r) PROVE RequestInv'
  BY <1>6 DEF Publish, TypeOK, RequestInv
<1>7. ASSUME NEW q \in Requesters, NEW r \in Runs, MarkRead(q, r) PROVE RequestInv'
  BY <1>7 DEF MarkRead, TypeOK, RequestInv
<1>8. ASSUME NEW r \in Runs, CronFire(r) PROVE RequestInv'
  BY <1>8, RequestFrame DEF CronFire, TypeOK
<1>9. ASSUME NEW r \in Runs, Pick(r) PROVE RequestInv'
  BY <1>9, RequestFrame DEF Pick, TypeOK
<1>10. ASSUME NEW r \in Runs, WaitForSlot(r) PROVE RequestInv'
  BY <1>10, RequestFrame DEF WaitForSlot, TypeOK
<1>11. ASSUME NEW r \in Runs, SlotTimeout(r) PROVE RequestInv'
  BY <1>11, RequestFrame DEF SlotTimeout, TypeOK
<1>12. ASSUME NEW r \in Runs, Start(r) PROVE RequestInv'
  BY <1>12, RequestFrame DEF Start, TypeOK
<1>13. ASSUME NEW r \in Runs, StartCommit(r) PROVE RequestInv'
  BY <1>13, RequestFrame DEF StartCommit, TypeOK, Written, RunInv, OneRunInv, FlushInv, Flushing
<1>14. ASSUME NEW r \in Runs, FirstProgress(r) PROVE RequestInv'
  BY <1>14, RequestFrame DEF FirstProgress, TypeOK
<1>15. ASSUME NEW r \in Runs, PlanLoad(r) PROVE RequestInv'
  BY <1>15, RequestFrame DEF PlanLoad, TypeOK, LoadRun
<1>16. ASSUME NEW r \in Runs, PlanProgress(r) PROVE RequestInv'
  BY <1>16, RequestFrame DEF PlanProgress, TypeOK
<1>17. ASSUME NEW r \in Runs, Skip(r) PROVE RequestInv'
  BY <1>17, RequestFrame DEF Skip, TypeOK, FinishRun
<1>18. ASSUME NEW r \in Runs, StepLoad(r) PROVE RequestInv'
  BY <1>18, RequestFrame DEF StepLoad, TypeOK, LoadRun
<1>19. ASSUME NEW r \in Runs, StepProgress(r) PROVE RequestInv'
  BY <1>19, RequestFrame DEF StepProgress, TypeOK
<1>20. ASSUME NEW r \in Runs, Collect(r) PROVE RequestInv'
  BY <1>20, RequestFrame DEF Collect, TypeOK, LoadRun
<1>21. ASSUME NEW r \in Runs, FinishCommit(r) PROVE RequestInv'
  BY <1>21, RequestFrame DEF FinishCommit, TypeOK, Written, RunInv, OneRunInv, FlushInv, Flushing, Settled
<1>22. ASSUME NEW r \in Runs, Fail(r) PROVE RequestInv'
  BY <1>22, RequestFrame DEF Fail, TypeOK, FinishRun
<1>23. ASSUME NEW r \in Runs, TaskLost(r) PROVE RequestInv'
  BY <1>23, RequestFrame DEF TaskLost, TypeOK, Live
<1>24. ASSUME NEW r \in Runs, Age(r) PROVE RequestInv'
  BY <1>24, RequestFrame DEF Age, TypeOK
<1>25. ASSUME NEW r \in Runs, NEW outcome \in {"success", "failed", "skipped"}, Judge(r, outcome) PROVE RequestInv'
  BY <1>25, RequestFrame DEF Judge, FinishRun, TypeOK
<1>26. ASSUME NEW c \in Cancellers, CancelRead(c) PROVE RequestInv'
  BY <1>26, RequestFrame DEF CancelRead
<1>27. ASSUME NEW c \in Cancellers, CancelWrite(c) PROVE RequestInv'
  BY <1>27, RequestFrame DEF CancelWrite
<1>28. ASSUME NEW c \in Cancellers, Revoke(c) PROVE RequestInv'
  BY <1>28, RequestFrame DEF Revoke, Live
<1>29. CASE Sweep
  BY <1>29, RequestFrame DEF Sweep
<1>30. CASE UNCHANGED vars
  BY <1>30, RequestFrame DEF vars
<1>31. QED
  BY <1>1, <1>2, <1>3, <1>4, <1>5, <1>6, <1>7, <1>8, <1>9, <1>10, <1>11, <1>12, <1>13, <1>14, <1>15, <1>16, <1>17, <1>18, <1>19, <1>20, <1>21, <1>22, <1>23, <1>24, <1>25, <1>26, <1>27, <1>28, <1>29, <1>30
     DEF Next, Request, Begin, Execute, Cancel
-----------------------------------------------------------------------------

\* What is known of each run survives every step: its own task's by the facts of
\* OneRunInv, another run's by RunFrame, and a cancel or a sweep because CancelInv
\* remembers whether it met a flush.
LEMMA RunStep == IInv /\ [Next]_vars => RunInv'
<1> SUFFICES ASSUME IInv, [Next]_vars, NEW x \in Runs PROVE OneRunInv(x)'
  BY DEF RunInv
<1>0. OneRunInv(x)
  BY DEF IInv, RunInv
<1> USE RunAssumption DEF IInv, TypeOK, rowVars, workVars, cellVars, rqVars, cnVars
<1>1. ASSUME NEW q \in Requesters, BatchRead(q) PROVE OneRunInv(x)'
  BY <1>0, <1>1, RunFrame DEF BatchRead
<1>2. ASSUME NEW q \in Requesters, BatchInsert(q) PROVE OneRunInv(x)'
  BY <1>0, <1>2 DEF BatchInsert, ManualRuns, OneRunInv, BirthInv, FlushInv, CancelInv, CellInv, Source, Flushing
<1>3. ASSUME NEW q \in Requesters, PublishFails(q) PROVE OneRunInv(x)'
  BY <1>0, <1>3, RunFrame DEF PublishFails
<1>4. ASSUME NEW q \in Requesters, MarkWrite(q) PROVE OneRunInv(x)'
  BY <1>0, <1>4 DEF MarkWrite, RequestInv, OneRunInv, BirthInv, FlushInv, CancelInv, CellInv, Source, Flushing
<1>5. ASSUME NEW q \in Requesters, RequesterDies(q) PROVE OneRunInv(x)'
  BY <1>0, <1>5, RunFrame DEF RequesterDies
<1>6. ASSUME NEW q \in Requesters, NEW r \in Runs, Publish(q, r) PROVE OneRunInv(x)'
  BY <1>0, <1>6 DEF Publish, RequestInv, OneRunInv, BirthInv, FlushInv, CancelInv, CellInv, Source, Flushing
<1>7. ASSUME NEW q \in Requesters, NEW r \in Runs, MarkRead(q, r) PROVE OneRunInv(x)'
  BY <1>0, <1>7 DEF MarkRead, RequestInv, OneRunInv, BirthInv, FlushInv, CancelInv, CellInv, Source, Flushing
<1>8. ASSUME NEW r \in Runs, CronFire(r) PROVE OneRunInv(x)'
  <2>1. CASE x # r
    BY <1>0, <1>8, <2>1, RunFrame DEF CronFire
  <2>2. CASE x = r
    BY <1>0, <1>8, <2>2 DEF CronFire, OneRunInv, BirthInv, FlushInv, CancelInv, CellInv, Source, Flushing
  <2> QED
    BY <2>1, <2>2
<1>9. ASSUME NEW r \in Runs, Pick(r) PROVE OneRunInv(x)'
  <2>1. CASE x # r
    BY <1>0, <1>9, <2>1, RunFrame DEF Pick
  <2>2. CASE x = r
    BY <1>0, <1>9, <2>2 DEF Pick, OneRunInv, BirthInv, FlushInv, CancelInv, CellInv, Source, Flushing
  <2> QED
    BY <2>1, <2>2
<1>10. ASSUME NEW r \in Runs, WaitForSlot(r) PROVE OneRunInv(x)'
  <2>1. CASE x # r
    BY <1>0, <1>10, <2>1, RunFrame DEF WaitForSlot
  <2>2. CASE x = r
    BY <1>0, <1>10, <2>2 DEF WaitForSlot, OneRunInv, BirthInv, FlushInv, CancelInv, CellInv, Source, Flushing
  <2> QED
    BY <2>1, <2>2
<1>11. ASSUME NEW r \in Runs, SlotTimeout(r) PROVE OneRunInv(x)'
  <2>1. CASE x # r
    BY <1>0, <1>11, <2>1, RunFrame DEF SlotTimeout, KeptState, Settled
  <2>2. CASE x = r
    BY <1>0, <1>11, <2>2 DEF SlotTimeout, KeptState, Settled, OneRunInv, BirthInv, FlushInv, CancelInv, CellInv, Source, Flushing
  <2> QED
    BY <2>1, <2>2
<1>12. ASSUME NEW r \in Runs, Start(r) PROVE OneRunInv(x)'
  <2>1. CASE x # r
    BY <1>0, <1>12, <2>1, RunFrame DEF Start, KeptState
  <2>2. CASE x = r
    BY <1>0, <1>12, <2>2 DEF Start, KeptState, OneRunInv, BirthInv, FlushInv, CancelInv, CellInv, Source, Flushing
  <2> QED
    BY <2>1, <2>2
<1>13. ASSUME NEW r \in Runs, StartCommit(r) PROVE OneRunInv(x)'
  <2>1. CASE x # r
    BY <1>0, <1>13, <2>1, RunFrame DEF StartCommit, Written
  <2>2. CASE x = r
    BY <1>0, <1>13, <2>2 DEF StartCommit, Written, OneRunInv, BirthInv, FlushInv, CancelInv, CellInv, Source, Flushing
  <2> QED
    BY <2>1, <2>2
<1>14. ASSUME NEW r \in Runs, FirstProgress(r) PROVE OneRunInv(x)'
  <2>1. CASE x # r
    BY <1>0, <1>14, <2>1, RunFrame DEF FirstProgress
  <2>2. CASE x = r
    BY <1>0, <1>14, <2>2 DEF FirstProgress, OneRunInv, BirthInv, FlushInv, CancelInv, CellInv, Source, Flushing
  <2> QED
    BY <2>1, <2>2
<1>15. ASSUME NEW r \in Runs, PlanLoad(r) PROVE OneRunInv(x)'
  <2>1. CASE x # r
    BY <1>0, <1>15, <2>1, RunFrame DEF PlanLoad, LoadRun
  <2>2. CASE x = r
    BY <1>0, <1>15, <2>2 DEF PlanLoad, LoadRun, OneRunInv, BirthInv, FlushInv, CancelInv, CellInv, Source, Flushing
  <2> QED
    BY <2>1, <2>2
<1>16. ASSUME NEW r \in Runs, PlanProgress(r) PROVE OneRunInv(x)'
  <2>1. CASE x # r
    BY <1>0, <1>16, <2>1, RunFrame DEF PlanProgress
  <2>2. CASE x = r
    BY <1>0, <1>16, <2>2 DEF PlanProgress, OneRunInv, BirthInv, FlushInv, CancelInv, CellInv, Source, Flushing
  <2> QED
    BY <2>1, <2>2
<1>17. ASSUME NEW r \in Runs, Skip(r) PROVE OneRunInv(x)'
  <2>1. CASE x # r
    BY <1>0, <1>17, <2>1, RunFrame DEF Skip, FinishRun, KeptState, Settled
  <2>2. CASE x = r
    BY <1>0, <1>17, <2>2 DEF Skip, FinishRun, KeptState, Settled, OneRunInv, BirthInv, FlushInv, CancelInv, CellInv, Source, Flushing
  <2> QED
    BY <2>1, <2>2
<1>18. ASSUME NEW r \in Runs, StepLoad(r) PROVE OneRunInv(x)'
  <2>1. CASE x # r
    BY <1>0, <1>18, <2>1, RunFrame DEF StepLoad, LoadRun
  <2>2. CASE x = r
    BY <1>0, <1>18, <2>2 DEF StepLoad, LoadRun, OneRunInv, BirthInv, FlushInv, CancelInv, CellInv, Source, Flushing
  <2> QED
    BY <2>1, <2>2
<1>19. ASSUME NEW r \in Runs, StepProgress(r) PROVE OneRunInv(x)'
  <2>1. CASE x # r
    BY <1>0, <1>19, <2>1, RunFrame DEF StepProgress
  <2>2. CASE x = r
    BY <1>0, <1>19, <2>2 DEF StepProgress, OneRunInv, BirthInv, FlushInv, CancelInv, CellInv, Source, Flushing
  <2> QED
    BY <2>1, <2>2
<1>20. ASSUME NEW r \in Runs, Collect(r) PROVE OneRunInv(x)'
  <2>1. CASE x # r
    BY <1>0, <1>20, <2>1, RunFrame DEF Collect, LoadRun, CommitsCellEarly, UpsertResult
  <2>2. CASE x = r
    BY <1>0, <1>20, <2>2 DEF Collect, LoadRun, CommitsCellEarly, UpsertResult, OneRunInv, BirthInv, FlushInv, CancelInv, CellInv, Source, Flushing
  <2> QED
    BY <2>1, <2>2
<1>21. ASSUME NEW r \in Runs, FinishCommit(r) PROVE OneRunInv(x)'
  <2>1. CASE x # r
    BY <1>0, <1>21, <2>1, RunFrame DEF FinishCommit, Written, UpsertResult, Settled
  <2>2. CASE x = r /\ upserts[r]
    BY <1>0, <1>21, <2>2 DEF FinishCommit, Written, UpsertResult, Settled, OneRunInv, BirthInv, FlushInv, CancelInv, CellInv, Source, Flushing
  <2>3. CASE x = r /\ ~upserts[r]
    BY <1>0, <1>21, <2>3 DEF FinishCommit, Written, UpsertResult, Settled, OneRunInv, BirthInv, FlushInv, CancelInv, CellInv, Source, Flushing
  <2> QED
    BY <2>1, <2>2, <2>3
<1>22. ASSUME NEW r \in Runs, Fail(r) PROVE OneRunInv(x)'
  <2>1. CASE x # r
    BY <1>0, <1>22, <2>1, RunFrame DEF Fail, FinishRun, KeptState, Settled
  <2>2. CASE x = r
    BY <1>0, <1>22, <2>2 DEF Fail, FinishRun, KeptState, Settled, OneRunInv, BirthInv, FlushInv, CancelInv, CellInv, Source, Flushing
  <2> QED
    BY <2>1, <2>2
<1>23. ASSUME NEW r \in Runs, TaskLost(r) PROVE OneRunInv(x)'
  <2>1. CASE x # r
    BY <1>0, <1>23, <2>1, RunFrame DEF TaskLost, Live
  <2>2. CASE x = r
    BY <1>0, <1>23, <2>2 DEF TaskLost, Live, OneRunInv, BirthInv, FlushInv, CancelInv, CellInv, Source, Flushing
  <2> QED
    BY <2>1, <2>2
<1>24. ASSUME NEW r \in Runs, Age(r) PROVE OneRunInv(x)'
  BY <1>0, <1>24, RunFrame DEF Age
<1>25. ASSUME NEW r \in Runs, NEW outcome \in {"success", "failed", "skipped"}, Judge(r, outcome) PROVE OneRunInv(x)'
  <2>1. CASE x # r
    BY <1>0, <1>25, <2>1, RunFrame DEF Judge, FinishRun, KeptState, Settled, UpsertsWithVerdict, CommitsCellEarly
  <2>2. CASE x = r /\ StopsBeforeVerdict(r, outcome)
    BY <1>0, <1>25, <2>2 DEF Judge, OneRunInv, BirthInv, FlushInv, CancelInv, CellInv, Source, Flushing
  <2>3. CASE x = r /\ ~StopsBeforeVerdict(r, outcome)
    <3>1. /\ pc[r] = "collected"
          /\ outcome = "failed" => Source(r) # "core_bundle"
          /\ outcome = "skipped" => Source(r) = "short"
          /\ FinishRun(r, outcome)
          /\ UNCHANGED <<rowVars, streamed, steps, tries, cellVars, rqVars, cnVars>>
      BY <1>25, <2>3, Zenon DEF Judge
    <3>2. upserts'[r] <=> outcome = "success" /\ Source(r) # "core_bundle"
      BY <1>25, <2>3, Zenon DEF Judge, UpsertsWithVerdict, CommitsCellEarly
    <3>3. pc'[r] = "finishing" /\ next'[r] = KeptState(r, outcome) /\ seen'[r] = state[r]
      BY <3>1 DEF FinishRun
    <3> QED
      BY <1>0, <2>3, <3>1, <3>2, <3>3 DEF KeptState, Settled, OneRunInv, BirthInv, FlushInv, CancelInv, CellInv, Source, Flushing
  <2> QED
    BY <2>1, <2>2, <2>3
<1>26. ASSUME NEW c \in Cancellers, CancelRead(c) PROVE OneRunInv(x)'
  BY <1>0, <1>26, RunFrame DEF CancelRead
<1>27. ASSUME NEW c \in Cancellers, CancelWrite(c) PROVE OneRunInv(x)'
  BY <1>0, <1>27 DEF CancelWrite, Phase, OneRunInv, BirthInv, FlushInv, CancelInv, CellInv, Source, Flushing
<1>28. ASSUME NEW c \in Cancellers, Revoke(c) PROVE OneRunInv(x)'
  BY <1>0, <1>28 DEF Revoke, Live, OneRunInv, BirthInv, FlushInv, CancelInv, CellInv, Source, Flushing
<1>29. CASE Sweep
  BY <1>0, <1>29 DEF Sweep, Stale, Active, OneRunInv, BirthInv, FlushInv, CancelInv, CellInv, Source, Flushing
<1>30. CASE UNCHANGED vars
  BY <1>0, <1>30, RunFrame DEF vars
<1>31. QED
  BY <1>1, <1>2, <1>3, <1>4, <1>5, <1>6, <1>7, <1>8, <1>9, <1>10, <1>11, <1>12, <1>13, <1>14, <1>15, <1>16, <1>17, <1>18, <1>19, <1>20, <1>21, <1>22, <1>23, <1>24, <1>25, <1>26, <1>27, <1>28, <1>29, <1>30
     DEF Next, Request, Begin, Execute, Cancel
-----------------------------------------------------------------------------

\* Every step records one run for the first time, or leaves the cells alone: the
\* two upserts of the code, core_bundle's projection and the commit of a verdict.
LEMMA HistoryStep == IInv /\ [Next]_vars => [History!Next]_cellVars
<1> SUFFICES ASSUME IInv, [Next]_vars, ~UNCHANGED cellVars PROVE History!Next
  OBVIOUS
<1>1. ASSUME NEW r \in Runs, Collect(r) PROVE History!Next
  <2>1. UpsertResult(r)
    BY <1>1 DEF Collect, cellVars
  <2>2. r \notin resultLog
    BY <1>1 DEF Collect, IInv, RunInv, OneRunInv, CellInv
  <2> QED
    BY <2>1, <2>2 DEF UpsertResult, History!Next, History!Record
<1>2. ASSUME NEW r \in Runs, FinishCommit(r) PROVE History!Next
  <2>1. upserts[r] /\ UpsertResult(r)
    BY <1>2 DEF FinishCommit, cellVars
  <2>2. r \notin resultLog
    BY <1>2, <2>1 DEF FinishCommit, IInv, RunInv, OneRunInv, CellInv
  <2> QED
    BY <2>1, <2>2 DEF UpsertResult, History!Next, History!Record
<1>3. ASSUME NEW q \in Requesters, Request(q) PROVE FALSE
  BY <1>3 DEF Request, BatchRead, BatchInsert, PublishFails, MarkWrite, RequesterDies,
              Publish, MarkRead, cellVars
<1>4. ASSUME NEW r \in Runs, Begin(r) PROVE FALSE
  BY <1>4 DEF Begin, Pick, WaitForSlot, SlotTimeout, Start, StartCommit, cellVars
<1>5. ASSUME NEW r \in Runs, Execute(r) PROVE History!Next
  BY <1>1, <1>2, <1>5 DEF Execute, FirstProgress, PlanLoad, PlanProgress, Skip, StepLoad,
                          StepProgress, Judge, cellVars
<1>6. ASSUME NEW r \in Runs, CronFire(r) \/ Fail(r) \/ TaskLost(r) \/ Age(r) PROVE FALSE
  BY <1>6 DEF CronFire, Fail, TaskLost, Age, cellVars
<1>7. ASSUME NEW c \in Cancellers, Cancel(c) PROVE FALSE
  BY <1>7 DEF Cancel, CancelRead, CancelWrite, Revoke, cellVars
<1>8. CASE Sweep
  BY <1>8 DEF Sweep, cellVars
<1>9. CASE UNCHANGED vars
  BY <1>9 DEF vars, cellVars
<1> QED
  BY <1>3, <1>4, <1>5, <1>6, <1>7, <1>8, <1>9 DEF Next

\* What a cell shows stays in the history.
LEMMA ShownStep == IInv /\ [Next]_vars => ShownInv'
BY HistoryStep, RunAssumption
   DEF IInv, TypeOK, ShownInv, History!Next, History!Record, cellVars

\* Nothing has happened at the start.
LEMMA InitIInv == Init => IInv
<1> SUFFICES ASSUME Init PROVE IInv
  OBVIOUS
<1> USE RunAssumption DEF Init
<1>1. TypeOK
  BY DEF TypeOK, States, Active, Settled, PCs, Live
<1>2. RequestInv /\ ShownInv
  BY DEF RequestInv, ShownInv
<1>3. RunInv
  BY DEF RunInv, OneRunInv, BirthInv, FlushInv, CancelInv, CellInv, Flushing
<1> QED
  BY <1>1, <1>2, <1>3 DEF IInv

\* The inductive invariant holds in every behaviour of the runs.
THEOREM Inductive == Spec => []IInv
<1>1. IInv /\ [Next]_vars => IInv'
  BY TypeStep, RequestStep, RunStep, ShownStep DEF IInv
<1> QED
  BY InitIInv, <1>1, PTL DEF Spec

\* TypeOK: no actor ever writes a value outside the columns' ranges.
THEOREM TypeCorrect == Spec => []TypeOK
<1>1. IInv => TypeOK
  BY DEF IInv
<1> QED
  BY Inductive, <1>1, PTL

\* CancelSticks: a cancel that met no open flush (_keep_cancelled_runs has not
\* yet read the row) is never overwritten, by any worker, publisher or sweep.
THEOREM CancelSticksAlways == Spec => []CancelSticks
<1>1. IInv => CancelSticks
  BY DEF IInv, RunInv, OneRunInv, CancelInv, CancelSticks
<1> QED
  BY Inductive, <1>1, PTL

\* EarlyCancelNeverRuns: a run cancelled before its start is flushed executes no
\* check and records nothing, whatever becomes of its message and its revoke.
THEOREM EarlyCancelNeverExecutes == Spec => []EarlyCancelNeverRuns
<1>1. IInv => EarlyCancelNeverRuns
  BY DEF IInv, RunInv, OneRunInv, CancelInv, EarlyCancelNeverRuns
<1> QED
  BY Inductive, <1>1, PTL

\* OnlyJudgedRunsWriteCells: the cell and the row settle in one transaction.
THEOREM OnlyJudgedRunsWrite == Spec => []OnlyJudgedRunsWriteCells
<1>1. IInv => OnlyJudgedRunsWriteCells
  BY DEF IInv, TypeOK, RunInv, OneRunInv, CellInv, OnlyJudgedRunsWriteCells
<1> QED
  BY Inductive, <1>1, PTL

\* VerdictIsLogged: no judgement, on a row or in a cell, is missing from the
\* append-only history.
THEOREM VerdictsAreLogged == Spec => []VerdictIsLogged
<1>1. IInv => VerdictIsLogged
  BY DEF IInv, RunInv, OneRunInv, CellInv, ShownInv, VerdictIsLogged
<1> QED
  BY Inductive, <1>1, PTL

\* RecordsOnce: the runs implement the history of the cells, where each run is
\* recorded at most once and a cell shows the last one recorded.
THEOREM ImplementsHistory == Spec => RecordsOnce
<1>1. Init => History!Init
  BY DEF Init, History!Init
<1>2. IInv /\ [Next]_vars => [History!Next]_cellVars
  BY HistoryStep
<1> QED
  BY <1>1, <1>2, Inductive, PTL DEF Spec, RecordsOnce, History!Spec, cellVars
=============================================================================
