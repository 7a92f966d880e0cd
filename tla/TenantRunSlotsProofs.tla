------------------------ MODULE TenantRunSlotsProofs ------------------------
(***************************************************************************)
(* The concurrency limit of a tenant, for every number of tasks, every     *)
(* limit and every edit of it.                                             *)
(***************************************************************************)
EXTENDS TenantRunSlots, FiniteSetTheorems, TLAPS

\* A slot lives as long as its holder's time limit and longer.
HoldInv ==
  \A t \in Tasks : pc[t] = "holding" => t \in slots /\ ttl[t] + age[t] = Hold

\* Slots are only granted below a limit that has been in force.
CountInv ==
  /\ Cardinality(Live) <= peak
  /\ limit <= peak
  /\ \A t \in Tasks : cap[t] <= peak

\* A task that looks for a slot has a limit and no countdown left.
ResolvedInv ==
  \A t \in Tasks : pc[t] = "resolved" => cap[t] > 0 /\ delay[t] = 0

\* A slot older than a task's wait has at least one tick less left for each retry
\* whose countdown is over.
WaitInv ==
  \A t \in Tasks : pc[t] \in {"queued", "resolved"} /\ retries[t] > 0 =>
    \A s \in Live \ later[t] : ttl[s] + retries[t] <= Hold + delay[t]

IInv == TypeOK /\ HoldInv /\ CountInv /\ ResolvedInv /\ WaitInv

-----------------------------------------------------------------------------

\* The variables keep their types.
LEMMA TypeStep == TypeOK /\ [Next]_vars => TypeOK'
<1> SUFFICES ASSUME TypeOK, [Next]_vars PROVE TypeOK'
  OBVIOUS
<1> USE SlotsAssumption DEF TypeOK, PCs
<1>1. ASSUME NEW n \in Limits, SetLimit(n) PROVE TypeOK'
  BY <1>1 DEF SetLimit
<1>2. ASSUME NEW t \in Tasks, Resolve(t) PROVE TypeOK'
  BY <1>2 DEF Resolve
<1>3. ASSUME NEW t \in Tasks, FailOpen(t) PROVE TypeOK'
  BY <1>3 DEF FailOpen
<1>4. ASSUME NEW t \in Tasks, Acquire(t) PROVE TypeOK'
  BY <1>4 DEF Acquire, Live
<1>5. ASSUME NEW t \in Tasks, Deny(t) PROVE TypeOK'
  BY <1>5 DEF Deny, Live
<1>6. ASSUME NEW t \in Tasks, GiveUp(t) PROVE TypeOK'
  BY <1>6 DEF GiveUp, Live
<1>7. ASSUME NEW t \in Tasks, Release(t) PROVE TypeOK'
  BY <1>7 DEF Release
<1>8. ASSUME NEW t \in Tasks, Die(t) PROVE TypeOK'
  BY <1>8 DEF Die
<1>9. CASE Snapshot
  BY <1>9 DEF Snapshot, Live
<1>10. CASE Tick
  BY <1>10 DEF Tick, MayRun, Before
<1>11. CASE UNCHANGED vars
  BY <1>11 DEF vars
<1> QED
  BY <1>1, <1>2, <1>3, <1>4, <1>5, <1>6, <1>7, <1>8, <1>9, <1>10, <1>11 DEF Next, Task

\* Purging expired members (the script, snapshot()) does not change what is live.
LEMMA PurgeKeepsLive ==
  ASSUME slots' = Live, UNCHANGED ttl
  PROVE  Live' = Live
BY DEF Live

\* Every holder's slot stays counted.
LEMMA HoldStep == IInv /\ [Next]_vars => HoldInv'
<1> SUFFICES ASSUME IInv, [Next]_vars PROVE HoldInv'
  OBVIOUS
<1> USE SlotsAssumption DEF IInv, TypeOK, HoldInv
<1>1. ASSUME NEW n \in Limits, SetLimit(n) PROVE HoldInv'
  BY <1>1 DEF SetLimit
<1>2. ASSUME NEW t \in Tasks, Resolve(t) \/ FailOpen(t) \/ Die(t) PROVE HoldInv'
  BY <1>2 DEF Resolve, FailOpen, Die
<1>3. ASSUME NEW t \in Tasks, Acquire(t) PROVE HoldInv'
  BY <1>3 DEF Acquire, Live
<1>4. ASSUME NEW t \in Tasks, Deny(t) \/ GiveUp(t) PROVE HoldInv'
  BY <1>4 DEF Deny, GiveUp, Live
<1>5. ASSUME NEW t \in Tasks, Release(t) PROVE HoldInv'
  BY <1>5 DEF Release
<1>6. CASE Snapshot
  BY <1>6 DEF Snapshot, Live
<1>7. CASE Tick
  BY <1>7 DEF Tick, MayRun, Before
<1>8. CASE UNCHANGED vars
  BY <1>8 DEF vars
<1> QED
  BY <1>1, <1>2, <1>3, <1>4, <1>5, <1>6, <1>7, <1>8 DEF Next, Task

\* The live slots never outnumber the largest limit.
LEMMA CountStep == IInv /\ [Next]_vars => CountInv'
<1> SUFFICES ASSUME IInv, [Next]_vars PROVE CountInv'
  OBVIOUS
<1> USE SlotsAssumption DEF IInv, TypeOK, CountInv
<1>0. IsFiniteSet(Live) /\ Cardinality(Live) \in Nat
  BY FS_Subset, FS_CardinalityType DEF Live
<1>n. limit \in Nat /\ peak \in Nat /\ \A t \in Tasks : cap[t] \in Nat
  OBVIOUS
<1>1. ASSUME NEW n \in Limits, SetLimit(n) PROVE CountInv'
  <2>1. Live' = Live
    BY <1>1 DEF SetLimit, Live
  <2>2. peak' \in Nat /\ peak <= peak' /\ limit' <= peak'
    BY <1>1, <1>n DEF SetLimit
  <2>3. \A t \in Tasks : cap'[t] = cap[t]
    BY <1>1 DEF SetLimit
  <2> QED
    BY <1>0, <1>n, <2>1, <2>2, <2>3
<1>2. ASSUME NEW t \in Tasks, Resolve(t) PROVE CountInv'
  <2>1. Live' = Live
    BY <1>2 DEF Resolve, Live
  <2> QED
    BY <1>2, <2>1 DEF Resolve
<1>3. ASSUME NEW t \in Tasks, FailOpen(t) \/ Die(t) PROVE CountInv'
  <2>1. Live' = Live
    BY <1>3 DEF FailOpen, Die, Live
  <2> QED
    BY <1>3, <2>1 DEF FailOpen, Die
<1>4. ASSUME NEW t \in Tasks, Acquire(t) PROVE CountInv'
  <2>1. Live' = Live \cup {t}
    BY <1>4 DEF Acquire, Live
  <2>2. Cardinality(Live \cup {t}) <= peak
    <3>1. t \in Live \/ Cardinality(Live) < cap[t]
      BY <1>4 DEF Acquire, Granted
    <3>2. Cardinality(Live \cup {t}) = IF t \in Live THEN Cardinality(Live) ELSE Cardinality(Live) + 1
      BY <1>0, FS_AddElement
    <3> QED
      BY <1>0, <1>n, <3>1, <3>2
  <2> QED
    BY <1>4, <2>1, <2>2 DEF Acquire
<1>5. ASSUME NEW t \in Tasks, Deny(t) \/ GiveUp(t) PROVE CountInv'
  BY <1>5, PurgeKeepsLive DEF Deny, GiveUp
<1>6. ASSUME NEW t \in Tasks, Release(t) PROVE CountInv'
  <2>1. Live' \subseteq Live
    BY <1>6 DEF Release, Live
  <2>2. Cardinality(Live') <= Cardinality(Live) /\ Cardinality(Live') \in Nat
    BY <1>0, <2>1, FS_Subset, FS_CardinalityType
  <2> QED
    BY <1>0, <1>6, <2>2 DEF Release
<1>7. CASE Snapshot
  BY <1>7, PurgeKeepsLive DEF Snapshot
<1>8. CASE Tick
  <2>1. Live' \subseteq Live
    BY <1>8 DEF Tick, Before, Live
  <2>2. Cardinality(Live') <= Cardinality(Live) /\ Cardinality(Live') \in Nat
    BY <1>0, <2>1, FS_Subset, FS_CardinalityType
  <2> QED
    BY <1>0, <1>8, <2>2 DEF Tick
<1>9. CASE UNCHANGED vars
  <2>1. Live' = Live
    BY <1>9 DEF vars, Live
  <2> QED
    BY <1>9, <2>1 DEF vars
<1> QED
  BY <1>1, <1>2, <1>3, <1>4, <1>5, <1>6, <1>7, <1>8, <1>9 DEF Next, Task

\* Slots older than a wait run out with it.
LEMMA WaitStep == IInv /\ [Next]_vars => WaitInv' /\ ResolvedInv'
<1> SUFFICES ASSUME IInv, [Next]_vars PROVE WaitInv' /\ ResolvedInv'
  OBVIOUS
<1> USE SlotsAssumption DEF IInv, TypeOK, WaitInv, ResolvedInv, Live
<1>1. ASSUME NEW n \in Limits, SetLimit(n) PROVE WaitInv' /\ ResolvedInv'
  BY <1>1 DEF SetLimit
<1>2. ASSUME NEW t \in Tasks, Resolve(t) PROVE WaitInv' /\ ResolvedInv'
  BY <1>2 DEF Resolve
<1>3. ASSUME NEW t \in Tasks, FailOpen(t) \/ Die(t) PROVE WaitInv' /\ ResolvedInv'
  BY <1>3 DEF FailOpen, Die
<1>4. ASSUME NEW t \in Tasks, Acquire(t) PROVE WaitInv' /\ ResolvedInv'
  BY <1>4 DEF Acquire
<1>5. ASSUME NEW t \in Tasks, Deny(t) PROVE WaitInv' /\ ResolvedInv'
  BY <1>5 DEF Deny
<1>6. ASSUME NEW t \in Tasks, GiveUp(t) PROVE WaitInv' /\ ResolvedInv'
  BY <1>6 DEF GiveUp
<1>7. ASSUME NEW t \in Tasks, Release(t) PROVE WaitInv' /\ ResolvedInv'
  BY <1>7 DEF Release
<1>8. CASE Snapshot
  BY <1>8 DEF Snapshot
<1>9. CASE Tick
  BY <1>9 DEF Tick, Before
<1>10. CASE UNCHANGED vars
  BY <1>10 DEF vars
<1> QED
  BY <1>1, <1>2, <1>3, <1>4, <1>5, <1>6, <1>7, <1>8, <1>9, <1>10 DEF Next, Task

\* The invariant holds at the start and survives every step.
THEOREM Inductive == Spec => []IInv
<1>1. Init => IInv
  <2> SUFFICES ASSUME Init PROVE IInv
    OBVIOUS
  <2>1. Live = {}
    BY DEF Init, Live
  <2>2. TypeOK /\ HoldInv /\ ResolvedInv /\ WaitInv
    BY <2>1, SlotsAssumption DEF Init, TypeOK, PCs, HoldInv, ResolvedInv, WaitInv
  <2>3. CountInv
    BY <2>1, SlotsAssumption, FS_EmptySet DEF Init, CountInv
  <2> QED
    BY <2>2, <2>3 DEF IInv
<1>2. IInv /\ [Next]_vars => IInv'
  BY TypeStep, HoldStep, CountStep, WaitStep DEF IInv
<1> QED
  BY <1>1, <1>2, PTL DEF Spec

\* TypeOK: the retries, the scores and the run times stay within their bounds.
THEOREM TypeCorrect == Spec => []TypeOK
<1>1. IInv => TypeOK
  BY DEF IInv
<1> QED
  BY Inductive, <1>1, PTL

\* HoldersAreCounted: because every time limit is below SLOT_HOLD, the slot of a
\* running task is live in every state.
THEOREM HoldersAlwaysCounted == Spec => []HoldersAreCounted
<1>1. IInv => HoldersAreCounted
  BY SlotsAssumption DEF IInv, TypeOK, HoldInv, HoldersAreCounted, Holding, Live
<1> QED
  BY Inductive, <1>1, PTL

\* LimitHolds: the running tasks are among the live slots, and those never exceed
\* the largest limit.
THEOREM LimitAlwaysHolds == Spec => []LimitHolds
<1>1. IInv => LimitHolds
  <2> SUFFICES ASSUME IInv PROVE LimitHolds
    OBVIOUS
  <2>1. IsFiniteSet(Live) /\ Cardinality(Live) \in Nat
    BY SlotsAssumption, FS_Subset, FS_CardinalityType DEF Live, IInv, TypeOK
  <2>2. Holding \subseteq Live
    BY SlotsAssumption DEF IInv, TypeOK, HoldInv, Holding, Live
  <2>3. Cardinality(Holding) <= Cardinality(Live) /\ Cardinality(Holding) \in Nat
    BY <2>1, <2>2, FS_Subset, FS_CardinalityType
  <2> QED
    BY <2>1, <2>3, SlotsAssumption DEF IInv, TypeOK, CountInv, LimitHolds
<1> QED
  BY Inductive, <1>1, PTL

\* LeaksDoNotStarve: with a wait at least as long as a slot can be held, which is
\* the default of acquire_run_slot, no task gives up because of older slots.
THEOREM LeaksNeverStarve ==
  ASSUME MaxWait >= Hold
  PROVE  Spec => LeaksDoNotStarve
<1>1. IInv => \A t \in Tasks : GiveUp(t) => Live \cap later[t] # {}
  <2> SUFFICES ASSUME IInv, NEW t \in Tasks, GiveUp(t), Live \cap later[t] = {} PROVE FALSE
    OBVIOUS
  <2>1. Live # {}
    BY SlotsAssumption, FS_EmptySet DEF GiveUp, Granted, IInv, TypeOK, ResolvedInv
  <2>2. PICK s \in Live : TRUE
    BY <2>1
  <2>3. ttl[s] + retries[t] <= Hold + delay[t] /\ delay[t] = 0 /\ retries[t] >= MaxWait
    BY <2>2, SlotsAssumption DEF GiveUp, IInv, TypeOK, WaitInv, ResolvedInv
  <2>4. ttl[s] > 0 /\ ttl[s] \in Nat
    BY <2>2, SlotsAssumption DEF Live, IInv, TypeOK
  <2> QED
    BY <2>3, <2>4, SlotsAssumption DEF IInv, TypeOK
<1> QED
  BY Inductive, <1>1, PTL DEF Spec, LeaksDoNotStarve
=============================================================================
