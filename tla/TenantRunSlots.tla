--------------------------- MODULE TenantRunSlots ---------------------------
(***************************************************************************)
(* The concurrency limit of one tenant (tenant_concurrency.py): a Redis    *)
(* ZSET of task ids scored by expiry, taken by Celery tasks at their start *)
(* and given back in their finally.  Tenants do not share keys, so one     *)
(* tenant is enough.  Redis keeps its data and the clocks agree.           *)
(*                                                                         *)
(* Time is counted in ticks of WAIT_INTERVAL (15 s); a ZSET score is       *)
(* represented by the ticks left until it.  The lists of waiting and       *)
(* running tasks that the settings page shows are left out.                *)
(***************************************************************************)
EXTENDS Naturals, FiniteSets

CONSTANTS
  Tasks,      \* Celery task ids, the tokens of the semaphore
  Limits,     \* values of tenants.max_concurrent_runs; 0 stands for NULL too
  Hold,       \* SLOT_HOLD
  MaxWait,    \* max_wait_retries: one retry per tick
  TaskLimit   \* the largest hard time limit of a task that takes a slot

ASSUME SlotsAssumption ==
  /\ IsFiniteSet(Tasks)
  /\ Limits \subseteq Nat
  /\ Hold \in Nat /\ MaxWait \in Nat /\ TaskLimit \in Nat
  /\ TaskLimit < Hold

VARIABLES
  limit,      \* tenants.max_concurrent_runs
  peak,       \* history: the largest limit there has been
  pc,         \* where each task is
  cap,        \* the limit a task has read
  retries,    \* task.request.retries
  delay,      \* ticks left of a retry's countdown
  slots,      \* the members of the ZSET, expired ones included
  ttl,        \* ticks until a member's score
  age,        \* ticks a task has run since it took its slot
  later       \* history: slots granted since a task's first attempt

vars == <<limit, peak, pc, cap, retries, delay, slots, ttl, age, later>>

\* "open": running without a RunSlot to release.
PCs == {"queued", "resolved", "holding", "open", "gaveup", "ended"}

Holding == {t \in Tasks : pc[t] = "holding"}

Init ==
  /\ limit \in Limits
  /\ peak = limit
  /\ pc = [t \in Tasks |-> "queued"]
  /\ cap = [t \in Tasks |-> 0]
  /\ retries = [t \in Tasks |-> 0]
  /\ delay = [t \in Tasks |-> 0]
  /\ slots = {}
  /\ ttl = [t \in Tasks |-> 0]
  /\ age = [t \in Tasks |-> 0]
  /\ later = [t \in Tasks |-> {}]

-----------------------------------------------------------------------------
\* An administrator edits the tenant.
SetLimit(n) ==
  /\ limit' = n
  /\ peak' = IF n > peak THEN n ELSE peak
  /\ UNCHANGED <<pc, cap, retries, delay, slots, ttl, age, later>>

\* acquire_run_slot reads the limit from the database.  No limit, no slot.
Resolve(t) ==
  /\ pc[t] = "queued" /\ delay[t] = 0
  /\ cap' = [cap EXCEPT ![t] = limit]
  /\ pc' = [pc EXCEPT ![t] = IF limit = 0 THEN "open" ELSE "resolved"]
  /\ UNCHANGED <<limit, peak, retries, delay, slots, ttl, age, later>>

\* Redis cannot be reached: the task runs without a limit (fail-open).
FailOpen(t) ==
  /\ pc[t] = "resolved"
  /\ pc' = [pc EXCEPT ![t] = "open"]
  /\ UNCHANGED <<limit, peak, cap, retries, delay, slots, ttl, age, later>>

\* ZREMRANGEBYSCORE -inf now: what the script and snapshot() leave in the ZSET.
Live == {t \in slots : ttl[t] > 0}

\* Mutant of Granted: the count is compared with the limit off by one.
GrantedOneMore(t) == t \in Live \/ Cardinality(Live) <= cap[t]

\* A token that is in the set is refreshed, another one needs room.
Granted(t) == t \in Live \/ Cardinality(Live) < cap[t]

\* The script runs atomically.  If a Redis call after it fails, try_acquire
\* answers None: the task runs open while its slot stays taken.
Acquire(t) ==
  /\ pc[t] = "resolved" /\ Granted(t)
  /\ \E where \in {"holding", "open"} : pc' = [pc EXCEPT ![t] = where]
  /\ slots' = Live \cup {t}
  /\ ttl' = [ttl EXCEPT ![t] = Hold]
  /\ age' = [age EXCEPT ![t] = 0]
  /\ later' = [s \in Tasks |-> IF retries[s] > 0 THEN later[s] \cup {t} ELSE later[s]]
  /\ UNCHANGED <<limit, peak, cap, retries, delay>>

\* Mutant of Deny: the retry is not delayed.
DenyAtOnce(t) ==
  /\ pc[t] = "resolved" /\ ~Granted(t) /\ retries[t] < MaxWait
  /\ slots' = Live
  /\ pc' = [pc EXCEPT ![t] = "queued"]
  /\ retries' = [retries EXCEPT ![t] = @ + 1]
  /\ UNCHANGED <<limit, peak, cap, delay, ttl, age, later>>

\* Mutant of Deny: the retries are not counted against max_wait_retries.
DenyForEver(t) ==
  /\ pc[t] = "resolved" /\ ~Granted(t)
  /\ slots' = Live
  /\ pc' = [pc EXCEPT ![t] = "queued"]
  /\ retries' = [retries EXCEPT ![t] = @ + 1]
  /\ delay' = [delay EXCEPT ![t] = 1]
  /\ UNCHANGED <<limit, peak, cap, ttl, age, later>>

\* Full: Celery's retry brings the same task id back after a tick or more.
Deny(t) ==
  /\ pc[t] = "resolved" /\ ~Granted(t) /\ retries[t] < MaxWait
  /\ slots' = Live
  /\ pc' = [pc EXCEPT ![t] = "queued"]
  /\ retries' = [retries EXCEPT ![t] = @ + 1]
  /\ delay' = [delay EXCEPT ![t] = 1]
  /\ UNCHANGED <<limit, peak, cap, ttl, age, later>>

\* TenantRunLimitTimeout.
GiveUp(t) ==
  /\ pc[t] = "resolved" /\ ~Granted(t) /\ retries[t] >= MaxWait
  /\ slots' = Live
  /\ pc' = [pc EXCEPT ![t] = "gaveup"]
  /\ UNCHANGED <<limit, peak, cap, retries, delay, ttl, age, later>>

\* The finally of the task: release() removes the token, or fails silently.
Release(t) ==
  /\ pc[t] = "holding"
  /\ pc' = [pc EXCEPT ![t] = "ended"]
  /\ slots' \in {slots, slots \ {t}}
  /\ UNCHANGED <<limit, peak, cap, retries, delay, ttl, age, later>>

\* An open task ends, or a task is revoked or killed (terminate, the hard time
\* limit, a dead worker): no finally runs and nothing is released.
Die(t) ==
  /\ pc[t] \in {"queued", "resolved", "holding", "open"}
  /\ pc' = [pc EXCEPT ![t] = "ended"]
  /\ UNCHANGED <<limit, peak, cap, retries, delay, slots, ttl, age, later>>

\* snapshot(): the settings page purges the set as well.
Snapshot ==
  /\ slots # Live
  /\ slots' = Live
  /\ UNCHANGED <<limit, peak, pc, cap, retries, delay, ttl, age, later>>

Before(n) == IF n = 0 THEN 0 ELSE n - 1

\* Mutant of MayRun: tasks have no hard time limit.
MayRunUnlimited(t) == TRUE

\* Celery kills a task at its hard time limit.
MayRun(t) == pc[t] = "holding" => age[t] < TaskLimit

Tick ==
  /\ \A t \in Tasks : MayRun(t)
  /\ ttl' = [t \in Tasks |-> Before(ttl[t])]
  /\ delay' = [t \in Tasks |-> Before(delay[t])]
  /\ age' = [t \in Tasks |-> IF pc[t] = "holding" THEN age[t] + 1 ELSE age[t]]
  /\ UNCHANGED <<limit, peak, pc, cap, retries, slots, later>>

Task(t) ==
  \/ Resolve(t) \/ FailOpen(t) \/ Acquire(t) \/ Deny(t) \/ GiveUp(t) \/ Release(t) \/ Die(t)

Next ==
  \/ \E n \in Limits : SetLimit(n)
  \/ \E t \in Tasks : Task(t)
  \/ Snapshot
  \/ Tick

Spec == Init /\ [][Next]_vars

-----------------------------------------------------------------------------
\* Every variable keeps its type.
TypeOK ==
  /\ limit \in Limits /\ peak \in Limits
  /\ pc \in [Tasks -> PCs]
  /\ cap \in [Tasks -> Nat]
  /\ retries \in [Tasks -> 0..MaxWait]
  /\ delay \in [Tasks -> 0..1]
  /\ slots \in SUBSET Tasks
  /\ ttl \in [Tasks -> 0..Hold]
  /\ age \in [Tasks -> 0..TaskLimit]
  /\ later \in [Tasks -> SUBSET Tasks]

\* The slot of a running task never expires under it: SLOT_HOLD outlasts every
\* hard time limit, whatever purges the set meanwhile.  Otherwise the next task
\* would be let in beside it.
HoldersAreCounted == Holding \subseteq Live

\* At no time do more tasks run under a slot than the largest limit there has
\* been, whatever is leaked, purged, retried or edited meanwhile.
LimitHolds == Cardinality(Holding) <= peak

\* A task that waits as long as a slot can be held (the default of
\* acquire_run_slot, 240 * 15 s = SLOT_HOLD) never gives up because of slots
\* taken before its wait, leaked ones included: somebody has overtaken it.
LeaksDoNotStarve ==
  [][\A t \in Tasks : GiveUp(t) => Live \cap later[t] # {}]_vars
=============================================================================
