----------------------------- MODULE SnapshotJobs -----------------------------
(***************************************************************************)
(* The shared snapshots (snapshot_jobs.py with Redis): one key, many       *)
(* requests that poll it, and the builds they start.  A build is owned     *)
(* through a lock with an expiry; a heartbeat thread renews the lock and   *)
(* the meta record; a request that finds the heartbeat gone, or the build  *)
(* too old, takes over.  No check is atomic with the write that it guards. *)
(*                                                                         *)
(* A job is one request and, if it wins the lock, its build: its token.    *)
(* The results, their freshness and what the views show are left out: a    *)
(* snapshot that is ready may be asked for again at any time (force).      *)
(* Redis answers; the fallback to process memory is another mode.  Time is *)
(* in ticks, ages stop growing once nothing distinguishes them.            *)
(***************************************************************************)
EXTENDS Naturals, FiniteSets

CONSTANTS
  Jobs,     \* requests, at most one build each
  None,     \* no lock, no owner
  Timeout,  \* heartbeat_timeout, also the expiry of the lock
  Slow,     \* those whose process may hang for a while
  Pace      \* the longest time from one beat of a process that keeps up to the next,
            \* or to the end of its build

ASSUME SnapshotAssumption ==
  /\ None \notin Jobs
  /\ Slow \subseteq Jobs
  /\ Timeout \in Nat /\ Pace \in Nat /\ 2 * Pace < Timeout

VARIABLES
  lock,        \* the token in the lock key
  ttl,         \* ticks until it expires
  meta,        \* status, owner, and the age of heartbeat_at
  pc,          \* where the thread of each request, then of its build, is
  seen,        \* the owner of the orphan a request has found
  beat,        \* the heartbeat thread of each build
  writer,      \* who is in write_meta, past its check of the lock
  superseded,  \* prog.superseded
  stall,       \* whether the process hangs: not yet, now, or it has
  overdue,     \* builds older than stuck_timeout
  clock        \* ticks since the request began or the build last beat

redisVars == <<lock, ttl, meta>>
vars == <<redisVars, pc, seen, beat, writer, superseded, stall, overdue, clock>>

\* No record, or one that is ready or an error: a request treats them alike.
Settled == [status |-> "settled", owner |-> None, beat |-> 0]

Init ==
  /\ lock = None /\ ttl = 0 /\ meta = Settled
  /\ pc = [j \in Jobs |-> "idle"]
  /\ seen = [j \in Jobs |-> None]
  /\ beat = [j \in Jobs |-> "off"]
  /\ writer = [j \in Jobs |-> "nobody"]
  /\ superseded = [j \in Jobs |-> FALSE]
  /\ stall = [j \in Jobs |-> "no"]
  /\ overdue = {}
  /\ clock = [j \in Jobs |-> 0]

UpTo(n, max) == IF n < max THEN n + 1 ELSE max

\* A process that is there, and one that runs.
Live(j) == pc[j] \notin {"idle", "ended", "dead"}
Runs(j) == stall[j] # "now"

\* The progress of the build is closed.
Closed(j) == pc[j] \notin {"building", "stopping"}

Computing(j) == meta.status = "computing" /\ meta.owner = j

\* The record of the build of j, with a heartbeat of that age.
ComputingMeta(j, beatAge) == [status |-> "computing", owner |-> j, beat |-> beatAge]

-----------------------------------------------------------------------------
(* _get_shared                                                             *)

\* Mutant of MetaAlive: only the age of the build counts, as before heartbeats.
MetaAliveByAge == meta.owner \notin overdue

\* _meta_alive.
MetaAlive == meta.beat < Timeout /\ meta.owner \notin overdue

\* The request reads meta.  It returns what it finds if that is alive or fresh;
\* otherwise it takes over, or starts anew.
ReadMeta(j) ==
  /\ pc[j] = "idle" /\ Runs(j)
  /\ meta.status = "computing" => ~MetaAlive
  /\ pc' = [pc EXCEPT ![j] = IF meta.status = "computing" THEN "evict" ELSE "acquire"]
  /\ seen' = [seen EXCEPT ![j] = meta.owner]
  /\ clock' = [clock EXCEPT ![j] = 0]
  /\ UNCHANGED <<redisVars, beat, writer, superseded, stall, overdue>>

\* release_lock compares and deletes in two calls.
EvictCheck(j) ==
  /\ pc[j] = "evict" /\ Runs(j)
  /\ pc' = [pc EXCEPT ![j] = IF lock = seen[j] THEN "evicting" ELSE "acquire"]
  /\ UNCHANGED <<redisVars, seen, beat, writer, superseded, stall, overdue, clock>>

Evict(j) ==
  /\ pc[j] = "evicting" /\ Runs(j)
  /\ lock' = None /\ ttl' = 0
  /\ pc' = [pc EXCEPT ![j] = "acquire"]
  /\ UNCHANGED <<meta, seen, beat, writer, superseded, stall, overdue, clock>>

\* Mutant of Acquire: SET NX without an expiry.
AcquireForever(j) ==
  /\ pc[j] = "acquire" /\ lock = None /\ Runs(j)
  /\ lock' = j
  /\ pc' = [pc EXCEPT ![j] = "announce"] /\ seen' = [seen EXCEPT ![j] = None]
  /\ UNCHANGED <<ttl, meta, beat, writer, superseded, stall, overdue, clock>>

\* SET NX; who does not get the lock returns what the winner shows.
Acquire(j) ==
  /\ pc[j] = "acquire" /\ Runs(j)
  /\ IF lock = None
     THEN /\ lock' = j /\ ttl' = Timeout
          /\ pc' = [pc EXCEPT ![j] = "announce"] /\ UNCHANGED clock
     ELSE /\ pc' = [pc EXCEPT ![j] = "idle"] /\ clock' = [clock EXCEPT ![j] = 0]
          /\ UNCHANGED <<lock, ttl>>
  /\ seen' = [seen EXCEPT ![j] = None]
  /\ UNCHANGED <<meta, beat, writer, superseded, stall, overdue>>

\* SET meta, with the time at which the request began, which is any time ago if its
\* process hung meanwhile, and start of the threads.
Announce(j) ==
  /\ pc[j] = "announce" /\ Runs(j)
  /\ \E begun \in IF stall[j] = "past" THEN 0..Timeout ELSE {clock[j]} : meta' = ComputingMeta(j, begun)
  /\ pc' = [pc EXCEPT ![j] = "building"]
  /\ beat' = [beat EXCEPT ![j] = "wait"]
  /\ clock' = [clock EXCEPT ![j] = 0]
  /\ UNCHANGED <<lock, ttl, seen, writer, superseded, stall, overdue>>

-----------------------------------------------------------------------------
(* The build: the heartbeat thread, and write_meta which both threads use. *)

\* _heartbeat_loop, renew_lock: what the lock is, ...
RenewCheck(j) ==
  /\ beat[j] = "wait" /\ pc[j] = "building" /\ Runs(j)
  /\ beat' = [beat EXCEPT ![j] = IF lock = j THEN "renew"
                               ELSE IF lock = None THEN "retake" ELSE "off"]
  /\ superseded' = [superseded EXCEPT ![j] = @ \/ lock \notin {j, None}]
  /\ UNCHANGED <<redisVars, pc, seen, writer, stall, overdue, clock>>

\* Mutant of Renew: only the lock is kept, as if meta needed no heartbeat.
RenewQuietly(j) ==
  /\ beat[j] = "renew" \/ (beat[j] = "retake" /\ lock = None)
  /\ Runs(j)
  /\ lock' = j /\ ttl' = Timeout
  /\ beat' = [beat EXCEPT ![j] = "wait"] /\ clock' = [clock EXCEPT ![j] = 0]
  /\ UNCHANGED <<meta, pc, seen, writer, superseded, stall, overdue>>

\* ... and its SET: without a condition, or NX when it had expired.
Renew(j) ==
  /\ beat[j] = "renew" \/ (beat[j] = "retake" /\ lock = None)
  /\ Runs(j)
  /\ lock' = j /\ ttl' = Timeout
  /\ beat' = [beat EXCEPT ![j] = IF Closed(j) THEN "off" ELSE "write"]
  /\ UNCHANGED <<meta, pc, seen, writer, superseded, stall, overdue, clock>>

RetakeFails(j) ==
  /\ beat[j] = "retake" /\ lock # None /\ Runs(j)
  /\ beat' = [beat EXCEPT ![j] = "off"]
  /\ superseded' = [superseded EXCEPT ![j] = TRUE]
  /\ UNCHANGED <<redisVars, pc, seen, writer, stall, overdue, clock>>

\* The heartbeat has done its round and waits for the next.
Beaten(j, who) ==
  IF who = "heartbeat"
  THEN beat' = [beat EXCEPT ![j] = "wait"] /\ clock' = [clock EXCEPT ![j] = 0]
  ELSE UNCHANGED <<beat, clock>>

\* write_meta, under prog._lock, for the heartbeat or for progress of the builder:
\* nothing is written for a build that another token has superseded.
WriteCheck(j, who) ==
  /\ writer[j] = "nobody" /\ Runs(j)
  /\ \/ who = "heartbeat" /\ beat[j] = "write"
     \/ who = "builder" /\ pc[j] = "building" /\ ~superseded[j]
  /\ superseded' = [superseded EXCEPT ![j] = @ \/ lock \notin {j, None}]
  /\ IF superseded'[j]
     THEN Beaten(j, who) /\ UNCHANGED writer
     ELSE writer' = [writer EXCEPT ![j] = who] /\ UNCHANGED <<beat, clock>>
  /\ UNCHANGED <<redisVars, pc, seen, stall, overdue>>

\* Mutant of WriteMeta: progress is written, but not the time of the heartbeat.
WriteMetaWithoutBeat(j) ==
  /\ writer[j] # "nobody" /\ Runs(j)
  /\ meta' = ComputingMeta(j, IF Computing(j) THEN meta.beat ELSE 0)
  /\ Beaten(j, writer[j])
  /\ writer' = [writer EXCEPT ![j] = "nobody"]
  /\ UNCHANGED <<lock, ttl, pc, seen, superseded, stall, overdue>>

WriteMeta(j) ==
  /\ writer[j] # "nobody" /\ Runs(j)
  /\ meta' = ComputingMeta(j, 0)
  /\ Beaten(j, writer[j])
  /\ writer' = [writer EXCEPT ![j] = "nobody"]
  /\ UNCHANGED <<lock, ttl, pc, seen, superseded, stall, overdue>>

-----------------------------------------------------------------------------
(* The end of a build.                                                     *)

\* The builder returns or raises, SnapshotSuperseded among others, and tells the
\* heartbeat to stop, ...
Return(j) ==
  /\ pc[j] = "building" /\ writer[j] # "builder" /\ Runs(j)
  /\ pc' = [pc EXCEPT ![j] = "stopping"]
  /\ UNCHANGED <<redisVars, seen, beat, writer, superseded, stall, overdue, clock>>

\* Mutant of StopHeartbeat: the thread is told to stop, neither waited for nor shut out.
StopHeartbeatUnjoined(j) ==
  /\ pc[j] = "stopping" /\ Runs(j)
  /\ \E outcome \in {"check", "fail"} : pc' = [pc EXCEPT ![j] = outcome]
  /\ UNCHANGED <<redisVars, seen, beat, writer, superseded, stall, overdue, clock>>

\* ... and waits for it, 5 s at most, which matters only if it hung; write_meta is closed, an
\* extension of the lock that is on its way is not.
StopHeartbeat(j) ==
  /\ pc[j] = "stopping" /\ Runs(j) /\ writer[j] # "heartbeat"
  /\ beat[j] \in {"wait", "off"} \/ stall[j] = "past"
  /\ beat' = [beat EXCEPT ![j] = IF @ \in {"renew", "retake"} THEN @ ELSE "off"]
  /\ \E outcome \in {"check", "fail"} : pc' = [pc EXCEPT ![j] = outcome]
  /\ UNCHANGED <<redisVars, seen, writer, superseded, stall, overdue, clock>>

\* The last look at the lock before the result is written.
FinalCheck(j) ==
  /\ pc[j] = "check" /\ Runs(j)
  /\ superseded' = [superseded EXCEPT ![j] = @ \/ lock \notin {j, None}]
  /\ pc' = [pc EXCEPT ![j] = IF superseded'[j] THEN "release" ELSE "finish"]
  /\ UNCHANGED <<redisVars, seen, beat, writer, stall, overdue, clock>>

\* result and last, then meta; nothing tells the two apart here.
Finish(j) ==
  /\ pc[j] = "finish" /\ Runs(j)
  /\ meta' = Settled
  /\ pc' = [pc EXCEPT ![j] = "release"]
  /\ UNCHANGED <<lock, ttl, seen, beat, writer, superseded, stall, overdue, clock>>

\* An error; a build that knows that it is superseded keeps silent, but there is no
\* look at the lock.
Fail(j) ==
  /\ pc[j] = "fail" /\ Runs(j)
  /\ meta' = IF superseded[j] THEN meta ELSE Settled
  /\ pc' = [pc EXCEPT ![j] = "release"]
  /\ UNCHANGED <<lock, ttl, seen, beat, writer, superseded, stall, overdue, clock>>

\* release_lock again, and the threads are gone.
Ends(j) ==
  /\ pc' = [pc EXCEPT ![j] = "ended"]
  /\ superseded' = [superseded EXCEPT ![j] = FALSE] /\ clock' = [clock EXCEPT ![j] = 0]

ReleaseCheck(j) ==
  /\ pc[j] = "release" /\ Runs(j)
  /\ IF lock = j THEN pc' = [pc EXCEPT ![j] = "releasing"] /\ UNCHANGED <<superseded, clock>>
                 ELSE Ends(j)
  /\ UNCHANGED <<redisVars, seen, beat, writer, stall, overdue>>

Release(j) ==
  /\ pc[j] = "releasing" /\ Runs(j)
  /\ lock' = None /\ ttl' = 0
  /\ Ends(j)
  /\ UNCHANGED <<meta, seen, beat, writer, stall, overdue>>

-----------------------------------------------------------------------------
(* put and invalidate, processes, and time.                                *)

\* A collector registers a result of its own, or the snapshot is invalidated; both leave
\* the lock alone.  put does nothing while it finds a build under way, but that is
\* one read of meta, any time before its write.
Overwrite ==
  /\ meta' = Settled
  /\ UNCHANGED <<lock, ttl, pc, seen, beat, writer, superseded, stall, overdue, clock>>

\* A process that hangs, once, ...
Stall(j) ==
  /\ j \in Slow /\ Live(j) /\ stall[j] = "no"
  /\ stall' = [stall EXCEPT ![j] = "now"]
  /\ UNCHANGED <<redisVars, pc, seen, beat, writer, superseded, overdue, clock>>

Resume(j) ==
  /\ stall[j] = "now"
  /\ stall' = [stall EXCEPT ![j] = "past"] /\ clock' = [clock EXCEPT ![j] = 0]
  /\ UNCHANGED <<redisVars, pc, seen, beat, writer, superseded, overdue>>

\* ... or dies, with all its threads.
Die(j) ==
  /\ Live(j)
  /\ pc' = [pc EXCEPT ![j] = "dead"] /\ seen' = [seen EXCEPT ![j] = None]
  /\ beat' = [beat EXCEPT ![j] = "off"] /\ writer' = [writer EXCEPT ![j] = "nobody"]
  /\ stall' = [stall EXCEPT ![j] = "no"] /\ clock' = [clock EXCEPT ![j] = 0]
  /\ superseded' = [superseded EXCEPT ![j] = FALSE]
  /\ UNCHANGED <<redisVars, overdue>>

\* stuck_timeout is long: any build may pass it, however well it goes on.
GrowOld(j) ==
  /\ pc[j] = "building" /\ j \notin overdue
  /\ overdue' = overdue \cup {j}
  /\ UNCHANGED <<redisVars, pc, seen, beat, writer, superseded, stall, clock>>

\* What must go on within Pace: a request, a heartbeat, the end of a build; not
\* the builder, and not a process that hangs.
Timely(j) == Live(j) /\ Runs(j) /\ (pc[j] = "building" => beat[j] # "off")

Tick ==
  /\ \A j \in Jobs : Timely(j) => clock[j] < Pace
  /\ clock' = [j \in Jobs |-> IF Timely(j) THEN clock[j] + 1 ELSE clock[j]]
  /\ meta' = IF meta.status = "computing" THEN [meta EXCEPT !.beat = UpTo(@, Timeout)] ELSE meta
  /\ ttl' = IF ttl = 0 THEN 0 ELSE ttl - 1
  /\ lock' = IF ttl = 1 THEN None ELSE lock
  /\ UNCHANGED <<pc, seen, beat, writer, superseded, stall, overdue>>

Poll(j) == ReadMeta(j) \/ EvictCheck(j) \/ Evict(j) \/ Acquire(j) \/ Announce(j)
Heartbeat(j) == RenewCheck(j) \/ Renew(j) \/ RetakeFails(j) \/ WriteCheck(j, "heartbeat")
Progress(j) == WriteCheck(j, "builder") \/ Return(j)
End(j) ==
  StopHeartbeat(j) \/ FinalCheck(j) \/ Finish(j) \/ Fail(j) \/ ReleaseCheck(j) \/ Release(j)

Next ==
  \/ \E j \in Jobs :
       Poll(j) \/ Heartbeat(j) \/ Progress(j) \/ WriteMeta(j) \/ End(j) \/ Stall(j) \/ Resume(j) \/ Die(j) \/ GrowOld(j)
  \/ Overwrite
  \/ Tick

Spec == Init /\ [][Next]_vars

\* The page polls while it shows a computation, threads are scheduled, a process
\* that hangs comes back, and time passes.  The heartbeat gets prog._lock although
\* the builder keeps taking it, at most once a second.  A builder need not end.
FairSpec ==
  /\ Spec /\ WF_vars(Tick)
  /\ \A j \in Jobs :
       /\ WF_vars(Poll(j)) /\ SF_vars(Heartbeat(j)) /\ WF_vars(WriteMeta(j))
       /\ WF_vars(End(j)) /\ WF_vars(Resume(j))

-----------------------------------------------------------------------------
(* Properties.                                                             *)

\* Every variable keeps its type; the lock has a time to live while it is held.
TypeOK ==
  /\ lock \in Jobs \cup {None} /\ ttl \in 0..Timeout /\ (lock = None <=> ttl = 0)
  /\ meta \in [status : {"settled", "computing"}, owner : Jobs \cup {None},
               beat : 0..Timeout]
  /\ pc \in [Jobs -> {"idle", "evict", "evicting", "acquire", "announce", "building", "stopping",
                    "check", "finish", "fail", "release", "releasing",
                    "ended", "dead"}]
  /\ seen \in [Jobs -> Jobs \cup {None}]
  /\ beat \in [Jobs -> {"off", "wait", "renew", "retake", "write"}]
  /\ writer \in [Jobs -> {"nobody", "heartbeat", "builder"}]
  /\ superseded \in [Jobs -> BOOLEAN] /\ stall \in [Jobs -> {"no", "now", "past"}]
  /\ overdue \subseteq Jobs /\ clock \in [Jobs -> 0..Pace]

\* A build whose process keeps up, and which is not superseded, never looks dead: while
\* the record is its own, no request finds its heartbeat older than the timeout.
LiveOwnerLooksAlive ==
  \A j \in Jobs : Computing(j) /\ Timely(j) /\ stall[j] = "no" /\ ~superseded[j] => meta.beat < Timeout

\* After its final record a build never turns the snapshot back to computing, and
\* once it has ended it holds no lock again, unless its process hung (_stop_heartbeat).
DoneStaysDone ==
  [][\A j \in Jobs :
       /\ pc[j] \in {"check", "finish", "fail", "release", "releasing", "ended"}
            => (Computing(j)' => Computing(j))
       /\ pc[j] = "ended" /\ stall[j] = "no" => lock' # j]_vars

\* A request that has not yet got a build.
Asking(j) == pc[j] \in {"idle", "evict", "evicting", "acquire", "announce"}

\* A snapshot whose owner has died is not left computing: some other request takes
\* it over, as long as there is one.
OrphanIsTakenOver ==
  \A j \in Jobs : Computing(j) /\ pc[j] = "dead" ~>
    ~Computing(j) \/ \A k \in Jobs : ~Asking(k)

\* Whatever overwrites the record of a build that owns the lock (a slower request,
\* a late error, a put, an invalidate), its heartbeat restores it, unless the build
\* takes itself for superseded.
RecordIsRestored ==
  \A j \in Jobs : lock = j /\ pc[j] = "building" ~>
    Computing(j) \/ lock # j \/ pc[j] # "building" \/ superseded[j]

-----------------------------------------------------------------------------
(* What the repository says and the code does not do; TLC finds it         *)
(* violated (README).                                                      *)

\* _run_shared: "인계 후 늦게 난 오류 — 새 주인의 상태를 error 로 덮지 않는다".
LateErrorsAreIgnored ==
  [][\A j \in Jobs : pc[j] = "fail" /\ lock \notin {j, None} /\ pc'[j] # "fail"
       => meta' = meta]_vars
=============================================================================
