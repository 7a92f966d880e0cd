------------------------------ MODULE SWRCache ------------------------------
(***************************************************************************)
(* The cache of Kubernetes lists (swr_cache.py, k8s_list_cache.py): in     *)
(* every process a dictionary of entries with a short life, one lookup in  *)
(* flight per key, and an epoch per group that every write to the cluster  *)
(* moves, in the process that wrote and, through Redis, in the others.     *)
(* Groups (clusters) share nothing but the limit on entries, so one group  *)
(* is modelled.  clear() is a test helper and is left out.                 *)
(*                                                                         *)
(* The cluster is one version number that each write raises.  time.time()  *)
(* of a bump is represented by the version written: only the equality of   *)
(* two epochs is ever used.  Time is in ticks; an age stops growing once   *)
(* nothing distinguishes it any more.  A lookup takes any time: it waits   *)
(* for the executor and for a slot, and reads page after page.             *)
(***************************************************************************)
EXTENDS Naturals, FiniteSets

CONSTANTS
  Procs,      \* processes that share Redis: API replicas and Celery workers
  Readers,    \* request threads
  Home,       \* the process of each reader
  Keys,       \* cache keys of the group
  Fresh, Stale, MaxEntries,   \* the arguments of SWRCache
  RemoteTtl,  \* expiry of the epoch in Redis (4 * stale + 60 s)
  LoadLimit,  \* a lookup ends in time within so many ticks of reading the epoch
  MaxWrites,  \* bound on the writes
  None        \* no loader

ASSUME CacheAssumption ==
  /\ IsFiniteSet(Keys) /\ None \notin Readers \cup (Procs \X Keys)
  /\ Home \in [Readers -> Procs] /\ Readers \cap (Procs \X Keys) = {}
  /\ Fresh \in Nat /\ Stale \in Nat /\ Fresh <= Stale
  /\ MaxEntries \in Nat \ {0}
  \* In time: its entry is gone before an epoch published meanwhile expires.
  /\ RemoteTtl \in Nat /\ LoadLimit \in Nat /\ Stale + LoadLimit < RemoteTtl
  /\ MaxWrites \in Nat

\* A lookup runs in the thread of the reader that missed, or in the executor.
Loaders == Readers \cup (Procs \X Keys)

VARIABLES
  version,    \* the state of the cluster
  quiet,      \* history: ticks since the last write
  writing,    \* per process: how far the write and its bump are
  wrote,      \* per process: the version its latest write made
  told,       \* history, per process: the latest write whose bump has returned
  published,  \* history: the latest write whose bump has reached Redis
  remote,     \* the epoch in Redis, 0 when there is none
  ttl,        \* ticks until Redis drops it
  local,      \* _local_epoch
  entries,    \* _entries, with the time (took) that their lookups took
  inflight,   \* _inflight, the loader that will complete the future
  pc,         \* where each reader is
  key,        \* the key of its get
  floor,      \* history: what that get was promised to see when it started
  joined,     \* the loader a reader waits for
  stage,      \* where each lookup is
  value,      \* what it has read
  epoch,      \* the epoch read before it
  age         \* ticks since then

readerVars == <<key, floor>>
writerVars == <<version, quiet, writing, wrote, told, published>>
vars == <<writerVars, remote, ttl, local, entries, inflight, pc, readerVars,
          joined, stage, value, epoch, age>>

Empty == [held |-> FALSE, value |-> 0, epoch |-> <<0, 0>>, age |-> 0, took |-> 0]

Init ==
  /\ version = 0 /\ quiet = 0
  /\ writing = [p \in Procs |-> "no"]
  /\ wrote = [p \in Procs |-> 0] /\ told = [p \in Procs |-> 0] /\ published = 0
  /\ remote = 0 /\ ttl = 0
  /\ local = [p \in Procs |-> 0]
  /\ entries = [p \in Procs |-> [k \in Keys |-> Empty]]
  /\ inflight = [p \in Procs |-> [k \in Keys |-> None]]
  /\ pc = [r \in Readers |-> "idle"]
  /\ key \in [Readers -> Keys]
  /\ floor = [r \in Readers |-> 0]
  /\ joined = [r \in Readers |-> None]
  /\ stage = [l \in Loaders |-> "off"]
  /\ value = [l \in Loaders |-> 0]
  /\ epoch = [l \in Loaders |-> <<0, 0>>]
  /\ age = [l \in Loaders |-> 0]

ProcOf(l) == IF l \in Readers THEN Home[l] ELSE l[1]
KeyOf(l) == IF l \in Readers THEN key[l] ELSE l[2]

Larger(m, n) == IF m < n THEN n ELSE m

-----------------------------------------------------------------------------
(* A write to the cluster, then note_write -> invalidate_host -> bump.     *)

Write(p) ==
  /\ writing[p] = "no" /\ version < MaxWrites
  /\ version' = version + 1 /\ quiet' = 0
  /\ wrote' = [wrote EXCEPT ![p] = version + 1]
  /\ writing' = [writing EXCEPT ![p] = "written"]
  /\ UNCHANGED <<told, published, remote, ttl, local, entries, inflight, pc, readerVars,
                 joined, stage, value, epoch, age>>

\* Mutant of BumpLocal: bump drops the entries but keeps the epoch.
BumpLocalOnlyDrops(p) ==
  /\ writing[p] = "written"
  /\ entries' = [entries EXCEPT ![p] = [k \in Keys |-> Empty]]
  /\ writing' = [writing EXCEPT ![p] = "bumped"]
  /\ UNCHANGED <<version, quiet, wrote, told, published, remote, ttl, local, inflight, pc, readerVars,
                 joined, stage, value, epoch, age>>

\* Under the lock: a new local epoch, and the entries of the group go.
BumpLocal(p) ==
  /\ writing[p] = "written"
  /\ local' = [local EXCEPT ![p] = @ + 1]
  /\ entries' = [entries EXCEPT ![p] = [k \in Keys |-> Empty]]
  /\ writing' = [writing EXCEPT ![p] = "bumped"]
  /\ UNCHANGED <<version, quiet, wrote, told, published, remote, ttl, inflight, pc, readerVars,
                 joined, stage, value, epoch, age>>

\* Mutant of BumpRemote: the epoch is not published to the other processes.
BumpRemoteSkipped(p) ==
  /\ writing[p] = "bumped"
  /\ published' = Larger(published, wrote[p])
  /\ told' = [told EXCEPT ![p] = wrote[p]]
  /\ writing' = [writing EXCEPT ![p] = "no"]
  /\ UNCHANGED <<version, quiet, wrote, remote, ttl, local, entries, inflight, pc, readerVars,
                 joined, stage, value, epoch, age>>

\* set_json, outside the lock; a failure of Redis is swallowed.
BumpRemote(p) ==
  /\ writing[p] = "bumped"
  /\ \/ remote' = wrote[p] /\ ttl' = RemoteTtl /\ published' = Larger(published, wrote[p])
     \/ UNCHANGED <<remote, ttl, published>>
  /\ told' = [told EXCEPT ![p] = wrote[p]]
  /\ writing' = [writing EXCEPT ![p] = "no"]
  /\ UNCHANGED <<version, quiet, wrote, local, entries, inflight, pc, readerVars,
                 joined, stage, value, epoch, age>>

-----------------------------------------------------------------------------
(* get                                                                     *)

\* What a get started now in q is promised to see: the writes q has bumped and,
\* if Redis answers the get, the writes whose bump has reached Redis.
Promised(q, answers) == IF answers THEN Larger(told[q], published) ELSE told[q]

\* _epoch reads the local epoch, without the lock, ...
Start(r, k, answers) ==
  /\ pc[r] = "idle"
  /\ key' = [key EXCEPT ![r] = k]
  /\ floor' = [floor EXCEPT ![r] = Promised(Home[r], answers)]
  /\ epoch' = [epoch EXCEPT ![r] = <<0, local[Home[r]]>>]
  /\ age' = [age EXCEPT ![r] = 0]
  /\ pc' = [pc EXCEPT ![r] = IF answers THEN "local" ELSE "cutoff"]
  /\ UNCHANGED <<writerVars, remote, ttl, local, entries, inflight, joined, stage, value>>

\* ... then the one in Redis; no answer counts as 0.0.
ReadRemote(r) ==
  /\ pc[r] \in {"local", "cutoff"}
  /\ epoch' = [epoch EXCEPT ![r] = <<IF pc[r] = "local" THEN remote ELSE 0, @[2]>>]
  /\ pc' = [pc EXCEPT ![r] = "epoch"]
  /\ UNCHANGED <<writerVars, remote, ttl, local, entries, inflight, readerVars, joined,
                 stage, value, age>>

\* The entry a get may use, under the lock; an entry of another epoch is dropped.
Usable(r) ==
  LET e == entries[Home[r]][key[r]] IN e.held /\ e.epoch = epoch[r]

DropOutdated(r) ==
  entries' = IF Usable(r) THEN entries ELSE [entries EXCEPT ![Home[r]][key[r]] = Empty]

\* What l knew of its lookup is gone.
Forget(l) == epoch' = [epoch EXCEPT ![l] = <<0, 0>>] /\ age' = [age EXCEPT ![l] = 0]

\* The get of r returns.
Return(r) ==
  /\ pc' = [pc EXCEPT ![r] = "idle"]
  /\ floor' = [floor EXCEPT ![r] = 0]

\* Without refresh: a fresh entry.
Hit(r) ==
  /\ pc[r] = "epoch" /\ Usable(r)
  /\ entries[Home[r]][key[r]].age <= Fresh
  /\ Return(r) /\ Forget(r)
  /\ UNCHANGED <<writerVars, remote, ttl, local, entries, inflight, key,
                 joined, stage, value>>

\* Mutant of Idle: a lookup in flight is not noticed.
IdleAlways(r) == TRUE

\* Nobody looks the key of r up.
Idle(r) == inflight[Home[r]][key[r]] = None

\* Without refresh, past fresh: the value at once, and one lookup in the executor,
\* which takes the epoch of r over.
ServeStale(r) ==
  LET bg == <<Home[r], key[r]>> IN
  /\ pc[r] = "epoch" /\ Usable(r)
  /\ entries[Home[r]][key[r]].age \in (Fresh + 1)..Stale
  /\ Return(r)
  /\ IF Idle(r)
     THEN /\ inflight' = [inflight EXCEPT ![Home[r]][key[r]] = bg]
          /\ stage' = [stage EXCEPT ![bg] = "sent"]
          /\ epoch' = [epoch EXCEPT ![bg] = epoch[r], ![r] = <<0, 0>>]
          /\ age' = [age EXCEPT ![bg] = age[r], ![r] = 0]
     ELSE Forget(r) /\ UNCHANGED <<inflight, stage>>
  /\ UNCHANGED <<writerVars, remote, ttl, local, entries, key, joined, value>>

\* Nothing to serve; with refresh, whatever there is.
Missed(r, refresh) ==
  pc[r] = "epoch" /\ (Usable(r) /\ ~refresh => entries[Home[r]][key[r]].age > Stale)

\* Wait for the lookup in flight.
Join(r, refresh) ==
  /\ Missed(r, refresh) /\ ~Idle(r)
  /\ DropOutdated(r)
  /\ joined' = [joined EXCEPT ![r] = inflight[Home[r]][key[r]]]
  /\ pc' = [pc EXCEPT ![r] = "waiting"]
  /\ Forget(r)
  /\ UNCHANGED <<writerVars, remote, ttl, local, inflight, readerVars, stage, value>>

\* Or look it up.
Own(r, refresh) ==
  /\ Missed(r, refresh) /\ Idle(r)
  /\ DropOutdated(r)
  /\ inflight' = [inflight EXCEPT ![Home[r]][key[r]] = r]
  /\ stage' = [stage EXCEPT ![r] = "sent"]
  /\ pc' = [pc EXCEPT ![r] = "loading"]
  /\ UNCHANGED <<writerVars, remote, ttl, local, readerVars, joined, value, epoch, age>>

-----------------------------------------------------------------------------
(* _run                                                                    *)

\* The API server answers the loader with the first page; the further pages of
\* a lookup show the cluster as it was then.
Fetch(l) ==
  /\ stage[l] = "sent"
  /\ value' = [value EXCEPT ![l] = version]
  /\ stage' = [stage EXCEPT ![l] = "read"]
  /\ UNCHANGED <<writerVars, remote, ttl, local, entries, inflight, pc, readerVars,
                 joined, epoch, age>>

\* _epoch_unchanged: the epoch in Redis is left to the next get.
Unchanged(l) == epoch[l][2] = local[ProcOf(l)]

\* Mutant of Victims: the limit is off by one.
VictimsLate(p, k) ==
  LET kept == {j \in Keys : entries[p][j].held /\ entries[p][j].age <= Stale}
  IN  IF k \in kept \/ Cardinality(kept) <= MaxEntries THEN {{}}
      ELSE {{j} : j \in {i \in kept : \A h \in kept : entries[p][h].age <= entries[p][i].age}}

\* What storing k in p may evict: nothing while there is room, else an oldest entry.
Victims(p, k) ==
  LET kept == {j \in Keys : entries[p][j].held /\ entries[p][j].age <= Stale}
  IN  IF k \in kept \/ Cardinality(kept) < MaxEntries THEN {{}}
      ELSE {{j} : j \in {i \in kept : \A h \in kept : entries[p][h].age <= entries[p][i].age}}

\* Mutant of Store: only the local epoch is kept with the entry.
StoreLocalEpoch(l, p, k) ==
  entries' = [entries EXCEPT ![p][k] =
    [held |-> TRUE, value |-> value[l], epoch |-> <<epoch[l][2]>>, age |-> 0, took |-> age[l]]]

\* What the lookup of l has found.
Answer(l) ==
  [held |-> TRUE, value |-> value[l], epoch |-> epoch[l], age |-> 0, took |-> age[l]]

\* Expired entries are purged, one is evicted, the new one is stored.
Store(l, p, k) ==
  \E out \in Victims(p, k) :
    entries' = [entries EXCEPT ![p] = [j \in Keys |->
      IF j = k THEN Answer(l)
      ELSE IF j \in out \/ @[j].age > Stale THEN Empty ELSE @[j]]]

\* The futures of l: the reader that owns the lookup and those that joined it.
Served(l) == {r \in Readers : r = l \/ (pc[r] = "waiting" /\ joined[r] = l)}

\* Mutant of Resolve: the readers that joined are never woken.
ResolveOwner(l) ==
  /\ pc' = [r \in Readers |-> IF r = l THEN "idle" ELSE pc[r]]
  /\ floor' = [r \in Readers |-> IF r = l THEN 0 ELSE floor[r]]
  /\ joined' = joined

\* set_result or set_exception on the future.
Resolve(l) ==
  /\ pc' = [r \in Readers |-> IF r \in Served(l) THEN "idle" ELSE pc[r]]
  /\ floor' = [r \in Readers |-> IF r \in Served(l) THEN 0 ELSE floor[r]]
  /\ joined' = [r \in Readers |-> IF r \in Served(l) THEN None ELSE joined[r]]

Finish(l) ==
  /\ stage[l] = "read"
  /\ inflight' = [inflight EXCEPT ![ProcOf(l)][KeyOf(l)] = None]
  /\ stage' = [stage EXCEPT ![l] = "off"] /\ value' = [value EXCEPT ![l] = 0] /\ Forget(l)
  /\ IF Unchanged(l) THEN Store(l, ProcOf(l), KeyOf(l)) ELSE UNCHANGED entries
  /\ Resolve(l)
  /\ UNCHANGED <<writerVars, remote, ttl, local, key>>

\* Mutant of Fail: the entry that could not be refreshed counts as fresh again.
FailExtends(l) ==
  /\ stage[l] = "sent"
  /\ inflight' = [inflight EXCEPT ![ProcOf(l)][KeyOf(l)] = None]
  /\ stage' = [stage EXCEPT ![l] = "off"] /\ Forget(l)
  /\ entries' = [entries EXCEPT ![ProcOf(l)][KeyOf(l)].age = 0]
  /\ Resolve(l)
  /\ UNCHANGED <<writerVars, remote, ttl, local, key, value>>

\* The loader raises, for the first page or a later one: nothing is stored,
\* everybody who waits gets the exception.
Fail(l) ==
  /\ stage[l] = "sent"
  /\ inflight' = [inflight EXCEPT ![ProcOf(l)][KeyOf(l)] = None]
  /\ stage' = [stage EXCEPT ![l] = "off"] /\ Forget(l)
  /\ Resolve(l)
  /\ UNCHANGED <<writerVars, remote, ttl, local, entries, key, value>>

-----------------------------------------------------------------------------
\* A lookup, or a reader about to start one.
Busy(l) == stage[l] # "off" \/ (l \in Readers /\ pc[l] \in {"local", "cutoff", "epoch"})

UpTo(n, max) == IF n < max THEN n + 1 ELSE max

\* As long as a write can stay hidden when lookups end in time.
Recovery == Stale + LoadLimit

Tick ==
  /\ age' = [l \in Loaders |-> IF Busy(l) THEN UpTo(age[l], LoadLimit + 1) ELSE age[l]]
  /\ entries' = [p \in Procs |-> [k \in Keys |->
       IF entries[p][k].held THEN [entries[p][k] EXCEPT !.age = UpTo(@, Stale + 1)] ELSE Empty]]
  /\ quiet' = UpTo(quiet, Recovery + 1)
  /\ ttl' = IF ttl = 0 THEN 0 ELSE ttl - 1
  /\ remote' = IF ttl <= 1 THEN 0 ELSE remote
  /\ UNCHANGED <<version, writing, wrote, told, published, local, inflight, pc, readerVars, joined,
                 stage, value, epoch>>

Writer(p) == Write(p) \/ BumpLocal(p) \/ BumpRemote(p)
Reader(r) ==
  \/ ReadRemote(r) \/ Hit(r) \/ ServeStale(r)
  \/ \E refresh \in BOOLEAN : Join(r, refresh) \/ Own(r, refresh)
Loader(l) == Fetch(l) \/ Finish(l) \/ Fail(l)

Next ==
  \/ \E p \in Procs : Writer(p)
  \/ \E r \in Readers, k \in Keys, answers \in BOOLEAN : Start(r, k, answers)
  \/ \E r \in Readers : Reader(r)
  \/ \E l \in Loaders : Loader(l)
  \/ Tick

Spec == Init /\ [][Next]_vars

\* Threads that can go on are scheduled, and a lookup ends: the client injects
\* a timeout into every request, and a lookup makes ten at most.  Nothing is
\* assumed of writers and of time.
FairSpec ==
  /\ Spec
  /\ \A r \in Readers : WF_vars(Reader(r))
  /\ \A l \in Loaders : WF_vars(Loader(l))

-----------------------------------------------------------------------------
Epochs == (0..MaxWrites) \X (0..MaxWrites)

\* Every variable keeps its type.
TypeOK ==
  /\ version \in 0..MaxWrites /\ quiet \in 0..(Recovery + 1)
  /\ writing \in [Procs -> {"no", "written", "bumped"}]
  /\ wrote \in [Procs -> 0..MaxWrites] /\ told \in [Procs -> 0..MaxWrites]
  /\ published \in 0..MaxWrites
  /\ remote \in 0..MaxWrites /\ ttl \in 0..RemoteTtl
  /\ local \in [Procs -> 0..MaxWrites]
  /\ entries \in [Procs -> [Keys -> [held : BOOLEAN, value : 0..MaxWrites,
                                     epoch : Epochs, age : 0..(Stale + 1),
                                     took : 0..(LoadLimit + 1)]]]
  /\ inflight \in [Procs -> [Keys -> Loaders \cup {None}]]
  /\ pc \in [Readers -> {"idle", "local", "cutoff", "epoch", "waiting", "loading"}]
  /\ key \in [Readers -> Keys]
  /\ floor \in [Readers -> 0..MaxWrites]
  /\ joined \in [Readers -> Loaders \cup {None}]
  /\ stage \in [Loaders -> {"off", "sent", "read"}]
  /\ value \in [Loaders -> 0..MaxWrites]
  /\ epoch \in [Loaders -> Epochs]
  /\ age \in [Loaders -> 0..(LoadLimit + 1)]

\* The steps in which the get of r returns: what it finds in an entry, ...
FromEntry(r) == pc[r] = "epoch" /\ pc'[r] = "idle"
Entry(r) == entries[Home[r]][key[r]]

\* ... or what the lookup of l has read, its own or one that it joined.
FromLookup(r, l) == stage[l] = "read" /\ stage'[l] = "off" /\ r \in Served(l)

\* What get answers from an entry whose lookup ended in time, or from a lookup of
\* its own, however long (not from one that it joined, which may have begun before
\* the bump), contains every write that its process had bumped before, and every
\* write whose bump had reached Redis unless Redis does not answer.  The lookup may
\* have started before the write, the entry may have been stored after the bump,
\* the epoch in Redis may have been overwritten by a slower bump or have expired.
BumpedWritesAreSeen ==
  [][\A r \in Readers :
       /\ FromEntry(r) /\ Entry(r).took <= LoadLimit => Entry(r).value >= floor[r]
       /\ FromLookup(r, r) => value[r] >= floor[r]]_vars

\* However bumps are lost, a write is hidden no longer than an entry can live
\* plus the time its lookup took, and from those who wait for a lookup no longer
\* than that lookup takes ("the cache recovers by its TTL").
RecoversByTtl ==
  [][\A r \in Readers :
       /\ FromEntry(r) /\ Entry(r).took <= LoadLimit /\ quiet > Stale + Entry(r).took =>
            Entry(r).value = version
       /\ \A l \in Loaders :
            FromLookup(r, l) /\ age[l] <= LoadLimit /\ quiet > age[l] =>
              value[l] = version]_vars

\* Two lookups of one key never run at the same time in one process.
SingleFlight ==
  \A l, m \in Loaders :
    stage[l] # "off" /\ stage[m] # "off" /\ ProcOf(l) = ProcOf(m) /\ KeyOf(l) = KeyOf(m) => l = m

\* Expired entries and evictions keep the dictionary within max_entries.
CacheIsBounded ==
  \A p \in Procs : Cardinality({k \in Keys : entries[p][k].held}) <= MaxEntries

\* Every get returns, whoever does its lookup and whether that fails or not.
EveryGetReturns == \A r \in Readers : []<>(pc[r] = "idle")

-----------------------------------------------------------------------------
(* What the documentation says and the code does not do: README.md tells   *)
(* the steps.                                                              *)

\* Does not hold.  bump invalidates everything cached of the group, in every
\* process (swr_cache.py:7-9): an entry whose lookup took longer than the epoch
\* lives in Redis matches the epoch again once that has expired.
BumpsInvalidateAll ==
  [][\A r \in Readers : FromEntry(r) => Entry(r).value >= floor[r]]_vars
=============================================================================
