---------------------------- MODULE SWRCacheProofs ----------------------------
(***************************************************************************)
(* Proofs about SWRCache, for any number of processes, readers, keys and   *)
(* writes, and any lives of entries and epochs that CacheAssumption allows.*)
(***************************************************************************)
EXTENDS SWRCache, FiniteSetTheorems, TLAPS

Record == [held : BOOLEAN, value : 0..MaxWrites, epoch : Epochs, age : 0..(Stale + 1),
           took : 0..(LoadLimit + 1)]

-----------------------------------------------------------------------------
(* Types.                                                                  *)

\* The local epoch of a process counts writes, of which there have been no more.
Counted ==
  /\ \A p \in Procs : local[p] + (IF writing[p] = "written" THEN 1 ELSE 0) <= version
  /\ \A p \in Procs : wrote[p] <= version

TypeInv == TypeOK /\ Counted

LEMMA LoaderType ==
  ASSUME TypeOK, NEW l \in Loaders
  PROVE  ProcOf(l) \in Procs /\ KeyOf(l) \in Keys
BY CacheAssumption DEF Loaders, ProcOf, KeyOf, TypeOK

LEMMA BackgroundType ==
  ASSUME NEW p \in Procs, NEW k \in Keys
  PROVE  <<p, k>> \in Loaders /\ <<p, k>> \notin Readers
BY CacheAssumption DEF Loaders

LEMMA EmptyType == Empty \in Record /\ <<0, 0>> \in Epochs
BY CacheAssumption DEF Empty, Record, Epochs

LEMMA VictimsType ==
  ASSUME NEW p, NEW k, NEW out \in Victims(p, k)
  PROVE  out \subseteq {j \in Keys : entries[p][j].held /\ entries[p][j].age <= Stale}
BY DEF Victims

\* What storing does to the entries of the process: one is new, the others stay
\* or go.
LEMMA StoreEntries ==
  ASSUME TypeOK, NEW l \in Loaders, NEW p \in Procs, NEW k \in Keys, Store(l, p, k)
  PROVE  /\ entries' \in [Procs -> [Keys -> Record]]
         /\ \A q \in Procs, j \in Keys : q # p \/ j # k =>
              entries'[q][j] \in {entries[q][j], Empty}
         /\ entries'[p][k] = Answer(l)
<1>1. PICK out \in Victims(p, k) :
        entries' = [entries EXCEPT ![p] = [j \in Keys |->
          IF j = k THEN Answer(l)
          ELSE IF j \in out \/ entries[p][j].age > Stale THEN Empty ELSE entries[p][j]]]
  BY DEF Store, TypeOK
<1>2. Answer(l) \in Record
  BY CacheAssumption DEF Answer, TypeOK, Record
<1> QED BY <1>1, <1>2, EmptyType DEF TypeOK, Record

LEMMA TypeInit == Init => TypeInv
<1> SUFFICES ASSUME Init PROVE TypeInv
  OBVIOUS
<1>1. TypeOK
  BY CacheAssumption, EmptyType DEF Init, TypeOK, Recovery, Record, Loaders
<1>2. Counted
  BY DEF Init, Counted
<1> QED BY <1>1, <1>2 DEF TypeInv

LEMMA WriterTypes ==
  ASSUME TypeInv, NEW p \in Procs, Writer(p)
  PROVE  TypeInv'
<1> USE DEF TypeInv
<1>1. ASSUME Write(p) PROVE TypeInv'
  BY <1>1, CacheAssumption DEF Write, readerVars, TypeOK, Counted, Recovery
<1>2. ASSUME BumpLocal(p) PROVE TypeInv'
  <2>1. entries' \in [Procs -> [Keys -> Record]]
    BY <1>2, EmptyType DEF BumpLocal, TypeOK, Record
  <2>2. local'[p] <= version /\ local' \in [Procs -> 0..MaxWrites] /\ Counted'
    BY <1>2, CacheAssumption DEF BumpLocal, TypeOK, Counted
  <2> QED BY <1>2, <2>1, <2>2 DEF BumpLocal, readerVars, TypeOK, Record
<1>3. ASSUME BumpRemote(p) PROVE TypeInv'
  BY <1>3, CacheAssumption DEF BumpRemote, readerVars, TypeOK, Counted, Larger
<1> QED BY <1>1, <1>2, <1>3 DEF Writer

LEMMA GetTypes ==
  ASSUME TypeInv, NEW r \in Readers,
         Reader(r) \/ \E k \in Keys, answers \in BOOLEAN : Start(r, k, answers)
  PROVE  TypeInv'
<1> USE DEF TypeInv
<1>0. /\ r \in Loaders /\ Home[r] \in Procs /\ key[r] \in Keys
      /\ epoch[r] \in Epochs /\ <<0, 0>> \in Epochs
  BY CacheAssumption, EmptyType DEF Loaders, TypeOK
<1>1. ASSUME NEW k \in Keys, NEW answers \in BOOLEAN, Start(r, k, answers) PROVE TypeInv'
  <2>1. Promised(Home[r], answers) \in 0..MaxWrites
    BY <1>0 DEF Promised, Larger, TypeOK
  <2>2. <<0, local[Home[r]]>> \in Epochs
    BY <1>0, CacheAssumption DEF Epochs, TypeOK
  <2> QED BY <1>1, <1>0, <2>1, <2>2, CacheAssumption DEF Start, writerVars, TypeOK, Counted
<1>2. ASSUME ReadRemote(r) PROVE TypeInv'
  <2>1. <<IF pc[r] = "local" THEN remote ELSE 0, epoch[r][2]>> \in Epochs
    BY <1>0, CacheAssumption DEF Epochs, TypeOK
  <2> QED BY <1>2, <1>0, <2>1 DEF ReadRemote, writerVars, readerVars, TypeOK, Counted
<1>3. ASSUME Hit(r) PROVE TypeInv'
  BY <1>3, <1>0, CacheAssumption DEF Hit, Return, Forget, writerVars, TypeOK, Counted
<1>4. ASSUME ServeStale(r) PROVE TypeInv'
  <2> DEFINE bg == <<Home[r], key[r]>>
  <2>1. bg \in Loaders
    BY <1>0, BackgroundType
  <2>4. UNCHANGED <<writerVars, remote, ttl, local, entries, key, joined, value>>
    BY <1>4 DEF ServeStale
  <2>5. UNCHANGED <<version, quiet, writing, wrote, told, published, remote, ttl, local,
                    entries, key, joined, value>>
        /\ pc' \in [Readers -> {"idle", "local", "cutoff", "epoch", "waiting", "loading"}]
        /\ floor' \in [Readers -> 0..MaxWrites]
    BY <1>4, <2>4, CacheAssumption DEF ServeStale, Return, writerVars, TypeOK
  <2>2. CASE Idle(r)
    <3>1. /\ epoch' = [epoch EXCEPT ![bg] = epoch[r], ![r] = <<0, 0>>]
          /\ age' = [age EXCEPT ![bg] = age[r], ![r] = 0]
          /\ inflight' = [inflight EXCEPT ![Home[r]][key[r]] = bg]
          /\ stage' = [stage EXCEPT ![bg] = "sent"]
      BY <1>4, <2>2 DEF ServeStale
    <3> HIDE DEF bg
    <3>2. epoch' \in [Loaders -> Epochs] /\ age' \in [Loaders -> 0..(LoadLimit + 1)]
      <4>1. epoch \in [Loaders -> Epochs] /\ age \in [Loaders -> 0..(LoadLimit + 1)] /\ 0 \in 0..(LoadLimit + 1)
        BY CacheAssumption DEF TypeOK
      <4>2. epoch' \in [Loaders -> Epochs]
        BY <1>0, <2>1, <3>1, <4>1
      <4>3. age' \in [Loaders -> 0..(LoadLimit + 1)]
        BY <1>0, <2>1, <3>1, <4>1
      <4> QED BY <4>2, <4>3
    <3>3. /\ inflight' \in [Procs -> [Keys -> Loaders \cup {None}]]
          /\ stage' \in [Loaders -> {"off", "sent", "read"}]
      BY <1>0, <2>1, <3>1 DEF TypeOK
    <3> QED BY <2>5, <3>2, <3>3 DEF TypeOK, Counted
  <2>3. CASE ~Idle(r)
    <3>1. Forget(r) /\ UNCHANGED <<inflight, stage>>
      BY <1>4, <2>3 DEF ServeStale
    <3>2. epoch' \in [Loaders -> Epochs] /\ age' \in [Loaders -> 0..(LoadLimit + 1)]
      BY <1>0, <3>1, CacheAssumption DEF Forget, TypeOK
    <3> QED BY <2>5, <3>1, <3>2 DEF TypeOK, Counted
  <2> QED BY <2>2, <2>3
<1>5. ASSUME DropOutdated(r) PROVE entries' \in [Procs -> [Keys -> Record]]
  BY <1>5, <1>0, EmptyType DEF DropOutdated, TypeOK, Record
<1>6. ASSUME NEW refresh \in BOOLEAN, Join(r, refresh) PROVE TypeInv'
  BY <1>6, <1>5, <1>0, CacheAssumption
     DEF Join, Forget, writerVars, readerVars, TypeOK, Counted, Record
<1>7. ASSUME NEW refresh \in BOOLEAN, Own(r, refresh) PROVE TypeInv'
  BY <1>7, <1>5, <1>0 DEF Own, writerVars, readerVars, TypeOK, Counted, Record
<1> QED BY <1>1, <1>2, <1>3, <1>4, <1>6, <1>7 DEF Reader

LEMMA LookupTypes ==
  ASSUME TypeInv, NEW l \in Loaders, Loader(l)
  PROVE  TypeInv'
<1> USE DEF TypeInv
<1>0. ProcOf(l) \in Procs /\ KeyOf(l) \in Keys /\ <<0, 0>> \in Epochs
  BY LoaderType, EmptyType
<1>1. ASSUME Fetch(l) PROVE TypeInv'
  BY <1>1 DEF Fetch, writerVars, readerVars, TypeOK, Counted
<1>2. ASSUME Finish(l) PROVE TypeInv'
  <2>1. entries' \in [Procs -> [Keys -> Record]]
    BY <1>2, <1>0, StoreEntries DEF Finish, TypeOK, Record
  <2>2. /\ epoch' \in [Loaders -> Epochs] /\ age' \in [Loaders -> 0..(LoadLimit + 1)]
        /\ value' \in [Loaders -> 0..MaxWrites] /\ stage' \in [Loaders -> {"off", "sent", "read"}]
        /\ inflight' \in [Procs -> [Keys -> Loaders \cup {None}]]
    BY <1>2, <1>0, CacheAssumption DEF Finish, Forget, TypeOK
  <2>3. /\ pc' \in [Readers -> {"idle", "local", "cutoff", "epoch", "waiting", "loading"}]
        /\ floor' \in [Readers -> 0..MaxWrites] /\ joined' \in [Readers -> Loaders \cup {None}]
    BY <1>2, CacheAssumption DEF Finish, Resolve, TypeOK
  <2> QED BY <1>2, <2>1, <2>2, <2>3 DEF Finish, writerVars, TypeOK, Counted, Record
<1>3. ASSUME Fail(l) PROVE TypeInv'
  BY <1>3, <1>0, CacheAssumption DEF Fail, Forget, Resolve, writerVars, TypeOK, Counted
<1> QED BY <1>1, <1>2, <1>3 DEF Loader

\* What a tick does to the entries.
LEMMA TickEntries ==
  ASSUME TypeOK, Tick
  PROVE  /\ entries' \in [Procs -> [Keys -> Record]]
         /\ \A p \in Procs, k \in Keys :
              \/ entries'[p][k] = Empty
              \/ /\ entries[p][k].held
                 /\ entries'[p][k] = [entries[p][k] EXCEPT !.age = UpTo(@, Stale + 1)]
<1>1. \A p \in Procs, k \in Keys :
        [entries[p][k] EXCEPT !.age = UpTo(entries[p][k].age, Stale + 1)] \in Record
  <2> TAKE p \in Procs, k \in Keys
  <2> DEFINE e == entries[p][k]
  <2>1. e \in Record
    BY DEF TypeOK, Record
  <2>2. UpTo(e.age, Stale + 1) \in 0..(Stale + 1)
    BY <2>1, CacheAssumption DEF Record, UpTo
  <2> HIDE DEF e
  <2>3. [e EXCEPT !.age = UpTo(e.age, Stale + 1)] \in Record
    BY <2>1, <2>2 DEF Record
  <2> QED BY <2>3 DEF e
<1> QED BY <1>1, EmptyType DEF Tick, TypeOK, Record

LEMMA TickTypes == ASSUME TypeInv, Tick PROVE TypeInv'
<1> USE DEF TypeInv
<1>1. entries' \in [Procs -> [Keys -> Record]]
  BY TickEntries
<1>2. age' \in [Loaders -> 0..(LoadLimit + 1)]
  BY CacheAssumption DEF Tick, TypeOK, UpTo
<1>3. remote' \in 0..MaxWrites /\ ttl' \in 0..RemoteTtl
  <2>1. ttl' = (IF ttl = 0 THEN 0 ELSE ttl - 1) /\ remote' = IF ttl <= 1 THEN 0 ELSE remote
    BY DEF Tick
  <2>2. remote \in 0..MaxWrites /\ ttl \in 0..RemoteTtl /\ MaxWrites \in Nat /\ RemoteTtl \in Nat
    BY CacheAssumption DEF TypeOK
  <2> QED BY <2>1, <2>2
<1>4. quiet' \in 0..(Recovery + 1)
  BY CacheAssumption DEF Tick, TypeOK, UpTo, Recovery
<1> QED BY <1>1, <1>2, <1>3, <1>4 DEF Tick, readerVars, TypeOK, Counted, Record

LEMMA TypeStep == TypeInv /\ [Next]_vars => TypeInv'
<1> SUFFICES ASSUME TypeInv, [Next]_vars PROVE TypeInv'
  OBVIOUS
<1>1. CASE UNCHANGED vars
  BY <1>1 DEF vars, writerVars, readerVars, TypeInv, TypeOK, Counted
<1> QED BY <1>1, WriterTypes, GetTypes, LookupTypes, TickTypes DEF Next

\* Every variable keeps its type, the local epoch of a process within the number
\* of writes (swr_cache.py).
THEOREM TypeCorrect == Spec => []TypeOK
<1>1. Spec => []TypeInv
  BY TypeInit, TypeStep, PTL DEF Spec
<1> QED BY <1>1, PTL DEF TypeInv
-----------------------------------------------------------------------------
(* One lookup per key.                                                     *)

\* A lookup that is under way is the one that is registered for its key, and
\* a reader that owns one waits for it.
FlightInv ==
  /\ \A l \in Loaders : stage[l] # "off" => inflight[ProcOf(l)][KeyOf(l)] = l
  /\ \A r \in Readers : stage[r] # "off" => pc[r] = "loading"

\* Whose lookup it is depends on the key of a reader alone.
LEMMA SameKey ==
  ASSUME NEW l, l \in Readers => key'[l] = key[l]
  PROVE  KeyOf(l)' = KeyOf(l)
BY DEF KeyOf

LEMMA FlightInit == Init => FlightInv
BY CacheAssumption DEF Init, FlightInv, Loaders

LEMMA FlightStep == TypeInv /\ FlightInv /\ [Next]_vars => FlightInv'
<1> SUFFICES ASSUME TypeInv, FlightInv, [Next]_vars PROVE FlightInv'
  OBVIOUS
<1> USE DEF TypeInv, FlightInv
<1>0. \A l \in Loaders : ProcOf(l) \in Procs /\ KeyOf(l) \in Keys /\ l # None
  BY LoaderType, CacheAssumption DEF Loaders
<1>1. ASSUME NEW r \in Readers, NEW k \in Keys, NEW answers \in BOOLEAN, Start(r, k, answers)
      PROVE FlightInv'
  <2>1. stage[r] = "off"
    BY <1>1 DEF Start
  <2>2. \A l \in Loaders : l # r => KeyOf(l)' = KeyOf(l)
    BY <1>1 DEF Start, KeyOf, TypeOK
  <2> QED BY <1>1, <2>1, <2>2 DEF Start, TypeOK
<1>2. ASSUME NEW r \in Readers, ServeStale(r) PROVE FlightInv'
  <2> DEFINE bg == <<Home[r], key[r]>>
  <2>1. bg \in Loaders /\ ProcOf(bg) = Home[r] /\ KeyOf(bg) = key[r] /\ bg \notin Readers
    BY BackgroundType, CacheAssumption DEF TypeOK, ProcOf, KeyOf
  <2>2. \A l \in Loaders : KeyOf(l)' = KeyOf(l)
    BY <1>2, SameKey DEF ServeStale
  <2>3. \A l \in Loaders : Idle(r) /\ ProcOf(l) = Home[r] /\ KeyOf(l) = key[r] => stage[l] = "off"
    BY <1>0 DEF Idle
  <2>4. stage[r] = "off" /\ Home[r] \in Procs /\ key[r] \in Keys
    BY <1>2, CacheAssumption DEF ServeStale, TypeOK, Loaders
  <2>5. \A x \in Readers : x # r => pc'[x] = pc[x]
    BY <1>2 DEF ServeStale, Return, TypeOK
  <2>6. CASE Idle(r)
    <3>1. /\ stage' = [stage EXCEPT ![bg] = "sent"]
          /\ inflight' = [inflight EXCEPT ![Home[r]][key[r]] = bg]
      BY <1>2, <2>6 DEF ServeStale
    <3> HIDE DEF bg
    <3>2. ASSUME NEW l \in Loaders, stage'[l] # "off" PROVE inflight'[ProcOf(l)][KeyOf(l)] = l
      BY <1>0, <2>1, <2>3, <2>4, <2>6, <3>1, <3>2 DEF TypeOK
    <3>3. ASSUME NEW x \in Readers, stage'[x] # "off" PROVE pc'[x] = "loading"
      BY <2>1, <2>4, <2>5, <3>1, <3>3 DEF TypeOK, Loaders
    <3> QED BY <2>2, <3>2, <3>3 DEF ProcOf
  <2>7. CASE ~Idle(r)
    BY <1>2, <2>2, <2>4, <2>5, <2>7 DEF ServeStale, ProcOf
  <2> QED BY <2>6, <2>7
<1>3. ASSUME NEW r \in Readers, NEW refresh \in BOOLEAN, Own(r, refresh) PROVE FlightInv'
  <2>1. r \in Loaders /\ ProcOf(r) = Home[r] /\ KeyOf(r) = key[r]
    BY DEF Loaders, ProcOf, KeyOf
  <2>2. \A l \in Loaders : KeyOf(l)' = KeyOf(l)
    BY <1>3, SameKey DEF Own, readerVars
  <2>3. \A l \in Loaders : ProcOf(l) = Home[r] /\ KeyOf(l) = key[r] => stage[l] = "off"
    BY <1>0, <1>3 DEF Own, Idle
  <2> QED BY <1>0, <1>3, <2>1, <2>2, <2>3 DEF Own, TypeOK
<1>4. ASSUME NEW l \in Loaders, Finish(l) \/ Fail(l) PROVE FlightInv'
  <2>1. \A m \in Loaders : KeyOf(m)' = KeyOf(m)
    BY <1>4, SameKey DEF Finish, Fail
  <2>2. stage[l] # "off" /\ stage' = [stage EXCEPT ![l] = "off"]
        /\ inflight' = [inflight EXCEPT ![ProcOf(l)][KeyOf(l)] = None] /\ Resolve(l)
    BY <1>4 DEF Finish, Fail
  <2>3. \A m \in Loaders \ {l} : stage[m] # "off" => ProcOf(m) # ProcOf(l) \/ KeyOf(m) # KeyOf(l)
    BY <2>2
  <2> QED BY <1>0, <2>1, <2>2, <2>3 DEF Resolve, Served, TypeOK
<1>5. ASSUME UNCHANGED <<stage, inflight, key>>,
             \A r \in Readers : pc[r] = "loading" => pc'[r] = "loading"
      PROVE FlightInv'
  BY <1>5, SameKey
<1>6. ASSUME NEW p \in Procs, Writer(p) PROVE FlightInv'
  BY <1>6, <1>5 DEF Writer, Write, BumpLocal, BumpRemote, readerVars
<1>7. ASSUME NEW r \in Readers, ReadRemote(r) \/ Hit(r) PROVE FlightInv'
  BY <1>7, <1>5 DEF ReadRemote, Hit, Return, readerVars, TypeOK
<1>8. ASSUME NEW r \in Readers, NEW refresh \in BOOLEAN, Join(r, refresh) PROVE FlightInv'
  BY <1>8, <1>5 DEF Join, Missed, readerVars, TypeOK
<1>9. ASSUME NEW l \in Loaders, Fetch(l) PROVE FlightInv'
  <2>1. \A m \in Loaders : KeyOf(m)' = KeyOf(m)
    BY <1>9, SameKey DEF Fetch, readerVars
  <2> QED BY <1>9, <2>1 DEF Fetch, TypeOK
<1>10. ASSUME Tick PROVE FlightInv'
  BY <1>10, <1>5 DEF Tick, readerVars
<1>11. CASE UNCHANGED vars
  BY <1>11, <1>5 DEF vars, readerVars
<1> QED BY <1>1, <1>2, <1>3, <1>4, <1>6, <1>7, <1>8, <1>9, <1>10, <1>11
        DEF Next, Reader, Loader

\* Two lookups of one key never run at the same time in one process: get joins
\* the one in _inflight (swr_cache.py).
THEOREM OneLookupPerKey == Spec => []SingleFlight
<1>1. TypeInv /\ FlightInv => SingleFlight
  BY DEF FlightInv, SingleFlight
<1> QED BY <1>1, TypeInit, TypeStep, FlightInit, FlightStep, PTL DEF Spec

-----------------------------------------------------------------------------
(* Entries.                                                                *)

\* An entry goes, or stays what it is.
Stays(p, k) ==
  entries'[p][k].held =>
    /\ entries[p][k].held
    /\ entries'[p][k].value = entries[p][k].value
    /\ entries'[p][k].epoch = entries[p][k].epoch
    /\ entries'[p][k].took = entries[p][k].took
    /\ entries[p][k].age <= entries'[p][k].age

\* Only the end of a lookup makes an entry.
LEMMA EntriesStay ==
  ASSUME TypeInv, [Next]_vars, \A l \in Loaders : ~Finish(l)
  PROVE  \A p \in Procs, k \in Keys : Stays(p, k)
<1> SUFFICES ASSUME NEW p \in Procs, NEW k \in Keys PROVE Stays(p, k)
  OBVIOUS
<1> USE DEF TypeInv
<1>0. entries[p][k] \in Record /\ Empty.held = FALSE
  BY DEF TypeOK, Record, Empty
<1>1. ASSUME entries'[p][k] \in {entries[p][k], Empty} PROVE Stays(p, k)
  BY <1>0, <1>1, CacheAssumption DEF Stays, Record
<1>2. ASSUME UNCHANGED entries PROVE Stays(p, k)
  BY <1>1, <1>2
<1>3. ASSUME NEW q \in Procs, Writer(q) PROVE Stays(p, k)
  <2>1. CASE UNCHANGED entries
    BY <1>2, <2>1
  <2>2. CASE BumpLocal(q)
    <3>1. entries' = [entries EXCEPT ![q] = [j \in Keys |-> Empty]]
      BY <2>2 DEF BumpLocal
    <3>2. entries'[p][k] \in {entries[p][k], Empty}
      BY <3>1 DEF TypeOK
    <3> QED BY <1>1, <3>2
  <2> QED BY <1>3, <2>1, <2>2 DEF Writer, Write, BumpRemote
<1>4. ASSUME NEW r \in Readers, Reader(r) \/ \E j \in Keys, a \in BOOLEAN : Start(r, j, a)
      PROVE Stays(p, k)
  <2>1. ASSUME DropOutdated(r) PROVE Stays(p, k)
    BY <1>1, <2>1 DEF DropOutdated, TypeOK
  <2> QED BY <1>2, <1>4, <2>1 DEF Reader, ReadRemote, Hit, ServeStale, Join, Own, Start
<1>5. ASSUME NEW l \in Loaders, Fetch(l) \/ Fail(l) PROVE Stays(p, k)
  BY <1>2, <1>5 DEF Fetch, Fail
<1>6. ASSUME Tick PROVE Stays(p, k)
  <2> DEFINE e == entries[p][k]
  <2>1. e \in Record /\ entries'[p][k] \in Record
    BY <1>6, TickEntries, <1>0
  <2>2. CASE entries'[p][k] = Empty
    BY <1>1, <2>2
  <2>3. CASE e.held /\ entries'[p][k] = [e EXCEPT !.age = UpTo(@, Stale + 1)]
    <3>1. e.age <= UpTo(e.age, Stale + 1)
      BY <2>1, CacheAssumption DEF Record, UpTo
    <3> HIDE DEF e
    <3>2. /\ entries'[p][k].value = e.value /\ entries'[p][k].epoch = e.epoch
          /\ entries'[p][k].took = e.took /\ entries'[p][k].age = UpTo(e.age, Stale + 1)
      BY <2>1, <2>3 DEF Record
    <3> QED BY <2>3, <3>1, <3>2 DEF Stays, e
  <2> QED BY <1>6, <2>2, <2>3, TickEntries
<1>7. CASE UNCHANGED vars
  BY <1>2, <1>7 DEF vars
<1> QED BY <1>3, <1>4, <1>5, <1>6, <1>7 DEF Next, Loader

Held(p) == {k \in Keys : entries[p][k].held}

LEMMA BoundedInit == Init => CacheIsBounded
<1> SUFFICES ASSUME Init, NEW p \in Procs PROVE Cardinality({k \in Keys : entries[p][k].held}) <= MaxEntries
  BY DEF CacheIsBounded
<1> DEFINE S == {k \in Keys : entries[p][k].held}
<1>1. S = {}
  BY DEF Init, Empty
<1> HIDE DEF S
<1>2. Cardinality(S) = 0
  BY <1>1, FS_EmptySet
<1> QED BY <1>2, CacheAssumption DEF S

\* What stays and the new entry fit, since an old one goes if there is no room.
LEMMA StoreFits ==
  ASSUME TypeInv, CacheIsBounded, NEW l \in Loaders, NEW p \in Procs, NEW k \in Keys,
         Store(l, p, k)
  PROVE  Cardinality(Held(p)') <= MaxEntries
<1> DEFINE kept == {j \in Keys : entries[p][j].held /\ entries[p][j].age <= Stale}
<1> USE DEF TypeInv
<1>1. PICK out \in Victims(p, k) :
        entries' = [entries EXCEPT ![p] = [j \in Keys |->
          IF j = k THEN Answer(l)
          ELSE IF j \in out \/ entries[p][j].age > Stale THEN Empty ELSE entries[p][j]]]
  BY DEF Store, TypeOK
<1>2. \A j \in Keys : entries[p][j] \in Record
  BY DEF TypeOK, Record
<1>3. Held(p)' \subseteq (kept \ out) \cup {k}
  BY <1>1, <1>2, CacheAssumption DEF Held, Empty, TypeOK, Record
<1>4. kept \subseteq Held(p) /\ Held(p) \subseteq Keys /\ IsFiniteSet(Keys)
  BY CacheAssumption DEF Held
<1>5. IsFiniteSet(kept) /\ IsFiniteSet(Held(p)) /\ Cardinality(kept) <= Cardinality(Held(p))
  BY <1>4, FS_Subset
<1>6. Cardinality(Held(p)) <= MaxEntries
  BY DEF CacheIsBounded, Held
<1>7. Cardinality(kept) \in Nat /\ Cardinality(Held(p)) \in Nat /\ MaxEntries \in Nat
  BY <1>5, FS_CardinalityType, CacheAssumption
<1>11. k \notin kept /\ ~(Cardinality(kept) < MaxEntries) => \E j \in kept : out = {j}
  <2>1. out \in IF k \in kept \/ Cardinality(kept) < MaxEntries THEN {{}}
               ELSE {{j} : j \in {i \in kept : \A h \in kept : entries[p][h].age <= entries[p][i].age}}
    BY <1>1, Zenon DEF Victims
  <2> HIDE DEF kept
  <2> QED BY <2>1
<1> HIDE DEF kept
<1>8. CASE k \in kept
  <2>1. Held(p)' \subseteq kept
    BY <1>3, <1>8
  <2>2. Cardinality(Held(p)') <= Cardinality(kept) /\ Cardinality(Held(p)') \in Nat
    BY <1>5, <2>1, FS_Subset, FS_CardinalityType
  <2> QED BY <1>5, <1>6, <1>7, <2>2
<1>9. CASE k \notin kept /\ Cardinality(kept) < MaxEntries
  <2>1. /\ IsFiniteSet(kept \cup {k})
        /\ Cardinality(kept \cup {k}) <= Cardinality(kept) + 1
    BY <1>5, <1>7, FS_AddElement
  <2>2. Held(p)' \subseteq kept \cup {k}
    BY <1>3
  <2>3. Cardinality(Held(p)') <= Cardinality(kept \cup {k}) /\ Cardinality(Held(p)') \in Nat
        /\ Cardinality(kept \cup {k}) \in Nat
    BY <2>1, <2>2, FS_Subset, FS_CardinalityType
  <2> QED BY <1>7, <1>9, <2>1, <2>3
<1>10. CASE k \notin kept /\ ~(Cardinality(kept) < MaxEntries)
  <2>1. PICK j \in kept : out = {j}
    BY <1>10, <1>11
  <2>2. IsFiniteSet(kept \ {j}) /\ Cardinality(kept \ {j}) = Cardinality(kept) - 1
    BY <1>5, <2>1, FS_RemoveElement
  <2>3. /\ IsFiniteSet((kept \ {j}) \cup {k})
        /\ Cardinality((kept \ {j}) \cup {k}) = Cardinality(kept \ {j}) + 1
    BY <1>10, <2>2, FS_AddElement
  <2>4. Cardinality(Held(p)') <= Cardinality((kept \ {j}) \cup {k})
    BY <1>3, <2>1, <2>3, FS_Subset
  <2>5. Cardinality(Held(p)') \in Nat
    BY <1>3, <2>1, <2>3, FS_Subset, FS_CardinalityType
  <2> QED BY <1>5, <1>6, <1>7, <2>2, <2>3, <2>4, <2>5
<1> QED BY <1>8, <1>9, <1>10

LEMMA BoundedStep == TypeInv /\ CacheIsBounded /\ [Next]_vars => CacheIsBounded'
<1> SUFFICES ASSUME TypeInv, CacheIsBounded, [Next]_vars, NEW p \in Procs
             PROVE  Cardinality(Held(p)') <= MaxEntries
  BY DEF CacheIsBounded, Held
<1>1. IsFiniteSet(Held(p)) /\ Cardinality(Held(p)) <= MaxEntries
  BY CacheAssumption, FS_Subset DEF Held, CacheIsBounded
<1>2. ASSUME Held(p)' \subseteq Held(p) PROVE Cardinality(Held(p)') <= MaxEntries
  <2>1. IsFiniteSet(Held(p)') /\ Cardinality(Held(p)') <= Cardinality(Held(p))
    BY <1>1, <1>2, FS_Subset
  <2>2. Cardinality(Held(p)') \in Nat /\ Cardinality(Held(p)) \in Nat
    BY <1>1, <2>1, FS_CardinalityType
  <2> QED BY <1>1, <2>1, <2>2, CacheAssumption
<1>3. CASE \A l \in Loaders : ~Finish(l)
  BY <1>2, <1>3, EntriesStay DEF Stays, Held
<1>4. ASSUME NEW l \in Loaders, Finish(l) PROVE Cardinality(Held(p)') <= MaxEntries
  <2>0. ProcOf(l) \in Procs /\ KeyOf(l) \in Keys
    BY LoaderType DEF TypeInv
  <2>1. CASE UNCHANGED entries
    BY <1>2, <2>1 DEF Held
  <2>2. CASE Store(l, ProcOf(l), KeyOf(l)) /\ ProcOf(l) = p
    BY <2>0, <2>2, StoreFits
  <2>3. CASE Store(l, ProcOf(l), KeyOf(l)) /\ ProcOf(l) # p
    <3>1. \A k \in Keys : entries'[p][k] \in {entries[p][k], Empty}
      BY <2>0, <2>3, StoreEntries DEF TypeInv
    <3> QED BY <1>2, <3>1 DEF Held, Empty
  <2> QED BY <1>4, <2>1, <2>2, <2>3 DEF Finish
<1> QED BY <1>3, <1>4

\* Purges and evictions of _store keep the dictionary within max_entries.
THEOREM CacheStaysBounded == Spec => []CacheIsBounded
BY TypeInit, TypeStep, BoundedInit, BoundedStep, PTL DEF Spec

-----------------------------------------------------------------------------
(* What a lookup reads and an entry holds, against the writes.             *)

\* A version that is older than the cluster's was read before the last write,
\* which is not longer ago than the lookup took and the entry is old.
RecentInv ==
  /\ \A l \in Loaders :
       stage[l] = "read" =>
         value[l] <= version /\ (value[l] < version /\ age[l] <= LoadLimit => quiet <= age[l])
  /\ \A p \in Procs, k \in Keys :
       entries[p][k].held =>
         /\ entries[p][k].value <= version
         /\ entries[p][k].value < version /\ entries[p][k].age <= Stale
            /\ entries[p][k].took <= LoadLimit =>
              quiet <= entries[p][k].age + entries[p][k].took

\* The last write of p that has moved its local epoch.
Bumped(p) == IF writing[p] = "bumped" THEN wrote[p] ELSE told[p]

\* A value read under the local epoch of now contains the writes that moved it.
LocalInv ==
  /\ \A p \in Procs : told[p] <= wrote[p]
  /\ \A l \in Loaders :
       /\ epoch[l][2] <= local[ProcOf(l)]
       /\ stage[l] = "read" /\ Unchanged(l) => Bumped(ProcOf(l)) <= value[l]
  /\ \A p \in Procs, k \in Keys :
       entries[p][k].held =>
         entries[p][k].epoch[2] = local[p] /\ Bumped(p) <= entries[p][k].value

\* The epoch that a write will publish is in no process yet.
NewInv ==
  /\ remote <= version /\ published <= version
  /\ \A l \in Loaders : epoch[l][1] <= version
  /\ \A p \in Procs, k \in Keys : entries[p][k].held => entries[p][k].epoch[1] <= version
  /\ \A p \in Procs :
       writing[p] # "no" =>
         /\ 1 <= wrote[p] /\ wrote[p] # remote
         /\ \A q \in Procs : q # p /\ writing[q] # "no" => wrote[q] # wrote[p]
         /\ \A l \in Loaders : epoch[l][1] # wrote[p]
         /\ \A q \in Procs, k \in Keys : entries[q][k].held => entries[q][k].epoch[1] # wrote[p]

\* A value read under the epoch that is in Redis contains the writes published so
\* far.  One that does not is gone before the epoch in Redis can expire, if its
\* lookup ends in time.
RemoteInv ==
  /\ remote = 0 <=> ttl = 0
  /\ \A l \in Loaders :
       stage[l] = "read" /\ value[l] < published /\ age[l] <= LoadLimit =>
         /\ RemoteTtl <= ttl + age[l]
         /\ epoch[l][1] # remote
  /\ \A p \in Procs, k \in Keys :
       entries[p][k].held /\ entries[p][k].value < published /\ entries[p][k].age <= Stale
       /\ entries[p][k].took <= LoadLimit =>
         /\ Stale < ttl + entries[p][k].age
         /\ entries[p][k].epoch[1] # remote

\* What a get may find under the epoch it has read contains what it was promised.
FloorInv ==
  /\ \A r \in Readers :
       /\ floor[r] <= version
       /\ stage[r] = "read" => floor[r] <= value[r]
       /\ pc[r] = "cutoff" => floor[r] <= told[Home[r]]
       /\ pc[r] = "local" => floor[r] <= told[Home[r]] \/ floor[r] <= published
  /\ \A r \in Readers : pc[r] = "epoch" =>
       /\ \A l \in Loaders :
            stage[l] = "read" /\ ProcOf(l) = Home[r] /\ Unchanged(l) /\ epoch[l] = epoch[r]
            /\ age[l] <= LoadLimit =>
              floor[r] <= value[l]
       /\ \A k \in Keys :
            LET e == entries[Home[r]][k] IN
            e.held /\ e.age <= Stale /\ e.took <= LoadLimit /\ e.epoch = epoch[r] =>
              floor[r] <= e.value

\* A value that has been read stays, or has just been read.
Reads(l) ==
  stage'[l] = "read" =>
    /\ stage[l] = "read" /\ value'[l] = value[l] /\ epoch'[l] = epoch[l]
    /\ age'[l] \in {age[l], age[l] + 1}

LEMMA LookupsStay ==
  ASSUME TypeInv, FlightInv, [Next]_vars, NEW l \in Loaders
  PROVE  Reads(l) \/ Fetch(l)
<1> SUFFICES ASSUME ~Fetch(l), stage'[l] = "read" PROVE Reads(l)
  BY DEF Reads
<1> USE DEF TypeInv
<1>0. age[l] \in Nat /\ \A r \in Readers : r \in Loaders /\ (stage[r] = "read" => pc[r] = "loading")
  BY CacheAssumption DEF FlightInv, TypeOK, Loaders
<1>1. ASSUME UNCHANGED <<stage, value, epoch, age>> PROVE Reads(l)
  BY <1>0, <1>1 DEF Reads
<1>2. ASSUME NEW p \in Procs, Writer(p) PROVE Reads(l)
  BY <1>1, <1>2 DEF Writer, Write, BumpLocal, BumpRemote
<1>3. ASSUME NEW r \in Readers, stage[r] # "read", r = l => stage'[r] # "read",
             UNCHANGED value, l # r => stage'[l] \in {stage[l], "sent"},
             l # r /\ stage'[l] = stage[l] => epoch'[l] = epoch[l] /\ age'[l] = age[l]
      PROVE Reads(l)
  BY <1>0, <1>3 DEF Reads
<1>4. ASSUME NEW r \in Readers, NEW k \in Keys, NEW a \in BOOLEAN, Start(r, k, a) PROVE Reads(l)
  <2>1. stage[r] # "read"
    BY <1>0, <1>4 DEF Start
  <2> QED BY <1>3, <1>4, <2>1 DEF Start, TypeOK
<1>5. ASSUME NEW r \in Readers, ReadRemote(r) \/ Hit(r) PROVE Reads(l)
  <2>1. stage[r] # "read"
    BY <1>0, <1>5 DEF ReadRemote, Hit
  <2> QED BY <1>0, <1>3, <1>5, <2>1 DEF ReadRemote, Hit, Forget, TypeOK
<1>6. ASSUME NEW r \in Readers, ServeStale(r) PROVE Reads(l)
  <2> DEFINE bg == <<Home[r], key[r]>>
  <2>1. stage[r] # "read" /\ UNCHANGED value
    BY <1>0, <1>6 DEF ServeStale
  <2>2. bg \in Loaders /\ bg \notin Readers
    BY BackgroundType, CacheAssumption DEF TypeOK
  <2>3. CASE Idle(r)
    <3>1. /\ epoch' = [epoch EXCEPT ![bg] = epoch[r], ![r] = <<0, 0>>]
          /\ age' = [age EXCEPT ![bg] = age[r], ![r] = 0]
          /\ stage' = [stage EXCEPT ![bg] = "sent"]
      BY <1>6, <2>3 DEF ServeStale
    <3> HIDE DEF bg
    <3>2. l # bg /\ l # r /\ stage'[l] = stage[l]
      BY <2>1, <2>2, <3>1 DEF TypeOK
    <3> QED BY <1>0, <2>1, <2>2, <3>1, <3>2 DEF Reads, TypeOK
  <2>4. CASE ~Idle(r)
    <3>1. Forget(r) /\ UNCHANGED stage
      BY <1>6, <2>4 DEF ServeStale
    <3> QED BY <1>0, <1>3, <2>1, <3>1 DEF Forget, TypeOK
  <2> QED BY <2>3, <2>4
<1>7. ASSUME NEW r \in Readers, NEW refresh \in BOOLEAN, Join(r, refresh) PROVE Reads(l)
  <2>1. stage[r] # "read"
    BY <1>0, <1>7 DEF Join, Missed
  <2> QED BY <1>0, <1>3, <1>7, <2>1 DEF Join, Forget, TypeOK
<1>8. ASSUME NEW r \in Readers, NEW refresh \in BOOLEAN, Own(r, refresh) PROVE Reads(l)
  <2>1. stage[r] # "read"
    BY <1>0, <1>8 DEF Own, Missed
  <2> QED BY <1>0, <1>3, <1>8, <2>1 DEF Own, TypeOK
<1>9. ASSUME NEW m \in Loaders, Fetch(m) \/ Finish(m) \/ Fail(m) PROVE Reads(l)
  BY <1>0, <1>9 DEF Fetch, Finish, Fail, Forget, Reads, TypeOK
<1>10. ASSUME Tick PROVE Reads(l)
  BY <1>0, <1>10, CacheAssumption DEF Tick, UpTo, Reads, TypeOK
<1>11. CASE UNCHANGED vars
  BY <1>1, <1>11 DEF vars
<1> QED BY <1>2, <1>4, <1>5, <1>6, <1>7, <1>8, <1>9, <1>10, <1>11 DEF Next, Reader, Loader

\* The entry comes from the lookup of l, which ends.
ComesFrom(p, k, l) ==
  /\ stage[l] = "read" /\ ProcOf(l) = p /\ Unchanged(l)
  /\ entries'[p][k] = Answer(l)
  /\ UNCHANGED <<writerVars, remote, ttl, local>>

LEMMA EntryOrigin ==
  ASSUME TypeInv, [Next]_vars, NEW p \in Procs, NEW k \in Keys
  PROVE  Stays(p, k) \/ \E l \in Loaders : ComesFrom(p, k, l)
<1>1. CASE \A l \in Loaders : ~Finish(l)
  BY <1>1, EntriesStay
<1>2. ASSUME NEW l \in Loaders, Finish(l) PROVE Stays(p, k) \/ ComesFrom(p, k, l)
  <2>0. ProcOf(l) \in Procs /\ KeyOf(l) \in Keys /\ entries[p][k] \in Record
    BY LoaderType DEF TypeInv, TypeOK, Record
  <2>1. ASSUME entries'[p][k] \in {entries[p][k], Empty} PROVE Stays(p, k)
    BY <2>0, <2>1, CacheAssumption DEF Stays, Empty, Record
  <2>2. CASE ~Unchanged(l)
    BY <1>2, <2>1, <2>2 DEF Finish
  <2>3. CASE Unchanged(l)
    <3>1. Store(l, ProcOf(l), KeyOf(l)) /\ stage[l] = "read" /\ UNCHANGED <<writerVars, remote, ttl, local>>
      BY <1>2, <2>3 DEF Finish
    <3>2. CASE p # ProcOf(l) \/ k # KeyOf(l)
      BY <2>0, <2>1, <3>1, <3>2, StoreEntries DEF TypeInv
    <3>3. CASE p = ProcOf(l) /\ k = KeyOf(l)
      BY <2>0, <2>3, <3>1, <3>3, StoreEntries DEF TypeInv, ComesFrom
    <3> QED BY <3>2, <3>3
  <2> QED BY <2>2, <2>3
<1> QED BY <1>1, <1>2

\* Who changes what the processes share.
LEMMA Frames ==
  ASSUME [Next]_vars
  PROVE  \/ \E p \in Procs : Write(p) \/ BumpLocal(p) \/ BumpRemote(p)
         \/ Tick
         \/ UNCHANGED <<version, quiet, writing, wrote, told, published, remote, ttl, local>>
<1>1. ASSUME NEW r \in Readers, Reader(r) PROVE UNCHANGED <<writerVars, remote, ttl, local>>
  BY <1>1 DEF Reader, ReadRemote, Hit, ServeStale, Join, Own
<1>2. ASSUME NEW l \in Loaders, Loader(l) PROVE UNCHANGED <<writerVars, remote, ttl, local>>
  BY <1>2 DEF Loader, Fetch, Finish, Fail
<1>3. ASSUME NEW r \in Readers, NEW k \in Keys, NEW a \in BOOLEAN, Start(r, k, a)
      PROVE UNCHANGED <<writerVars, remote, ttl, local>>
  BY <1>3 DEF Start
<1> QED BY <1>1, <1>2, <1>3 DEF Next, Writer, vars, writerVars

\* A tick makes what can still be served older by one.
LEMMA TickAges ==
  ASSUME TypeInv, Tick
  PROVE  /\ \A p \in Procs, k \in Keys :
              entries'[p][k].held /\ entries'[p][k].age <= Stale =>
                entries'[p][k].age = entries[p][k].age + 1 /\ entries[p][k].age <= Stale
         /\ \A l \in Loaders :
              stage'[l] = "read" /\ age'[l] <= LoadLimit => age'[l] = age[l] + 1
         /\ quiet' \in {quiet, quiet + 1}
         /\ IF ttl = 0 THEN ttl' = 0 ELSE ttl' = ttl - 1
         /\ UNCHANGED <<version, writing, wrote, told, published, local, stage, value, epoch>>
<1> USE DEF TypeInv
<1>1. ASSUME NEW p \in Procs, NEW k \in Keys, entries'[p][k].held, entries'[p][k].age <= Stale
      PROVE  entries'[p][k].age = entries[p][k].age + 1 /\ entries[p][k].age <= Stale
  <2> DEFINE e == entries[p][k]
  <2>1. e \in Record
    BY DEF TypeOK, Record
  <2>2. entries'[p][k] = [e EXCEPT !.age = UpTo(@, Stale + 1)]
    BY <1>1, TickEntries DEF Empty
  <2> HIDE DEF e
  <2>3. entries'[p][k].age = UpTo(e.age, Stale + 1)
    BY <2>1, <2>2 DEF Record
  <2> QED BY <1>1, <2>1, <2>3, CacheAssumption DEF Record, UpTo, e
<1>2. \A l \in Loaders : stage'[l] = "read" /\ age'[l] <= LoadLimit => age'[l] = age[l] + 1
  BY CacheAssumption DEF Tick, Busy, UpTo, TypeOK
<1>3. quiet' \in {quiet, quiet + 1}
  BY CacheAssumption DEF Tick, UpTo, Recovery, TypeOK
<1>4. IF ttl = 0 THEN ttl' = 0 ELSE ttl' = ttl - 1
  BY DEF Tick
<1> QED BY <1>1, <1>2, <1>3, <1>4 DEF Tick

LEMMA RecentStep == TypeInv /\ FlightInv /\ RecentInv /\ [Next]_vars => RecentInv'
<1> SUFFICES ASSUME TypeInv, FlightInv, RecentInv, [Next]_vars PROVE RecentInv'
  OBVIOUS
<1> USE DEF TypeInv
<1>0. TypeInv'
  BY TypeStep
<1>1. version' >= version /\ (version' = version \/ quiet' = 0) /\ version \in Nat /\ version' \in Nat
  BY <1>0, Frames DEF Write, BumpLocal, BumpRemote, Tick, TypeOK
<1>2. quiet' <= quiet \/ quiet' = 0 \/ (Tick /\ quiet' <= quiet + 1)
  BY Frames, TickAges DEF Write, BumpLocal, BumpRemote, TypeOK
<1>3. quiet \in Nat /\ quiet' \in Nat /\ LoadLimit \in Nat /\ Stale \in Nat
  BY <1>0, CacheAssumption DEF TypeOK, Recovery
<1>4. ASSUME NEW l \in Loaders, stage'[l] = "read"
      PROVE  value'[l] <= version'
             /\ (value'[l] < version' /\ age'[l] <= LoadLimit => quiet' <= age'[l])
  <2>1. CASE Fetch(l)
    BY <1>1, <2>1 DEF Fetch, writerVars, TypeOK
  <2>2. CASE Reads(l)
    <3>1. /\ value'[l] = value[l] /\ value[l] <= version
          /\ (value[l] < version /\ age[l] <= LoadLimit => quiet <= age[l])
          /\ age[l] <= age'[l] /\ (Tick /\ age'[l] <= LoadLimit => age'[l] = age[l] + 1)
          /\ age[l] \in Nat /\ age'[l] \in Nat /\ value[l] \in Nat
      BY <1>0, <1>4, <2>2, TickAges, CacheAssumption DEF Reads, RecentInv, TypeOK
    <3> QED BY <1>1, <1>2, <1>3, <3>1
  <2> QED BY <2>1, <2>2, LookupsStay
<1>5. ASSUME NEW p \in Procs, NEW k \in Keys, entries'[p][k].held
      PROVE  /\ entries'[p][k].value <= version'
             /\ entries'[p][k].value < version' /\ entries'[p][k].age <= Stale
                /\ entries'[p][k].took <= LoadLimit =>
                  quiet' <= entries'[p][k].age + entries'[p][k].took
  <2>0. entries[p][k] \in Record /\ entries'[p][k] \in Record
    BY <1>0 DEF TypeOK, Record
  <2>1. CASE Stays(p, k)
    <3>1. /\ entries[p][k].held
          /\ entries'[p][k].value = entries[p][k].value
          /\ entries'[p][k].took = entries[p][k].took
          /\ entries[p][k].age <= entries'[p][k].age
          /\ entries[p][k].value <= version
          /\ entries[p][k].value < version /\ entries[p][k].age <= Stale
             /\ entries[p][k].took <= LoadLimit =>
               quiet <= entries[p][k].age + entries[p][k].took
          /\ entries'[p][k].age <= Stale /\ Tick => entries'[p][k].age = entries[p][k].age + 1
      BY <1>5, <2>1, TickAges DEF Stays, RecentInv
    <3>2. /\ entries[p][k].age \in Nat /\ entries'[p][k].age \in Nat
          /\ entries[p][k].value \in Nat /\ entries[p][k].took \in Nat
      BY <2>0, CacheAssumption DEF Record
    <3> QED BY <1>1, <1>2, <1>3, <3>1, <3>2
  <2>2. ASSUME NEW l \in Loaders, ComesFrom(p, k, l)
        PROVE  /\ entries'[p][k].value <= version'
               /\ entries'[p][k].value < version' /\ entries'[p][k].took <= LoadLimit =>
                    quiet' <= entries'[p][k].age + entries'[p][k].took
    <3>1. /\ entries'[p][k].value = value[l] /\ entries'[p][k].age = 0
          /\ entries'[p][k].took = age[l] /\ UNCHANGED <<version, quiet>>
          /\ value[l] <= version /\ (value[l] < version /\ age[l] <= LoadLimit => quiet <= age[l])
      BY <2>2 DEF ComesFrom, Answer, RecentInv, writerVars
    <3>2. age[l] \in 0..(LoadLimit + 1)
      BY DEF TypeOK
    <3> QED BY <1>3, <3>1, <3>2
  <2> QED BY <2>1, <2>2, EntryOrigin
<1> QED BY <1>4, <1>5 DEF RecentInv

LEMMA RecentInit == Init => RecentInv
BY DEF Init, RecentInv, Empty

\* The steps in which a get returns from an entry, or a lookup ends.
LEMMA Returns ==
  ASSUME TypeInv, FlightInv, [Next]_vars, NEW r \in Readers, FromEntry(r)
  PROVE  Usable(r) /\ entries[Home[r]][key[r]].age <= Stale
<1> USE DEF TypeInv
<1>0. /\ pc[r] = "epoch" /\ pc'[r] = "idle" /\ stage[r] = "off" /\ r \in Loaders
  BY DEF FromEntry, FlightInv, Loaders, TypeOK
<1>1. Hit(r) \/ ServeStale(r)
  <2>1. ASSUME NEW x \in Readers, x # r, Reader(x) PROVE FALSE
    BY <1>0, <2>1 DEF Reader, ReadRemote, Hit, ServeStale, Join, Own, Return, TypeOK
  <2>2. ASSUME NEW x \in Readers, NEW k \in Keys, NEW a \in BOOLEAN, Start(x, k, a) PROVE FALSE
    BY <1>0, <2>2 DEF Start, TypeOK
  <2>3. ASSUME NEW l \in Loaders, Loader(l) PROVE FALSE
    BY <1>0, <2>3 DEF Loader, Fetch, Finish, Fail, Resolve, Served, TypeOK
  <2>4. ~Tick /\ ~UNCHANGED vars /\ \A p \in Procs : ~Writer(p)
    BY <1>0 DEF Tick, vars, Writer, Write, BumpLocal, BumpRemote
  <2>5. ~ReadRemote(r) /\ \A refresh \in BOOLEAN : ~Join(r, refresh) /\ ~Own(r, refresh)
    BY <1>0 DEF ReadRemote, Join, Own, TypeOK
  <2> QED BY <2>1, <2>2, <2>3, <2>4, <2>5 DEF Next, Reader
<1>2. entries[Home[r]][key[r]] \in Record
  BY CacheAssumption DEF TypeOK, Record
<1> QED BY <1>1, <1>2, CacheAssumption DEF Hit, ServeStale, Record

\* Whatever happens to bumps on their way, a get sees a write once the time an
\* entry can live and its lookup took has passed (swr_cache.py, k8s_list_cache.py).
THEOREM LostBumpsHeal == Spec => RecoversByTtl
<1> DEFINE Inv == TypeInv /\ FlightInv /\ RecentInv
<1>1. Init => Inv
  BY TypeInit, FlightInit, RecentInit
<1>2. Inv /\ [Next]_vars => Inv'
  BY TypeStep, FlightStep, RecentStep
<1>3. Inv /\ [Next]_vars =>
        [\A r \in Readers :
           /\ FromEntry(r) /\ Entry(r).took <= LoadLimit /\ quiet > Stale + Entry(r).took =>
                Entry(r).value = version
           /\ \A l \in Loaders :
                FromLookup(r, l) /\ age[l] <= LoadLimit /\ quiet > age[l] =>
                  value[l] = version]_vars
  <2> SUFFICES ASSUME Inv, [Next]_vars, NEW r \in Readers
               PROVE  /\ FromEntry(r) /\ Entry(r).took <= LoadLimit
                         /\ quiet > Stale + Entry(r).took => Entry(r).value = version
                      /\ \A l \in Loaders :
                           FromLookup(r, l) /\ age[l] <= LoadLimit /\ quiet > age[l] =>
                             value[l] = version
    OBVIOUS
  <2>1. ASSUME FromEntry(r), Entry(r).took <= LoadLimit, quiet > Stale + Entry(r).took
        PROVE Entry(r).value = version
    <3>1. Home[r] \in Procs /\ key[r] \in Keys /\ Entry(r) \in Record
      BY CacheAssumption DEF TypeInv, TypeOK, Record, Entry
    <3>2. Entry(r).held /\ Entry(r).age <= Stale
      BY <2>1, Returns DEF Usable, Entry
    <3>3. /\ Entry(r).value <= version
          /\ Entry(r).value < version => quiet <= Entry(r).age + Entry(r).took
      BY <2>1, <3>1, <3>2 DEF RecentInv, Entry
    <3>4. /\ Entry(r).value \in Nat /\ version \in Nat /\ quiet \in Nat
          /\ Entry(r).age \in Nat /\ Entry(r).took \in Nat
      BY <3>1, CacheAssumption DEF TypeInv, TypeOK, Record, Recovery
    <3> QED BY <2>1, <3>2, <3>3, <3>4, CacheAssumption
  <2>2. ASSUME NEW l \in Loaders, FromLookup(r, l), age[l] <= LoadLimit, quiet > age[l]
        PROVE value[l] = version
    <3>1. value[l] <= version /\ (value[l] < version => quiet <= age[l])
      BY <2>2 DEF FromLookup, RecentInv
    <3>2. value[l] \in Nat /\ version \in Nat /\ quiet \in Nat /\ age[l] \in Nat
      BY CacheAssumption DEF TypeInv, TypeOK, Recovery
    <3> QED BY <2>2, <3>1, <3>2
  <2> QED BY <2>1, <2>2
<1> QED BY <1>1, <1>2, <1>3, PTL DEF Spec, RecoversByTtl

\* Where the epoch of a loader comes from: nowhere, the process, Redis, or the
\* reader whose lookup the executor does.
EpochFrom(l, r) ==
  \/ epoch'[l] = <<0, 0>>
  \/ l = r /\ epoch'[l] = <<0, local[Home[r]]>>
  \/ l = r /\ epoch'[l] \in {<<0, epoch[r][2]>>, <<remote, epoch[r][2]>>}
  \/ ProcOf(l) = Home[r] /\ epoch'[l] = epoch[r]

LEMMA EpochOrigin ==
  ASSUME TypeInv, [Next]_vars, NEW l \in Loaders
  PROVE  \/ epoch'[l] = epoch[l]
         \/ epoch'[l] = <<0, 0>>
         \/ \E r \in Readers : EpochFrom(l, r) /\ r \in Loaders /\ ProcOf(r) = Home[r]
<1> SUFFICES ASSUME epoch'[l] # epoch[l], epoch'[l] # <<0, 0>>
             PROVE  \E r \in Readers : EpochFrom(l, r)
  BY DEF Loaders, ProcOf
<1> USE DEF TypeInv
<1>1. ASSUME NEW r \in Readers, NEW k \in Keys, NEW a \in BOOLEAN, Start(r, k, a)
      PROVE EpochFrom(l, r)
  BY <1>1 DEF Start, TypeOK, EpochFrom
<1>2. ASSUME NEW r \in Readers, ReadRemote(r) PROVE EpochFrom(l, r)
  BY <1>2 DEF ReadRemote, TypeOK, EpochFrom
<1>3. ASSUME NEW r \in Readers, ServeStale(r) PROVE EpochFrom(l, r)
  <2> DEFINE bg == <<Home[r], key[r]>>
  <2>1. bg \in Loaders /\ ProcOf(bg) = Home[r]
    BY BackgroundType, CacheAssumption DEF TypeOK, ProcOf
  <2>2. CASE Idle(r)
    <3>1. epoch' = [epoch EXCEPT ![bg] = epoch[r], ![r] = <<0, 0>>]
      BY <1>3, <2>2 DEF ServeStale
    <3> HIDE DEF bg
    <3> QED BY <2>1, <3>1 DEF TypeOK, EpochFrom
  <2>3. CASE ~Idle(r)
    <3>1. Forget(r)
      BY <1>3, <2>3 DEF ServeStale
    <3> QED BY <3>1 DEF Forget, TypeOK
  <2> QED BY <2>2, <2>3
<1>4. ASSUME NEW r \in Readers, NEW refresh \in BOOLEAN,
             Hit(r) \/ Join(r, refresh) \/ Own(r, refresh)
      PROVE FALSE
  BY <1>4 DEF Hit, Join, Own, Forget, TypeOK
<1>5. ASSUME NEW m \in Loaders, Loader(m) PROVE FALSE
  BY <1>5 DEF Loader, Fetch, Finish, Fail, Forget, TypeOK
<1>6. ~Tick /\ ~UNCHANGED vars /\ \A p \in Procs : ~Writer(p)
  BY DEF Tick, vars, Writer, Write, BumpLocal, BumpRemote
<1> QED BY <1>1, <1>2, <1>3, <1>4, <1>5, <1>6 DEF Next, Reader

\* Whoever changes what the processes share changes no epoch of a loader.
LEMMA SharedFrames ==
  ASSUME NEW p \in Procs, Write(p) \/ BumpLocal(p) \/ BumpRemote(p)
  PROVE  UNCHANGED <<stage, value, epoch, age, pc, floor, key>>
BY DEF Write, BumpLocal, BumpRemote, readerVars

LEMMA EpochTypes ==
  ASSUME TypeInv
  PROVE  /\ \A l \in Loaders : epoch[l] = <<epoch[l][1], epoch[l][2]>>
                               /\ epoch[l][1] \in Nat /\ epoch[l][2] \in Nat
         /\ \A p \in Procs, k \in Keys :
              LET e == entries[p][k] IN
              /\ e.epoch = <<e.epoch[1], e.epoch[2]>>
              /\ e.epoch[1] \in Nat /\ e.epoch[2] \in Nat /\ e.value \in Nat /\ e.age \in Nat
<1>1. \A e \in Epochs : e = <<e[1], e[2]>> /\ e[1] \in Nat /\ e[2] \in Nat
  BY CacheAssumption DEF Epochs
<1>2. \A p \in Procs, k \in Keys : entries[p][k] \in Record
  BY DEF TypeInv, TypeOK, Record
<1> QED BY <1>1, <1>2, CacheAssumption DEF TypeInv, TypeOK, Record

LEMMA LocalInit == Init => LocalInv
BY LoaderType, TypeInit, CacheAssumption DEF Init, LocalInv, Empty, Bumped, TypeInv, Unchanged

LEMMA LocalStep == TypeInv /\ FlightInv /\ RecentInv /\ LocalInv /\ [Next]_vars => LocalInv'
<1> SUFFICES ASSUME TypeInv, FlightInv, RecentInv, LocalInv, [Next]_vars PROVE LocalInv'
  OBVIOUS
<1>0. TypeInv'
  BY TypeStep
<1>1. \A p \in Procs :
        /\ local[p] \in Nat /\ local'[p] \in Nat /\ told[p] \in Nat /\ told'[p] \in Nat
        /\ wrote[p] \in Nat /\ wrote'[p] \in Nat /\ told[p] <= wrote[p] /\ wrote[p] <= version
        /\ Bumped(p) <= wrote[p] /\ Bumped(p) \in Nat
  BY <1>0, CacheAssumption DEF TypeInv, TypeOK, Counted, LocalInv, Bumped
<1>2. version \in Nat /\ version' \in Nat /\ version <= version'
  BY <1>0, Frames DEF TypeInv, TypeOK, Write, BumpLocal, BumpRemote, Tick
<1>3. \A p \in Procs : told'[p] <= wrote'[p]
  <2> TAKE p \in Procs
  <2>1. ASSUME NEW q \in Procs, Write(q) PROVE told'[p] <= wrote'[p]
    <3>1. told'[p] = told[p] /\ wrote'[p] \in {wrote[p], version + 1}
      BY <2>1 DEF Write, TypeInv, TypeOK
    <3> QED BY <1>1, <1>2, <3>1
  <2>2. ASSUME NEW q \in Procs, BumpRemote(q) PROVE told'[p] <= wrote'[p]
    <3>1. wrote'[p] = wrote[p] /\ told'[p] \in {told[p], wrote[p]}
      BY <2>2 DEF BumpRemote, TypeInv, TypeOK
    <3> QED BY <1>1, <3>1
  <2>3. CASE UNCHANGED <<told, wrote>>
    BY <1>1, <2>3
  <2> QED BY <2>1, <2>2, <2>3, Frames DEF BumpLocal, Tick
\* As long as the local epoch of a process stays, so does the write that moved it.
<1>4. ASSUME NEW p \in Procs
      PROVE \/ local'[p] = local[p] /\ Bumped(p)' = Bumped(p)
            \/ BumpLocal(p) /\ local'[p] = local[p] + 1
  <2>1. ASSUME NEW q \in Procs, Write(q) PROVE local'[p] = local[p] /\ Bumped(p)' = Bumped(p)
    BY <2>1 DEF Write, Bumped, TypeInv, TypeOK
  <2>2. ASSUME NEW q \in Procs, BumpRemote(q) PROVE local'[p] = local[p] /\ Bumped(p)' = Bumped(p)
    BY <2>2 DEF BumpRemote, Bumped, TypeInv, TypeOK
  <2>3. ASSUME NEW q \in Procs, BumpLocal(q)
        PROVE \/ local'[p] = local[p] /\ Bumped(p)' = Bumped(p)
              \/ BumpLocal(p) /\ local'[p] = local[p] + 1
    BY <2>3 DEF BumpLocal, Bumped, TypeInv, TypeOK
  <2> QED BY <2>1, <2>2, <2>3, Frames DEF Tick, Bumped
<1>5. \A p \in Procs : local[p] <= local'[p]
  BY <1>1, <1>4
<1>6. ASSUME NEW l \in Loaders PROVE epoch'[l][2] <= local'[ProcOf(l)]
  <2>0. ProcOf(l) \in Procs /\ epoch'[l][2] \in Nat
    BY <1>0, LoaderType, CacheAssumption DEF TypeInv, TypeOK, Epochs
  <2>1. ASSUME epoch'[l][2] <= local[ProcOf(l)] PROVE epoch'[l][2] <= local'[ProcOf(l)]
    BY <1>1, <1>5, <2>0, <2>1
  <2>2. epoch[l][2] <= local[ProcOf(l)]
    BY DEF LocalInv
  <2>3. ASSUME NEW r \in Readers, EpochFrom(l, r), r \in Loaders, ProcOf(r) = Home[r]
        PROVE epoch'[l][2] <= local[ProcOf(l)]
    BY <1>1, <2>0, <2>3, EpochTypes DEF EpochFrom, LocalInv
  <2>4. CASE epoch'[l] = <<0, 0>>
    BY <1>1, <2>0, <2>4
  <2>5. CASE epoch'[l] = epoch[l]
    BY <2>1, <2>2, <2>5
  <2> QED BY <2>1, <2>3, <2>4, <2>5, EpochOrigin, <1>1, <2>0
<1>7. ASSUME NEW l \in Loaders, stage'[l] = "read", Unchanged(l)'
      PROVE Bumped(ProcOf(l))' <= value'[l]
  <2>0. ProcOf(l) \in Procs /\ ProcOf(l)' = ProcOf(l)
    BY LoaderType DEF TypeInv, ProcOf
  <2>1. CASE Fetch(l)
    <3>1. value'[l] = version /\ UNCHANGED <<local, writing, wrote, told>>
      BY <2>1 DEF Fetch, writerVars, TypeInv, TypeOK
    <3> QED BY <1>1, <1>2, <2>0, <3>1 DEF Bumped
  <2>2. CASE Reads(l)
    <3>1. stage[l] = "read" /\ value'[l] = value[l] /\ epoch'[l][2] = epoch[l][2]
      BY <1>7, <2>2 DEF Reads
    <3>2. epoch[l][2] <= local[ProcOf(l)] /\ epoch[l][2] = local'[ProcOf(l)]
      BY <1>7, <2>0, <3>1 DEF Unchanged, LocalInv
    <3>3. local'[ProcOf(l)] = local[ProcOf(l)] /\ Bumped(ProcOf(l))' = Bumped(ProcOf(l))
      BY <1>1, <1>4, <2>0, <3>2
    <3> QED BY <2>0, <3>1, <3>2, <3>3 DEF LocalInv, Unchanged
  <2> QED BY <2>1, <2>2, LookupsStay
<1>8. ASSUME NEW p \in Procs, NEW k \in Keys, entries'[p][k].held
      PROVE  entries'[p][k].epoch[2] = local'[p] /\ Bumped(p)' <= entries'[p][k].value
  <2>1. CASE BumpLocal(p)
    <3>1. entries'[p][k] = Empty
      BY <2>1 DEF BumpLocal, TypeInv, TypeOK
    <3> QED BY <1>8, <3>1 DEF Empty
  <2>2. CASE ~BumpLocal(p) /\ Stays(p, k)
    BY <1>4, <1>8, <2>2 DEF Stays, LocalInv
  <2>3. ASSUME NEW l \in Loaders, ComesFrom(p, k, l)
        PROVE entries'[p][k].epoch[2] = local'[p] /\ Bumped(p)' <= entries'[p][k].value
    <3>1. UNCHANGED <<local, writing, wrote, told>> /\ epoch[l][2] = local[p]
          /\ entries'[p][k].epoch = epoch[l] /\ entries'[p][k].value = value[l]
      BY <2>3 DEF ComesFrom, Answer, writerVars, Unchanged
    <3>2. Bumped(p) <= value[l]
      BY <2>3 DEF ComesFrom, LocalInv
    <3> QED BY <3>1, <3>2 DEF Bumped
  <2> QED BY <2>1, <2>2, <2>3, EntryOrigin
<1> QED BY <1>3, <1>6, <1>7, <1>8 DEF LocalInv, Unchanged, ProcOf

\* What the processes share only grows, ttl and remote excepted.
LEMMA Grows ==
  ASSUME TypeInv, LocalInv, [Next]_vars
  PROVE  /\ version <= version' /\ published <= published'
         /\ \A p \in Procs : local[p] <= local'[p] /\ told[p] <= told'[p]
<1> USE DEF TypeInv
<1>1. /\ version \in Nat /\ published \in Nat
      /\ \A p \in Procs : local[p] \in Nat /\ told[p] \in Nat /\ wrote[p] \in Nat /\ told[p] <= wrote[p]
  BY CacheAssumption DEF TypeOK, LocalInv
<1>2. ASSUME NEW q \in Procs, Write(q) PROVE UNCHANGED <<published, local, told>> /\ version' = version + 1
  BY <1>2 DEF Write
<1>3. ASSUME NEW q \in Procs, BumpLocal(q)
      PROVE  /\ UNCHANGED <<published, told, version>>
             /\ \A p \in Procs : local'[p] \in {local[p], local[p] + 1}
  BY <1>3 DEF BumpLocal, TypeOK
<1>4. ASSUME NEW q \in Procs, BumpRemote(q)
      PROVE  /\ UNCHANGED <<version, local>> /\ published <= published'
             /\ \A p \in Procs : told'[p] \in {told[p], wrote[p]}
  BY <1>1, <1>4 DEF BumpRemote, TypeOK, Larger
<1> QED BY <1>1, <1>2, <1>3, <1>4, Frames DEF Tick

LEMMA NewInit == Init => NewInv
BY DEF Init, NewInv, Empty

LEMMA NewStep == TypeInv /\ NewInv /\ [Next]_vars => NewInv'
<1> SUFFICES ASSUME TypeInv, NewInv, [Next]_vars PROVE NewInv'
  OBVIOUS
<1>0. TypeInv'
  BY TypeStep
<1>1. /\ version \in Nat /\ version' \in Nat /\ remote \in Nat /\ remote' \in Nat
      /\ published \in Nat /\ published' \in Nat
      /\ \A p \in Procs : wrote[p] \in Nat /\ wrote'[p] \in Nat /\ wrote[p] <= version
  BY <1>0, CacheAssumption DEF TypeInv, TypeOK, Counted
<1>2. version <= version' /\ remote' <= version' /\ published' <= version'
  BY <1>1, Frames DEF NewInv, Write, BumpLocal, BumpRemote, Tick, Larger
\* A pending write was pending, or is newer than all there is.
<1>3. ASSUME NEW p \in Procs, writing'[p] # "no"
      PROVE  \/ writing[p] # "no" /\ wrote'[p] = wrote[p]
             \/ Write(p) /\ wrote'[p] = version + 1
  BY <1>3, Frames DEF Write, BumpLocal, BumpRemote, Tick, TypeInv, TypeOK
<1>4. remote' \in {remote, 0} \/ \E q \in Procs : BumpRemote(q) /\ remote' = wrote[q] /\ writing[q] # "no"
  BY Frames DEF Write, BumpLocal, BumpRemote, Tick
\* An epoch of a loader or an entry was there, or is the one in Redis.
<1>5. ASSUME NEW l \in Loaders
      PROVE epoch'[l][1] \in {0, remote} \cup {epoch[m][1] : m \in Loaders}
  BY EpochOrigin DEF EpochFrom
<1>6. ASSUME NEW p \in Procs, NEW k \in Keys, entries'[p][k].held
      PROVE  \/ entries[p][k].held /\ entries'[p][k].epoch[1] = entries[p][k].epoch[1]
             \/ \E l \in Loaders : entries'[p][k].epoch[1] = epoch[l][1]
  <2>1. ASSUME Stays(p, k) PROVE entries[p][k].held /\ entries'[p][k].epoch[1] = entries[p][k].epoch[1]
    BY <1>6, <2>1 DEF Stays
  <2>2. ASSUME NEW l \in Loaders, ComesFrom(p, k, l) PROVE entries'[p][k].epoch[1] = epoch[l][1]
    BY <2>2 DEF ComesFrom, Answer
  <2> QED BY <2>1, <2>2, EntryOrigin
<1>7. \A l \in Loaders : epoch[l][1] \in Nat
  BY EpochTypes
<1>8. \A p \in Procs, k \in Keys : entries[p][k].epoch[1] \in Nat
  BY EpochTypes
<1>9. ASSUME NEW l \in Loaders PROVE epoch'[l][1] <= version' /\ epoch'[l][1] <= version
  BY <1>1, <1>2, <1>5, <1>7 DEF NewInv
<1>10. ASSUME NEW p \in Procs, NEW k \in Keys, entries'[p][k].held
       PROVE  entries'[p][k].epoch[1] <= version' /\ entries'[p][k].epoch[1] <= version
  BY <1>1, <1>2, <1>6, <1>7, <1>8, <1>10 DEF NewInv
<1>11. ASSUME NEW p \in Procs, writing'[p] # "no"
       PROVE  /\ 1 <= wrote'[p] /\ wrote'[p] # remote'
              /\ \A q \in Procs : q # p /\ writing'[q] # "no" => wrote'[q] # wrote'[p]
              /\ \A l \in Loaders : epoch'[l][1] # wrote'[p]
              /\ \A q \in Procs, k \in Keys : entries'[q][k].held => entries'[q][k].epoch[1] # wrote'[p]
  <2>1. CASE Write(p) /\ wrote'[p] = version + 1
    <3>1. remote' = remote /\ \A q \in Procs : q # p => wrote'[q] = wrote[q]
      BY <2>1 DEF Write, TypeInv, TypeOK
    <3>2. \A q \in Procs : q # p => wrote'[q] # wrote'[p]
      BY <1>1, <2>1, <3>1
    <3>3. wrote'[p] # remote' /\ 1 <= wrote'[p]
      BY <1>1, <2>1, <3>1 DEF NewInv
    <3>4. \A l \in Loaders : epoch'[l][1] # wrote'[p]
      BY <1>1, <1>9, <2>1
    <3>5. \A q \in Procs, k \in Keys : entries'[q][k].held => entries'[q][k].epoch[1] # wrote'[p]
      BY <1>1, <1>10, <2>1
    <3> QED BY <3>2, <3>3, <3>4, <3>5
  <2>2. CASE writing[p] # "no" /\ wrote'[p] = wrote[p]
    <3>1. 1 <= wrote[p] /\ wrote[p] # remote
      BY <2>2 DEF NewInv
    <3>2. wrote'[p] # remote'
      <4>1. ASSUME NEW q \in Procs, BumpRemote(q), remote' = wrote[q], writing[q] # "no"
            PROVE wrote[p] # wrote[q]
        <5>1. q # p
          BY <1>11, <4>1 DEF BumpRemote, TypeInv, TypeOK
        <5> QED BY <2>2, <4>1, <5>1 DEF NewInv
      <4> QED BY <1>1, <1>4, <2>2, <3>1, <4>1
    <3>3. ASSUME NEW q \in Procs, q # p, writing'[q] # "no" PROVE wrote'[q] # wrote'[p]
      <4>1. CASE writing[q] # "no" /\ wrote'[q] = wrote[q]
        BY <2>2, <3>3, <4>1 DEF NewInv
      <4>2. CASE Write(q) /\ wrote'[q] = version + 1
        BY <1>1, <2>2, <4>2
      <4> QED BY <1>3, <3>3, <4>1, <4>2
    <3>4. \A l \in Loaders : epoch'[l][1] # wrote'[p]
      BY <1>1, <1>5, <2>2, <3>1 DEF NewInv
    <3>5. \A q \in Procs, k \in Keys : entries'[q][k].held => entries'[q][k].epoch[1] # wrote'[p]
      BY <1>6, <2>2 DEF NewInv
    <3> QED BY <2>2, <3>1, <3>2, <3>3, <3>4, <3>5
  <2> QED BY <1>3, <1>11, <2>1, <2>2
<1> QED BY <1>2, <1>9, <1>10, <1>11 DEF NewInv

LEMMA RemoteInit == Init => RemoteInv
BY DEF Init, RemoteInv, Empty

LEMMA RemoteStep ==
  TypeInv /\ FlightInv /\ NewInv /\ RemoteInv /\ [Next]_vars => RemoteInv'
<1> SUFFICES ASSUME TypeInv, FlightInv, NewInv, RemoteInv, [Next]_vars PROVE RemoteInv'
  OBVIOUS
<1>0. TypeInv'
  BY TypeStep
<1>1. /\ version \in Nat /\ published \in Nat /\ remote \in Nat /\ ttl \in Nat
      /\ published' \in Nat /\ remote' \in Nat /\ ttl' \in Nat
      /\ Stale \in Nat /\ LoadLimit \in Nat /\ RemoteTtl \in Nat /\ Stale + LoadLimit < RemoteTtl
      /\ \A l \in Loaders : age[l] \in Nat /\ age'[l] \in Nat /\ value[l] \in Nat
      /\ \A l \in Loaders : value'[l] \in Nat
  BY <1>0, CacheAssumption DEF TypeInv, TypeOK
\* Either an epoch is published, which is new, or none is and time may pass.
<1>2. \/ \E p \in Procs : /\ remote' = wrote[p] /\ writing[p] # "no" /\ ttl' = RemoteTtl
                          /\ BumpRemote(p)
      \/ UNCHANGED <<remote, ttl, published>>
      \/ /\ Tick /\ published' = published
         /\ IF ttl = 0 THEN ttl' = 0 ELSE ttl' = ttl - 1
         /\ remote' = IF ttl' = 0 THEN 0 ELSE remote
  BY <1>1, Frames DEF Write, BumpLocal, BumpRemote, Tick
<1>3. remote' = 0 <=> ttl' = 0
  BY <1>1, <1>2 DEF RemoteInv, NewInv
<1>4. ASSUME NEW l \in Loaders, stage'[l] = "read", value'[l] < published', age'[l] <= LoadLimit
      PROVE  RemoteTtl <= ttl' + age'[l] /\ epoch'[l][1] # remote'
  <2>1. CASE Fetch(l)
    <3>1. value'[l] = version /\ published' = published
      BY <2>1 DEF Fetch, writerVars, TypeInv, TypeOK
    <3> QED BY <1>1, <1>4, <3>1 DEF NewInv
  <2>2. CASE Reads(l)
    <3>1. stage[l] = "read" /\ value'[l] = value[l] /\ epoch'[l] = epoch[l] /\ age[l] <= age'[l]
          /\ age[l] <= LoadLimit /\ (Tick => age'[l] = age[l] + 1)
      BY <1>1, <1>4, <2>2, TickAges DEF Reads
    <3>2. ASSUME NEW p \in Procs, remote' = wrote[p], writing[p] # "no", ttl' = RemoteTtl
          PROVE RemoteTtl <= ttl' + age'[l] /\ epoch'[l][1] # remote'
      BY <1>1, <3>1, <3>2 DEF NewInv
    <3>3. published' = published => RemoteTtl <= ttl + age[l] /\ epoch[l][1] # remote
      BY <1>4, <3>1 DEF RemoteInv
    <3> QED BY <1>1, <1>2, <1>4, <3>1, <3>2, <3>3
  <2> QED BY <2>1, <2>2, LookupsStay
<1>5. ASSUME NEW p \in Procs, NEW k \in Keys,
             entries'[p][k].held, entries'[p][k].value < published', entries'[p][k].age <= Stale,
             entries'[p][k].took <= LoadLimit
      PROVE  Stale < ttl' + entries'[p][k].age /\ entries'[p][k].epoch[1] # remote'
  <2>0. entries[p][k].age \in Nat /\ entries'[p][k].age \in Nat
    BY <1>0, CacheAssumption DEF TypeInv, TypeOK
  <2>1. CASE Stays(p, k)
    <3>1. /\ entries[p][k].held /\ entries'[p][k].value = entries[p][k].value
          /\ entries'[p][k].epoch = entries[p][k].epoch
          /\ entries'[p][k].took = entries[p][k].took
          /\ entries[p][k].age <= entries'[p][k].age /\ entries[p][k].age <= Stale
          /\ (Tick => entries'[p][k].age = entries[p][k].age + 1)
      BY <1>1, <1>5, <2>0, <2>1, TickAges DEF Stays
    <3>2. ASSUME NEW q \in Procs, remote' = wrote[q], writing[q] # "no", ttl' = RemoteTtl
          PROVE Stale < ttl' + entries'[p][k].age /\ entries'[p][k].epoch[1] # remote'
      BY <1>1, <2>0, <3>1, <3>2 DEF NewInv
    <3>3. published' = published =>
            Stale < ttl + entries[p][k].age /\ entries[p][k].epoch[1] # remote
      BY <1>5, <3>1 DEF RemoteInv
    <3> QED BY <1>1, <1>2, <1>5, <2>0, <3>1, <3>2, <3>3
  <2>2. ASSUME NEW l \in Loaders, ComesFrom(p, k, l)
        PROVE  Stale < ttl' + entries'[p][k].age /\ entries'[p][k].epoch[1] # remote'
    <3>1. /\ stage[l] = "read" /\ entries'[p][k].value = value[l] /\ entries'[p][k].epoch = epoch[l]
          /\ entries'[p][k].age = 0 /\ entries'[p][k].took = age[l]
          /\ UNCHANGED <<remote, ttl, published>>
      BY <2>2 DEF ComesFrom, Answer, writerVars
    <3>2. age[l] <= LoadLimit /\ RemoteTtl <= ttl + age[l] /\ epoch[l][1] # remote
      BY <1>5, <3>1 DEF RemoteInv
    <3> QED BY <1>1, <3>1, <3>2
  <2> QED BY <2>1, <2>2, EntryOrigin
<1> QED BY <1>3, <1>4, <1>5 DEF RemoteInv

\* A get starts, or reads the epoch in Redis, or keeps what it knows until it
\* returns, waits or looks up.
Goes(r) ==
  /\ floor'[r] \in {floor[r], 0}
  /\ pc'[r] \in {"local", "cutoff", "epoch"} =>
       pc'[r] = pc[r] /\ floor'[r] = floor[r] /\ epoch'[r] = epoch[r]

LEMMA ReaderOrigin ==
  ASSUME TypeInv, [Next]_vars, NEW r \in Readers
  PROVE  \/ \E k \in Keys, answers \in BOOLEAN : Start(r, k, answers)
         \/ ReadRemote(r)
         \/ Goes(r)
<1> USE DEF TypeInv
<1>0. r \in Loaders
  BY DEF Loaders
<1>1. ASSUME UNCHANGED <<pc, floor, epoch>> PROVE Goes(r)
  BY <1>1 DEF Goes
<1>2. ASSUME NEW x \in Readers, x # r, NEW k \in Keys, NEW a \in BOOLEAN, Start(x, k, a)
      PROVE  Goes(r)
  BY <1>2 DEF Start, Goes, TypeOK
<1>3. ASSUME NEW x \in Readers, x # r, ReadRemote(x) PROVE Goes(r)
  BY <1>3 DEF ReadRemote, readerVars, Goes, TypeOK
<1>4. ASSUME NEW x \in Readers, Hit(x) PROVE Goes(r)
  BY <1>0, <1>4 DEF Hit, Return, Forget, Goes, TypeOK
<1>5. ASSUME NEW x \in Readers, ServeStale(x) PROVE Goes(r)
  <2> DEFINE bg == <<Home[x], key[x]>>
  <2>1. Return(x) /\ bg \in Loaders /\ bg \notin Readers /\ x \in Loaders
    BY <1>5, BackgroundType, CacheAssumption DEF ServeStale, TypeOK, Loaders
  <2>2. CASE Idle(x)
    <3>1. epoch' = [epoch EXCEPT ![bg] = epoch[x], ![x] = <<0, 0>>]
      BY <1>5, <2>2 DEF ServeStale
    <3> HIDE DEF bg
    <3> QED BY <1>0, <2>1, <3>1 DEF Return, Goes, TypeOK
  <2>3. CASE ~Idle(x)
    <3>1. Forget(x)
      BY <1>5, <2>3 DEF ServeStale
    <3> QED BY <1>0, <2>1, <3>1 DEF Return, Forget, Goes, TypeOK
  <2> QED BY <2>2, <2>3
<1>6. ASSUME NEW x \in Readers, NEW refresh \in BOOLEAN, Join(x, refresh) \/ Own(x, refresh)
      PROVE  Goes(r)
  BY <1>0, <1>6 DEF Join, Own, Forget, readerVars, Goes, TypeOK
<1>7. ASSUME NEW l \in Loaders, Loader(l) PROVE Goes(r)
  <2>1. ASSUME Finish(l) \/ Fail(l) PROVE Goes(r)
    <3>1. Resolve(l) /\ Forget(l)
      BY <2>1 DEF Finish, Fail
    <3> QED BY <1>0, <3>1 DEF Resolve, Served, Forget, Goes, TypeOK
  <2> QED BY <1>1, <1>7, <2>1 DEF Loader, Fetch, readerVars
<1>8. ASSUME NEW p \in Procs, Writer(p) PROVE Goes(r)
  BY <1>1, <1>8, SharedFrames DEF Writer
<1>9. Tick \/ UNCHANGED vars => Goes(r)
  BY <1>1 DEF Tick, vars, readerVars
<1> QED BY <1>2, <1>3, <1>4, <1>5, <1>6, <1>7, <1>8, <1>9 DEF Next, Reader

LEMMA FloorInit == Init => FloorInv
BY CacheAssumption DEF Init, FloorInv, Loaders

LEMMA FloorStep ==
  /\ TypeInv /\ FlightInv /\ LocalInv /\ NewInv /\ RemoteInv /\ FloorInv /\ [Next]_vars
  => FloorInv'
<1> SUFFICES ASSUME TypeInv, FlightInv, LocalInv, NewInv, RemoteInv, FloorInv, [Next]_vars,
                    NEW r \in Readers
             PROVE  /\ floor'[r] <= version'
                    /\ stage'[r] = "read" => floor'[r] <= value'[r]
                    /\ pc'[r] = "cutoff" => floor'[r] <= told'[Home[r]]
                    /\ pc'[r] = "local" => floor'[r] <= told'[Home[r]] \/ floor'[r] <= published'
                    /\ pc'[r] = "epoch" =>
                         /\ \A l \in Loaders :
                              stage'[l] = "read" /\ ProcOf(l) = Home[r] /\ Unchanged(l)'
                              /\ epoch'[l] = epoch'[r] /\ age'[l] <= LoadLimit =>
                                floor'[r] <= value'[l]
                         /\ \A k \in Keys :
                              LET e == entries'[Home[r]][k] IN
                              e.held /\ e.age <= Stale /\ e.took <= LoadLimit
                              /\ e.epoch = epoch'[r] => floor'[r] <= e.value
  BY DEF FloorInv, ProcOf
<1> DEFINE h == Home[r]
<1>0. TypeInv'
  BY TypeStep
<1>1. /\ r \in Loaders /\ h \in Procs /\ ProcOf(r) = h
      /\ version \in Nat /\ published \in Nat /\ told[h] \in Nat /\ wrote[h] \in Nat
      /\ version' \in Nat /\ published' \in Nat /\ told'[h] \in Nat
      /\ floor[r] \in Nat /\ floor'[r] \in Nat /\ remote \in Nat
      /\ \A l \in Loaders : value[l] \in Nat /\ value'[l] \in Nat /\ age[l] \in Nat
  BY <1>0, CacheAssumption DEF TypeInv, TypeOK, Loaders, ProcOf
<1>2. /\ version <= version' /\ published <= published' /\ told[h] <= told'[h]
      /\ published <= version /\ told[h] <= version /\ told[h] <= Bumped(h)
  BY <1>1, Grows DEF NewInv, LocalInv, TypeInv, Counted, Bumped
\* A lookup keeps its epoch, or is over for the next get.
<1>3. ASSUME NEW l \in Loaders, Reads(l), stage'[l] = "read", Unchanged(l)' PROVE Unchanged(l)
  <2>1. epoch'[l] = epoch[l] /\ epoch[l][2] <= local[ProcOf(l)] /\ ProcOf(l)' = ProcOf(l)
    BY <1>3 DEF Reads, LocalInv, ProcOf
  <2>2. ProcOf(l) \in Procs /\ local[ProcOf(l)] \in Nat /\ local'[ProcOf(l)] \in Nat
        /\ local[ProcOf(l)] <= local'[ProcOf(l)] /\ epoch[l][2] \in Nat
    BY <1>0, LoaderType, EpochTypes, Grows, CacheAssumption DEF TypeInv, TypeOK
  <2> QED BY <1>3, <2>1, <2>2 DEF Unchanged
<1>4. CASE \E k \in Keys, answers \in BOOLEAN : Start(r, k, answers)
  <2>1. PICK k \in Keys, answers \in BOOLEAN : Start(r, k, answers)
    BY <1>4
  <2>2. /\ pc[r] = "idle" /\ UNCHANGED <<stage, value, version, told, published>>
        /\ floor'[r] = Promised(h, answers) /\ pc'[r] = IF answers THEN "local" ELSE "cutoff"
    BY <2>1 DEF Start, writerVars, TypeInv, TypeOK
  <2>3. stage[r] # "read"
    BY <2>2 DEF FlightInv
  <2> QED BY <1>1, <1>2, <2>2, <2>3 DEF Promised, Larger
<1>5. CASE ReadRemote(r)
  <2>1. /\ pc[r] \in {"local", "cutoff"} /\ pc'[r] = "epoch"
        /\ epoch'[r] = <<IF pc[r] = "local" THEN remote ELSE 0, epoch[r][2]>>
        /\ UNCHANGED <<writerVars, remote, local, entries, floor, stage, value>>
        /\ \A l \in Loaders \ {r} : epoch'[l] = epoch[l] /\ age'[l] = age[l]
    BY <1>5, <1>1 DEF ReadRemote, readerVars, TypeInv, TypeOK
  <2>2. floor[r] <= told[h] \/ (pc[r] = "local" /\ floor[r] <= published)
    BY <2>1 DEF FloorInv
  <2>3. stage[r] # "read"
    BY <2>1 DEF FlightInv
  <2>4. ASSUME NEW l \in Loaders, stage'[l] = "read", ProcOf(l) = h, Unchanged(l)',
               epoch'[l] = epoch'[r], age'[l] <= LoadLimit
        PROVE  floor'[r] <= value'[l]
    <3>1. l # r /\ epoch'[l] = epoch[l] /\ age[l] <= LoadLimit /\ stage[l] = "read" /\ Unchanged(l)
      BY <2>1, <2>3, <2>4 DEF Unchanged, ProcOf
    <3>2. Bumped(h) <= value[l]
      BY <2>4, <3>1 DEF LocalInv
    <3>3. value[l] < published => epoch[l][1] # remote
      BY <3>1 DEF RemoteInv
    <3>4. pc[r] = "local" => epoch[l][1] = remote
      BY <2>1, <2>4, <3>1
    <3>5. Bumped(h) \in Nat
      BY <1>1 DEF Bumped
    <3> QED BY <1>1, <1>2, <2>1, <2>2, <3>2, <3>3, <3>4, <3>5
  <2>5. ASSUME NEW k \in Keys, entries'[h][k].held, entries'[h][k].age <= Stale,
               entries'[h][k].took <= LoadLimit, entries'[h][k].epoch = epoch'[r]
        PROVE  floor'[r] <= entries'[h][k].value
    <3> DEFINE e == entries[h][k]
    <3>1. /\ e.held /\ e.age <= Stale /\ e.took <= LoadLimit /\ e.epoch = epoch'[r]
          /\ entries'[h][k] = e
      BY <2>1, <2>5
    <3>2. Bumped(h) <= e.value
      BY <1>1, <3>1 DEF LocalInv
    <3>3. e.value < published => e.epoch[1] # remote
      BY <1>1, <3>1 DEF RemoteInv
    <3>4. pc[r] = "local" => e.epoch[1] = remote
      BY <2>1, <3>1
    <3>5. Bumped(h) \in Nat /\ e.value \in Nat
      BY <1>1, EpochTypes DEF Bumped
    <3> HIDE DEF e
    <3> QED BY <1>1, <1>2, <2>1, <2>2, <3>1, <3>2, <3>3, <3>4, <3>5
  <2>6. floor'[r] <= version' /\ stage'[r] # "read"
    BY <2>1, <2>3, <1>1 DEF writerVars, FloorInv
  <2> QED BY <2>1, <2>4, <2>5, <2>6
<1>6. CASE Goes(r)
  <2>1. floor'[r] <= floor[r] /\ floor[r] <= version /\ floor'[r] <= version'
    BY <1>1, <1>2, <1>6 DEF Goes, FloorInv
  <2>2. ASSUME NEW l \in Loaders, Fetch(l) PROVE value'[l] = version
    BY <2>2 DEF Fetch, TypeInv, TypeOK
  <2>3. stage'[r] = "read" => floor'[r] <= value'[r]
    BY <1>1, <2>1, <2>2, LookupsStay DEF Reads, FloorInv
  <2>4. ASSUME pc'[r] \in {"local", "cutoff", "epoch"}
        PROVE  pc'[r] = pc[r] /\ floor'[r] = floor[r] /\ epoch'[r] = epoch[r]
    BY <1>6, <2>4 DEF Goes
  <2>5. /\ pc'[r] = "cutoff" => floor'[r] <= told'[h]
        /\ pc'[r] = "local" => floor'[r] <= told'[h] \/ floor'[r] <= published'
    BY <1>1, <1>2, <2>4 DEF FloorInv
  <2>6. ASSUME pc'[r] = "epoch", NEW l \in Loaders, stage'[l] = "read", ProcOf(l) = h,
               Unchanged(l)', epoch'[l] = epoch'[r], age'[l] <= LoadLimit
        PROVE  floor'[r] <= value'[l]
    <3>1. CASE Fetch(l)
      BY <1>1, <2>1, <2>2, <3>1
    <3>2. CASE Reads(l)
      <4>1. /\ stage[l] = "read" /\ value'[l] = value[l] /\ epoch'[l] = epoch[l] /\ Unchanged(l)
            /\ age'[l] \in {age[l], age[l] + 1}
        BY <1>3, <2>6, <3>2 DEF Reads
      <4>2. age[l] <= LoadLimit
        BY <1>1, <2>6, <4>1, CacheAssumption
      <4> QED BY <2>4, <2>6, <4>1, <4>2 DEF FloorInv
    <3> QED BY <3>1, <3>2, LookupsStay
  <2>7. ASSUME pc'[r] = "epoch", NEW k \in Keys, entries'[h][k].held, entries'[h][k].age <= Stale,
               entries'[h][k].took <= LoadLimit, entries'[h][k].epoch = epoch'[r]
        PROVE  floor'[r] <= entries'[h][k].value
    <3>0. entries[h][k].age \in Nat /\ entries'[h][k].age \in Nat /\ Stale \in Nat
      BY <1>0, <1>1, CacheAssumption DEF TypeInv, TypeOK
    <3>1. CASE Stays(h, k)
      <4>1. /\ entries[h][k].held /\ entries[h][k].age <= Stale /\ entries[h][k].took <= LoadLimit
            /\ entries'[h][k].value = entries[h][k].value
            /\ entries[h][k].epoch = epoch'[r]
        BY <2>7, <3>0, <3>1 DEF Stays
      <4> QED BY <2>4, <2>7, <4>1 DEF FloorInv
    <3>2. ASSUME NEW l \in Loaders, ComesFrom(h, k, l) PROVE floor'[r] <= entries'[h][k].value
      <4>1. /\ stage[l] = "read" /\ ProcOf(l) = h /\ Unchanged(l) /\ entries'[h][k].took = age[l]
            /\ entries'[h][k].value = value[l] /\ entries'[h][k].epoch = epoch[l]
        BY <3>2 DEF ComesFrom, Answer
      <4> QED BY <2>4, <2>7, <4>1 DEF FloorInv
    <3> QED BY <1>1, <3>1, <3>2, EntryOrigin
  <2> QED BY <2>1, <2>3, <2>5, <2>6, <2>7
<1> QED BY <1>4, <1>5, <1>6, ReaderOrigin

\* What a get finds in an entry whose lookup ended in time, or looks up itself,
\* contains the writes that its process had bumped and, when Redis answers, those
\* that had reached Redis (bump, get and _run of swr_cache.py).
THEOREM BumpedWritesSeen == Spec => BumpedWritesAreSeen
<1> DEFINE Inv == /\ TypeInv /\ FlightInv /\ RecentInv /\ LocalInv /\ NewInv
                  /\ RemoteInv /\ FloorInv
<1>1. Init => Inv
  BY TypeInit, FlightInit, RecentInit, LocalInit, NewInit, RemoteInit, FloorInit
<1>2. Inv /\ [Next]_vars => Inv'
  BY TypeStep, FlightStep, RecentStep, LocalStep, NewStep, RemoteStep, FloorStep
<1>3. Inv /\ [Next]_vars =>
        [\A r \in Readers :
           /\ FromEntry(r) /\ Entry(r).took <= LoadLimit => Entry(r).value >= floor[r]
           /\ FromLookup(r, r) => value[r] >= floor[r]]_vars
  <2> SUFFICES ASSUME Inv, [Next]_vars, NEW r \in Readers
               PROVE  /\ FromEntry(r) /\ Entry(r).took <= LoadLimit => Entry(r).value >= floor[r]
                      /\ FromLookup(r, r) => value[r] >= floor[r]
    OBVIOUS
  <2>0. /\ Home[r] \in Procs /\ key[r] \in Keys /\ floor[r] \in Nat /\ r \in Loaders
        /\ value[r] \in Nat /\ Entry(r).value \in Nat
    BY CacheAssumption DEF TypeInv, TypeOK, Loaders, Entry
  <2>1. ASSUME FromEntry(r), Entry(r).took <= LoadLimit PROVE floor[r] <= Entry(r).value
    <3>1. pc[r] = "epoch" /\ Usable(r) /\ Entry(r).age <= Stale
      BY <2>1, Returns DEF FromEntry, Entry
    <3> QED BY <2>0, <2>1, <3>1 DEF Usable, FloorInv, Entry
  <2>2. ASSUME FromLookup(r, r) PROVE floor[r] <= value[r]
    BY <2>2 DEF FromLookup, FloorInv
  <2> QED BY <2>0, <2>1, <2>2
<1> QED BY <1>1, <1>2, <1>3, PTL DEF Spec, BumpedWritesAreSeen
=============================================================================
