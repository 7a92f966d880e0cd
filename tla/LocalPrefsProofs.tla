--------------------------- MODULE LocalPrefsProofs ---------------------------
(***************************************************************************)
(* Proofs about LocalPrefs, for any number of users, devices, tabs, keys   *)
(* and overlapping pushes.                                                 *)
(***************************************************************************)
EXTENDS LocalPrefs, TLAPS

SyncStates ==
  [st : {"none", "get", "got", "patch", "patched"}, user : Users \cup {Nothing}, login : BOOLEAN,
   prev : Profiles \cup {Nothing}, got : Profiles \cup {Nothing},
   delta : Deltas \cup {Nothing}, applied : BOOLEAN]
PushStates ==
  [st : {"none", "sent", "answered"}, user : Users \cup {Nothing}, delta : Deltas \cup {Nothing}]
Requests == [user : Users, delta : Deltas]

\* A sync knows its account, what it has got and what it sends.
SyncOK(t) ==
  /\ sync[t].st # "none" => sync[t].user \in Users
  /\ sync[t].st \in {"got", "patch", "patched"} => sync[t].got \in Profiles
  /\ sync[t].st = "patch" => sync[t].delta \in Deltas

\* So does a push, and the base it started from is still there.
PushOK(t, s) ==
  push[t][s].st # "none" =>
    /\ push[t][s].user \in Users /\ push[t][s].delta \in Deltas
    /\ base[DeviceOf[t]][push[t][s].user] \in Profiles

\* The settings under a logged-in account have an owner.
Owned == \A d \in Devices \ failed : who[d] # Nothing => owner[d] # Nothing

TypeInv ==
  /\ TypeOK
  /\ sync \in [Tabs -> SyncStates] /\ push \in [Tabs -> [Pushes -> PushStates]]
  /\ wire \in SUBSET Requests
  /\ \A t \in Tabs : SyncOK(t)
  /\ \A t \in Tabs, s \in Pushes : PushOK(t, s)
  /\ Owned

-----------------------------------------------------------------------------
(* Profiles and deltas.                                                    *)

LEMMA AbsentValue == Absent \in Values /\ Untouched \in Profiles
BY DEF Values, Untouched, Profiles

LEMMA DeltaIntro == ASSUME NEW K \in SUBSET Keys, NEW f \in [K -> Values] PROVE f \in Deltas
BY DEF Deltas

LEMMA DeltaElim ==
  ASSUME NEW f \in Deltas
  PROVE  DOMAIN f \subseteq Keys /\ \A k \in DOMAIN f : f[k] \in Values
BY DEF Deltas

\* What a push sends is a delta, and it leads from the base to what lies there.
LEMMA DeltaIsDelta ==
  ASSUME NEW b \in Profiles, NEW l \in Profiles
  PROVE  /\ Delta(b, l) \in Deltas
         /\ \A k \in DOMAIN Delta(b, l) : k \in Keys /\ Delta(b, l)[k] = l[k]
<1> DEFINE K == {x \in Keys : l[x] # b[x]}
<1>1. Delta(b, l) \in [K -> Values]
  BY DEF Delta, Profiles
<1> QED BY <1>1, DeltaIntro DEF Delta

LEMMA OverIsProfile ==
  ASSUME NEW f \in Deltas, NEW p \in Profiles
  PROVE  Over(f, p) \in Profiles
BY DeltaElim DEF Over, Profiles

LEMMA MergeValues ==
  ASSUME NEW prev \in Profiles \cup {Nothing}, NEW got \in Profiles, NEW l \in Profiles
  PROVE  /\ Adopted(prev, got, l) \in Profiles
         /\ Sent(prev, got, l) \in Deltas
         /\ \A k \in DOMAIN Sent(prev, got, l) : k \in Keys /\ Sent(prev, got, l)[k] = l[k]
<1> DEFINE K == {x \in Keys : IF prev = Nothing
                                THEN got[x] = Absent /\ l[x] # Absent
                                ELSE Changed(prev, l, x) /\ l[x] # got[x]}
<1>1. Adopted(prev, got, l) \in Profiles
  BY DEF Adopted, Profiles
<1>2. Sent(prev, got, l) \in [K -> Values]
  BY DEF Sent, Profiles
<1>3. Sent(prev, got, l) \in Deltas
  BY <1>2, DeltaIntro
<1> QED BY <1>1, <1>2, <1>3 DEF Sent

-----------------------------------------------------------------------------
(* What the parts of actions do to the types.                              *)

LEMMA NoTypes == NoSync \in SyncStates /\ NoPush \in PushStates
BY DEF NoSync, NoPush, SyncStates, PushStates

LEMMA StartedType ==
  ASSUME TypeInv, NEW d \in Devices, NEW u \in Users, NEW b \in BOOLEAN
  PROVE  /\ Started(d, u, b) \in SyncStates
         /\ Started(d, u, b).st = "get" /\ Started(d, u, b).user = u
         /\ Started(d, u, b).prev = base[d][u]
<1>1. base[d][u] \in Profiles \cup {Nothing}
  BY DEF TypeInv, TypeOK
<1> QED BY <1>1 DEF Started, SyncStates

LEMMA AccountType ==
  ASSUME NEW o \in Users \cup {Nothing}, NEW w \in Users \cup {Nothing}
  PROVE  ReadAuth(o, w) \in Users \cup {Nothing}
BY DEF ReadAuth

LEMMA UnsentType ==
  ASSUME TypeInv, NEW t \in Tabs
  PROVE  Unsent(t) \subseteq Requests
<1>1. ASSUME NEW s \in Pushes, push[t][s].st = "sent"
      PROVE  [user |-> push[t][s].user, delta |-> push[t][s].delta] \in Requests
  BY <1>1 DEF TypeInv, PushOK, Requests
<1>2. ASSUME sync[t].st = "patch"
      PROVE  [user |-> sync[t].user, delta |-> sync[t].delta] \in Requests
  BY <1>2 DEF TypeInv, SyncOK, Requests
<1> QED BY <1>1, <1>2 DEF Unsent

\* A new document: no pushes, and at most a sync of the account.
LEMMA OpenedTypes ==
  ASSUME TypeInv, NEW t \in Tabs, NEW d \in Devices, Opened(t, d), UNCHANGED base,
         owner'[d] \in Users \cup {Nothing}, who'[d] \in Users \cup {Nothing}
  PROVE  /\ sync' \in [Tabs -> SyncStates] /\ push' \in [Tabs -> [Pushes -> PushStates]]
         /\ wire' \in SUBSET Requests
         /\ page' \in [Tabs -> {"booting", "starting", "up", "leaving"}]
         /\ pushing' \in [Tabs -> BOOLEAN]
         /\ \A x \in Tabs : SyncOK(x)'
         /\ \A x \in Tabs, s \in Pushes : PushOK(x, s)'
<1> DEFINE u == ReadAuth(owner'[d], who'[d])
<1>1. wire' \in SUBSET Requests
  BY UnsentType DEF Opened, TypeInv
<1>2. push' = [push EXCEPT ![t] = [s \in Pushes |-> NoPush]]
  BY DEF Opened
<1>3. /\ push' \in [Tabs -> [Pushes -> PushStates]]
      /\ \A x \in Tabs, s \in Pushes : PushOK(x, s)'
  <2>1. push' \in [Tabs -> [Pushes -> PushStates]]
    BY <1>2, NoTypes DEF TypeInv
  <2>2. ASSUME NEW x \in Tabs, NEW s \in Pushes PROVE PushOK(x, s)'
    BY <1>2 DEF TypeInv, PushOK, NoPush
  <2> QED BY <2>1, <2>2
<1>4. pushing' \in [Tabs -> BOOLEAN]
  BY DEF Opened, TypeInv, TypeOK
<1>5. page' \in [Tabs -> {"booting", "starting", "up", "leaving"}]
  BY DEF Opened, TypeInv, TypeOK
<1>6. u \in Users \cup {Nothing}
  BY AccountType
<1>7. \E n \in SyncStates : /\ sync' = [sync EXCEPT ![t] = n]
                            /\ n.st # "none" => n.st = "get" /\ n.user \in Users
  <2>1. CASE u = Nothing
    BY <2>1, NoTypes DEF Opened, NoSync
  <2>2. CASE u # Nothing
    <3>1. u \in Users
      BY <1>6, <2>2
    <3>2. sync' = [sync EXCEPT ![t] = Started(d, u, FALSE)]
      BY <2>2 DEF Opened
    <3> QED BY <3>1, <3>2, StartedType
  <2> QED BY <2>1, <2>2
<1>8. /\ sync' \in [Tabs -> SyncStates]
      /\ \A x \in Tabs : SyncOK(x)'
  BY <1>7 DEF TypeInv, SyncOK
<1> QED BY <1>1, <1>3, <1>4, <1>5, <1>8

LEMMA MergeTypes ==
  ASSUME TypeInv, NEW u \in Users, NEW f \in Deltas, Merge(u, f)
  PROVE  server' \in [Users -> Profiles] /\ known' \in [Users -> [Keys -> SUBSET Values]]
<1>1. server' \in [Users -> Profiles]
  BY OverIsProfile DEF TypeInv, TypeOK, Merge
<1>2. \A k \in Keys : server'[u][k] \in Values
  BY <1>1 DEF Profiles
<1> QED BY <1>1, <1>2 DEF TypeInv, TypeOK, Merge

LEMMA ReplacesTypes ==
  ASSUME TypeInv, NEW d \in Devices, NEW u \in Users, NEW rest \in Profiles \cup {Nothing},
         NEW p \in Profiles, Replaces(d, u, rest, p)
  PROVE  /\ live' \in [Devices -> Profiles]
         /\ archive' \in [Devices -> [Users -> Profiles \cup {Nothing}]]
BY DEF Replaces, TypeInv, TypeOK

\* A change of profiles, whether it succeeds or throws.
LEMMA ActivateTypes ==
  ASSUME TypeInv, NEW d \in Devices, NEW u \in Users, NEW ok \in BOOLEAN, Activate(d, u, ok)
  PROVE  /\ owner' \in [Devices -> Users \cup {Nothing}] /\ live' \in [Devices -> Profiles]
         /\ archive' \in [Devices -> [Users -> Profiles \cup {Nothing}]]
         /\ \A x \in Devices : owner[x] # Nothing => owner'[x] # Nothing
         /\ d \notin failed' => owner'[d] = u
         /\ failed' \in SUBSET Devices /\ failed \subseteq failed'
         /\ faults' \in 0..MaxFaults
<1>1. /\ owner' \in [Devices -> Users \cup {Nothing}]
      /\ \A x \in Devices : owner[x] # Nothing => owner'[x] # Nothing
      /\ d \notin failed' => owner'[d] = u
  BY PrefsAssumption DEF TypeInv, TypeOK, Activate
<1>2. live' \in [Devices -> Profiles] /\ archive' \in [Devices -> [Users -> Profiles \cup {Nothing}]]
  <2>1. CASE UNCHANGED <<archive, live>>
    BY <2>1 DEF TypeInv, TypeOK
  <2>2. CASE Replaces(d, u, Nothing, Archived(d, u))
    <3>1. Archived(d, u) \in Profiles
      BY AbsentValue DEF Archived, TypeInv, TypeOK
    <3> QED BY <2>2, <3>1, ReplacesTypes
  <2>3. ASSUME NEW K \in SUBSET Keys, archive[d][u] # Nothing,
               Replaces(d, u, archive[d][u],
                        [k \in Keys |-> IF k \in K THEN archive[d][u][k] ELSE Absent])
        PROVE  /\ live' \in [Devices -> Profiles]
               /\ archive' \in [Devices -> [Users -> Profiles \cup {Nothing}]]
    <3>1. archive[d][u] \in Profiles
      BY <2>3 DEF TypeInv, TypeOK
    <3>2. [k \in Keys |-> IF k \in K THEN archive[d][u][k] ELSE Absent] \in Profiles
      BY <3>1, AbsentValue DEF Profiles
    <3> QED BY <2>3, <3>1, <3>2, ReplacesTypes
  <2> QED BY <2>1, <2>2, <2>3 DEF Activate
<1>3. faults' \in 0..MaxFaults /\ failed' \in SUBSET Devices /\ failed \subseteq failed'
  BY PrefsAssumption DEF TypeInv, TypeOK, Activate, Fault
<1> QED BY <1>1, <1>2, <1>3

LEMMA EndedTypes ==
  ASSUME TypeInv, NEW t \in Tabs, NEW b \in BOOLEAN, Ended(t, b)
  PROVE  /\ sync' \in [Tabs -> SyncStates] /\ \A x \in Tabs : SyncOK(x)'
         /\ page' \in [Tabs -> {"booting", "starting", "up", "leaving"}]
<1>1. sync' \in [Tabs -> SyncStates] /\ \A x \in Tabs : SyncOK(x)'
  BY NoTypes DEF TypeInv, Ended, SyncOK, NoSync
<1>2. page' \in [Tabs -> {"booting", "starting", "up", "leaving"}]
  BY DEF TypeInv, TypeOK, Ended
<1> QED BY <1>1, <1>2

LEMMA PushedTypes ==
  ASSUME TypeInv, NEW t \in Tabs, NEW s \in Pushes, Pushed(t, s), UNCHANGED base
  PROVE  /\ push' \in [Tabs -> [Pushes -> PushStates]] /\ pushing' \in [Tabs -> BOOLEAN]
         /\ \A x \in Tabs, y \in Pushes : PushOK(x, y)'
<1> DEFINE d == DeviceOf[t]
           u == Account(d)
           p == [st |-> "sent", user |-> u, delta |-> Delta(base[d][u], live[d])]
<1>1. d \in Devices
  BY PrefsAssumption
<1>2. u \in Users
  BY <1>1, AccountType DEF Pushed, Differs, Account, TypeInv, TypeOK
<1>3. base[d][u] \in Profiles /\ live[d] \in Profiles
  BY <1>1, <1>2 DEF Pushed, Differs, TypeInv, TypeOK
<1>4. Delta(base[d][u], live[d]) \in Deltas
  BY <1>3, DeltaIsDelta
<1>5. p \in PushStates
  BY <1>2, <1>4 DEF PushStates
<1>6. push' = [push EXCEPT ![t][s] = p]
  BY DEF Pushed
<1>7. push' \in [Tabs -> [Pushes -> PushStates]]
  BY <1>5, <1>6 DEF TypeInv
<1>8. ASSUME NEW x \in Tabs, NEW y \in Pushes PROVE PushOK(x, y)'
  BY <1>2, <1>3, <1>4, <1>6 DEF TypeInv, PushOK
<1> QED BY <1>7, <1>8 DEF Pushed, TypeInv, TypeOK

-----------------------------------------------------------------------------
(* Every action keeps the types.                                           *)

LEMMA TypePages ==
  ASSUME TypeInv, NEW t \in Tabs, Reload(t) \/ AppStart(t) \/ \E u \in Users : Login(t, u)
  PROVE  TypeInv'
<1> DEFINE d == DeviceOf[t]
<1>0. d \in Devices
  BY PrefsAssumption
<1>1. CASE Reload(t)
  <2>1. owner'[d] \in Users \cup {Nothing} /\ who'[d] \in Users \cup {Nothing}
    BY <1>0, <1>1 DEF Reload, deviceVars, TypeInv, TypeOK
  <2>2. Opened(t, d) /\ UNCHANGED base
    BY <1>1 DEF Reload, deviceVars
  <2> QED BY <1>0, <1>1, <2>1, <2>2, OpenedTypes
          DEF Reload, deviceVars, serverVars, bounds, TypeInv, TypeOK, Owned
<1>2. CASE AppStart(t)
  <2>1. page' \in [Tabs -> {"booting", "starting", "up", "leaving"}]
    BY <1>2 DEF AppStart, TypeInv, TypeOK
  <2>2. /\ owner' \in [Devices -> Users \cup {Nothing}] /\ live' \in [Devices -> Profiles]
        /\ archive' \in [Devices -> [Users -> Profiles \cup {Nothing}]]
        /\ \A x \in Devices : owner[x] # Nothing => owner'[x] # Nothing
        /\ failed' \in SUBSET Devices /\ failed \subseteq failed'
        /\ faults' \in 0..MaxFaults
    <3>1. CASE who[d] = Nothing
      BY <1>2, <3>1 DEF AppStart, TypeInv, TypeOK
    <3>2. CASE who[d] # Nothing
      <4>1. who[d] \in Users
        BY <1>0, <3>2 DEF TypeInv, TypeOK
      <4>2. PICK ok \in BOOLEAN : Activate(d, who[d], ok)
        BY <1>2, <3>2 DEF AppStart
      <4> QED BY <1>0, <4>1, <4>2, ActivateTypes
    <3> QED BY <3>1, <3>2
  <2>3. UNCHANGED <<server, known, base, who, sync, push, pushing, wire, edits, logins>>
    BY <1>2 DEF AppStart, serverVars
  <2>4. TypeOK'
    BY <2>1, <2>2, <2>3 DEF TypeInv, TypeOK
  <2> QED BY <2>2, <2>3, <2>4 DEF TypeInv, SyncOK, PushOK, Owned
<1>3. ASSUME NEW u \in Users, Login(t, u) PROVE TypeInv'
  <2>1. PICK ok \in BOOLEAN :
          /\ Activate(d, u, ok)
          /\ IF Switches(d, u, ok)
               THEN Opened(t, d)
               ELSE /\ sync' = IF ReadAuth(owner'[d], u) = Nothing
                                 THEN sync ELSE [sync EXCEPT ![t] = Started(d, u, TRUE)]
                    /\ UNCHANGED <<page, push, pushing, wire>>
    BY <1>3 DEF Login
  <2>2. /\ who' = [who EXCEPT ![d] = u] /\ logins' = logins + 1 /\ logins < MaxLogins
        /\ UNCHANGED <<server, known, base, edits>>
    BY <1>3 DEF Login, serverVars
  <2>3. /\ owner' \in [Devices -> Users \cup {Nothing}] /\ live' \in [Devices -> Profiles]
        /\ archive' \in [Devices -> [Users -> Profiles \cup {Nothing}]]
        /\ \A x \in Devices : owner[x] # Nothing => owner'[x] # Nothing
        /\ d \notin failed' => owner'[d] = u
        /\ failed' \in SUBSET Devices /\ failed \subseteq failed'
        /\ faults' \in 0..MaxFaults
    BY <1>0, <2>1, ActivateTypes
  <2>4. who' \in [Devices -> Users \cup {Nothing}] /\ who'[d] = u
    BY <1>0, <2>2 DEF TypeInv, TypeOK
  <2>5. /\ sync' \in [Tabs -> SyncStates] /\ push' \in [Tabs -> [Pushes -> PushStates]]
        /\ wire' \in SUBSET Requests
        /\ page' \in [Tabs -> {"booting", "starting", "up", "leaving"}]
        /\ pushing' \in [Tabs -> BOOLEAN]
        /\ \A x \in Tabs : SyncOK(x)'
        /\ \A x \in Tabs, s \in Pushes : PushOK(x, s)'
    <3>1. CASE Switches(d, u, ok)
      <4>1. Opened(t, d)
        BY <2>1, <3>1
      <4>2. owner'[d] \in Users \cup {Nothing} /\ who'[d] \in Users \cup {Nothing}
        BY <1>0, <2>3, <2>4
      <4> QED BY <1>0, <2>2, <4>1, <4>2, OpenedTypes
    <3>2. CASE ~Switches(d, u, ok)
      <4>1. UNCHANGED <<page, push, pushing, wire, base>>
        BY <2>1, <2>2, <3>2
      <4>2. sync' \in [Tabs -> SyncStates] /\ \A x \in Tabs : SyncOK(x)'
        <5>1. CASE sync' = [sync EXCEPT ![t] = Started(d, u, TRUE)]
          <6>1. /\ Started(d, u, TRUE) \in SyncStates
                /\ Started(d, u, TRUE).st = "get" /\ Started(d, u, TRUE).user = u
            BY <1>0, StartedType
          <6> HIDE DEF d
          <6> QED BY <5>1, <6>1 DEF TypeInv, SyncOK
        <5>2. CASE sync' = sync
          BY <5>2 DEF TypeInv, SyncOK
        <5>3. sync' = sync \/ sync' = [sync EXCEPT ![t] = Started(d, u, TRUE)]
          BY <2>1, <3>2
        <5> QED BY <5>1, <5>2, <5>3
      <4> QED BY <4>1, <4>2 DEF TypeInv, TypeOK, PushOK
    <3> QED BY <3>1, <3>2
  <2>6. logins' \in 0..MaxLogins
    BY <2>2, PrefsAssumption DEF TypeInv, TypeOK
  <2>7. TypeOK'
    BY <2>2, <2>3, <2>4, <2>5, <2>6 DEF TypeInv, TypeOK
  <2>8. Owned'
    <3>1. ASSUME NEW x \in Devices \ failed', who'[x] # Nothing PROVE owner'[x] # Nothing
      <4>1. CASE x = d
        BY <2>3, <3>1, <4>1, PrefsAssumption
      <4>2. CASE x # d
        <5>1. who'[x] = who[x]
          BY <2>2, <4>2 DEF TypeInv, TypeOK
        <5> QED BY <2>3, <3>1, <5>1 DEF TypeInv, Owned
      <4> QED BY <4>1, <4>2
    <3> QED BY <3>1 DEF Owned
  <2> QED BY <2>5, <2>7, <2>8 DEF TypeInv
<1> QED BY <1>1, <1>2, <1>3

LEMMA TypeEdit ==
  ASSUME TypeInv, NEW t \in Tabs, NEW k \in Keys, Edit(t, k)
  PROVE  TypeInv'
<1> DEFINE d == DeviceOf[t]
<1>1. d \in Devices
  BY PrefsAssumption
<1>2. who[d] \in Users
  BY <1>1 DEF Edit, TypeInv, TypeOK
<1>3. edits + 1 \in 1..MaxEdits /\ edits' \in 0..MaxEdits
  BY PrefsAssumption DEF Edit, TypeInv, TypeOK
<1>4. [by |-> who[d], on |-> d, n |-> edits + 1] \in Values
  BY <1>1, <1>2, <1>3 DEF Values
<1>5. PICK v \in {Absent, [by |-> who[d], on |-> d, n |-> edits + 1]} :
        live' = [live EXCEPT ![d][k] = v]
  BY DEF Edit
<1>6. live' \in [Devices -> Profiles]
  BY <1>4, <1>5, AbsentValue DEF Profiles, TypeInv, TypeOK
<1> QED BY <1>3, <1>6
        DEF Edit, serverVars, TypeInv, TypeOK, SyncOK, PushOK, Owned

LEMMA TypeSync ==
  ASSUME TypeInv, NEW t \in Tabs, Syncing(t) \/ SyncFail(t)
  PROVE  TypeInv'
<1> DEFINE d == DeviceOf[t]
           s == sync[t]
<1>0. d \in Devices /\ s \in SyncStates
  BY PrefsAssumption DEF TypeInv
<1>1. CASE SyncRead(t)
  <2>1. s.user \in Users /\ server[s.user] \in Profiles /\ Untouched \in Profiles
    BY <1>1, AbsentValue DEF SyncRead, TypeInv, TypeOK, SyncOK
  <2>2. PICK row \in {server[s.user], Untouched} :
          sync' = [sync EXCEPT ![t] = [s EXCEPT !.st = "got", !.got = row]]
    BY <1>1 DEF SyncRead, TypeInv
  <2>3. sync' \in [Tabs -> SyncStates] /\ \A x \in Tabs : SyncOK(x)'
    BY <1>0, <2>1, <2>2 DEF TypeInv, SyncStates, SyncOK
  <2>4. faults' \in 0..MaxFaults
    BY <1>1, PrefsAssumption DEF SyncRead, Fault, TypeInv, TypeOK
  <2> QED BY <1>1, <2>3, <2>4
          DEF SyncRead, serverVars, deviceVars, TypeInv, TypeOK, PushOK, Owned
<1>2. CASE SyncMerge(t)
  <2> DEFINE kept == Adopted(s.prev, s.got, live[d])
             delta == Sent(s.prev, s.got, live[d])
  <2>1. s.user \in Users /\ s.got \in Profiles /\ live[d] \in Profiles /\ s.st = "got"
        /\ s.prev \in Profiles \cup {Nothing}
    BY <1>0, <1>2 DEF SyncMerge, TypeInv, TypeOK, SyncOK, SyncStates
  <2>2. kept \in Profiles /\ delta \in Deltas
    BY <2>1, MergeValues
  <2>3. live' \in [Devices -> Profiles]
    BY <1>2, <2>2 DEF SyncMerge, TypeInv, TypeOK
  <2>4. /\ base' \in [Devices -> [Users -> Profiles \cup {Nothing}]]
        /\ \A x \in Devices, u \in Users : base[x][u] \in Profiles => base'[x][u] \in Profiles
        /\ sync' \in [Tabs -> SyncStates] /\ \A x \in Tabs : SyncOK(x)'
        /\ page' \in [Tabs -> {"booting", "starting", "up", "leaving"}]
    <3>1. CASE DOMAIN delta = {}
      <4>1. base' = [base EXCEPT ![d][s.user] = s.got]
        BY <1>2, <3>1 DEF SyncMerge
      <4>2. /\ sync' \in [Tabs -> SyncStates] /\ \A x \in Tabs : SyncOK(x)'
            /\ page' \in [Tabs -> {"booting", "starting", "up", "leaving"}]
        BY <1>2, <3>1, EndedTypes DEF SyncMerge
      <4> QED BY <1>0, <2>1, <4>1, <4>2 DEF TypeInv, TypeOK
    <3>2. CASE DOMAIN delta # {}
      <4> DEFINE n == [s EXCEPT !.st = "patch", !.delta = delta, !.applied = (kept # live[d])]
      <4>1. sync' = [sync EXCEPT ![t] = n] /\ UNCHANGED <<base, page>>
        BY <1>2, <3>2 DEF SyncMerge, TypeInv
      <4>2. n \in SyncStates /\ n.user = s.user /\ n.got = s.got /\ n.delta = delta
        BY <1>0, <2>2 DEF SyncStates
      <4>3. sync' \in [Tabs -> SyncStates] /\ \A x \in Tabs : SyncOK(x)'
        BY <2>1, <2>2, <4>1, <4>2 DEF TypeInv, SyncOK
      <4> QED BY <4>1, <4>3 DEF TypeInv, TypeOK
    <3> QED BY <3>1, <3>2
  <2>5. UNCHANGED <<serverVars, owner, archive, who, failed, push, pushing, wire, bounds>>
    BY <1>2 DEF SyncMerge
  <2>6. \A x \in Tabs, y \in Pushes : PushOK(x, y)'
    BY <2>4, <2>5, PrefsAssumption DEF TypeInv, PushOK
  <2> QED BY <2>3, <2>4, <2>5, <2>6 DEF serverVars, bounds, TypeInv, TypeOK, Owned
<1>3. CASE SyncPatch(t)
  <2>1. s.user \in Users /\ s.delta \in Deltas
    BY <1>3 DEF SyncPatch, TypeInv, SyncOK
  <2>2. server' \in [Users -> Profiles] /\ known' \in [Users -> [Keys -> SUBSET Values]]
    BY <1>3, <2>1, MergeTypes DEF SyncPatch
  <2>3. sync' = [sync EXCEPT ![t] = [s EXCEPT !.st = "patched", !.got = server'[s.user]]]
    BY <1>3 DEF SyncPatch, TypeInv
  <2>4. sync' \in [Tabs -> SyncStates] /\ \A x \in Tabs : SyncOK(x)'
    BY <1>0, <2>1, <2>2, <2>3 DEF TypeInv, SyncStates, SyncOK
  <2> QED BY <1>3, <2>2, <2>4
          DEF SyncPatch, deviceVars, bounds, TypeInv, TypeOK, PushOK, Owned
<1>4. CASE SyncSave(t)
  <2>1. s.user \in Users /\ s.got \in Profiles
    BY <1>4 DEF SyncSave, TypeInv, SyncOK
  <2>2. base' = [base EXCEPT ![d][s.user] = s.got]
    BY <1>4 DEF SyncSave
  <2>3. /\ base' \in [Devices -> [Users -> Profiles \cup {Nothing}]]
        /\ \A x \in Devices, u \in Users : base[x][u] \in Profiles => base'[x][u] \in Profiles
    BY <1>0, <2>1, <2>2 DEF TypeInv, TypeOK
  <2>4. /\ sync' \in [Tabs -> SyncStates] /\ \A x \in Tabs : SyncOK(x)'
        /\ page' \in [Tabs -> {"booting", "starting", "up", "leaving"}]
    BY <1>0, <1>4, EndedTypes DEF SyncSave, SyncStates
  <2>5. \A x \in Tabs, y \in Pushes : PushOK(x, y)'
    BY <1>4, <2>3, PrefsAssumption DEF SyncSave, TypeInv, PushOK
  <2> QED BY <1>4, <2>3, <2>4, <2>5 DEF SyncSave, serverVars, bounds, TypeInv, TypeOK, Owned
<1>5. CASE SyncFail(t)
  <2>1. /\ sync' \in [Tabs -> SyncStates] /\ \A x \in Tabs : SyncOK(x)'
        /\ page' \in [Tabs -> {"booting", "starting", "up", "leaving"}]
    BY <1>5, EndedTypes DEF SyncFail
  <2>2. wire' \in SUBSET Requests
    BY <1>5 DEF SyncFail, TypeInv, SyncOK, Requests
  <2>3. faults' \in 0..MaxFaults
    BY <1>5, PrefsAssumption DEF SyncFail, Fault, TypeInv, TypeOK
  <2> QED BY <1>5, <2>1, <2>2, <2>3
          DEF SyncFail, serverVars, deviceVars, TypeInv, TypeOK, PushOK, Owned
<1> QED BY <1>1, <1>2, <1>3, <1>4, <1>5 DEF Syncing

LEMMA TypePush ==
  ASSUME TypeInv, NEW t \in Tabs, NEW s \in Pushes,
         \/ \E hidden \in BOOLEAN : PushStart(t, s, hidden)
         \/ PushPatch(t, s) \/ PushDone(t, s) \/ PushFail(t, s)
  PROVE  TypeInv'
<1> DEFINE d == DeviceOf[t]
           p == push[t][s]
<1>0. d \in Devices /\ p \in PushStates
  BY PrefsAssumption DEF TypeInv
<1>1. ASSUME NEW hidden \in BOOLEAN, PushStart(t, s, hidden) PROVE TypeInv'
  <2>1. /\ push' \in [Tabs -> [Pushes -> PushStates]] /\ pushing' \in [Tabs -> BOOLEAN]
        /\ \A x \in Tabs, y \in Pushes : PushOK(x, y)'
    BY <1>1, PushedTypes DEF PushStart, deviceVars
  <2> QED BY <1>1, <2>1
          DEF PushStart, deviceVars, serverVars, bounds, TypeInv, TypeOK, SyncOK, Owned
<1>2. CASE PushPatch(t, s)
  <2>1. p.user \in Users /\ p.delta \in Deltas
    BY <1>2 DEF PushPatch, TypeInv, PushOK
  <2>2. server' \in [Users -> Profiles] /\ known' \in [Users -> [Keys -> SUBSET Values]]
    BY <1>2, <2>1, MergeTypes DEF PushPatch
  <2>3. push' = [push EXCEPT ![t][s] = [p EXCEPT !.st = "answered"]]
    BY <1>2 DEF PushPatch, TypeInv
  <2>4. /\ push' \in [Tabs -> [Pushes -> PushStates]]
    BY <1>0, <2>3 DEF TypeInv, PushStates
  <2>5. ASSUME NEW x \in Tabs, NEW y \in Pushes PROVE PushOK(x, y)'
    <3>1. push'[x][y].user = push[x][y].user /\ push'[x][y].delta = push[x][y].delta
          /\ (push'[x][y].st # "none" => push[x][y].st # "none")
      BY <1>0, <1>2, <2>3 DEF PushPatch, TypeInv, PushStates
    <3> QED BY <1>2, <3>1 DEF PushPatch, deviceVars, TypeInv, PushOK
  <2> QED BY <1>2, <2>2, <2>4, <2>5
          DEF PushPatch, deviceVars, bounds, TypeInv, TypeOK, SyncOK, Owned
<1>3. CASE PushDone(t, s)
  <2>1. p.user \in Users /\ p.delta \in Deltas /\ base[d][p.user] \in Profiles
    BY <1>3 DEF PushDone, TypeInv, PushOK
  <2>2. Over(p.delta, base[d][p.user]) \in Profiles
    BY <2>1, OverIsProfile
  <2>3. base' = [base EXCEPT ![d][p.user] = Over(p.delta, base[d][p.user])]
    BY <1>0, <1>3, <2>1 DEF PushDone, TypeInv, TypeOK
  <2>4. /\ base' \in [Devices -> [Users -> Profiles \cup {Nothing}]]
        /\ \A x \in Devices, u \in Users : base[x][u] \in Profiles => base'[x][u] \in Profiles
    BY <1>0, <2>1, <2>2, <2>3 DEF TypeInv, TypeOK
  <2>5. push' = [push EXCEPT ![t][s] = NoPush]
    BY <1>3 DEF PushDone
  <2>6. push' \in [Tabs -> [Pushes -> PushStates]]
    BY <2>5, NoTypes DEF TypeInv
  <2>7. ASSUME NEW x \in Tabs, NEW y \in Pushes PROVE PushOK(x, y)'
    <3>1. push'[x][y] \in {NoPush, push[x][y]}
      BY <2>5 DEF TypeInv
    <3> QED BY <2>4, <3>1, PrefsAssumption DEF TypeInv, PushOK, NoPush
  <2> QED BY <1>3, <2>4, <2>6, <2>7
          DEF PushDone, serverVars, bounds, TypeInv, TypeOK, SyncOK, Owned
<1>4. CASE PushFail(t, s)
  <2>1. push' = [push EXCEPT ![t][s] = NoPush]
    BY <1>4 DEF PushFail
  <2>2. push' \in [Tabs -> [Pushes -> PushStates]]
    BY <2>1, NoTypes DEF TypeInv
  <2>3. ASSUME NEW x \in Tabs, NEW y \in Pushes PROVE PushOK(x, y)'
    <3>1. push'[x][y] \in {NoPush, push[x][y]}
      BY <2>1 DEF TypeInv
    <3> QED BY <1>4, <3>1 DEF PushFail, deviceVars, TypeInv, PushOK, NoPush
  <2>4. wire' \in SUBSET Requests
    BY <1>4 DEF PushFail, TypeInv, PushOK, Requests
  <2>5. faults' \in 0..MaxFaults
    BY <1>4, PrefsAssumption DEF PushFail, Fault, TypeInv, TypeOK
  <2> QED BY <1>4, <2>2, <2>3, <2>4, <2>5
          DEF PushFail, deviceVars, serverVars, TypeInv, TypeOK, SyncOK, Owned
<1> QED BY <1>1, <1>2, <1>3, <1>4

LEMMA TypeLogout ==
  ASSUME TypeInv, NEW t \in Tabs, Logout(t)
  PROVE  TypeInv'
<1> DEFINE d == DeviceOf[t]
<1>1. /\ push' \in [Tabs -> [Pushes -> PushStates]] /\ pushing' \in [Tabs -> BOOLEAN]
      /\ \A x \in Tabs, y \in Pushes : PushOK(x, y)'
  <2>1. ASSUME NEW s \in Pushes, Pushed(t, s)
        PROVE  /\ push' \in [Tabs -> [Pushes -> PushStates]] /\ pushing' \in [Tabs -> BOOLEAN]
               /\ \A x \in Tabs, y \in Pushes : PushOK(x, y)'
    BY <2>1, PushedTypes DEF Logout
  <2>2. CASE UNCHANGED <<push, pushing>>
    BY <2>2 DEF Logout, TypeInv, TypeOK, PushOK
  <2> QED BY <2>1, <2>2 DEF Logout
<1>2. who' \in [Devices -> Users \cup {Nothing}] /\ Owned'
  BY PrefsAssumption DEF Logout, TypeInv, TypeOK, Owned
<1> QED BY <1>1, <1>2 DEF Logout, serverVars, bounds, TypeInv, TypeOK, SyncOK

LEMMA TypeLate ==
  ASSUME TypeInv, NEW r \in wire, Late(r)
  PROVE  TypeInv'
<1>1. r \in Requests /\ wire' \in SUBSET Requests
  BY DEF Late, TypeInv
<1>2. server' \in [Users -> Profiles] /\ known' \in [Users -> [Keys -> SUBSET Values]]
  <2>1. CASE Merge(r.user, r.delta)
    BY <1>1, <2>1, MergeTypes DEF Requests
  <2>2. CASE UNCHANGED serverVars
    BY <2>2 DEF serverVars, TypeInv, TypeOK
  <2> QED BY <2>1, <2>2 DEF Late
<1> QED BY <1>1, <1>2 DEF Late, deviceVars, bounds, TypeInv, TypeOK, SyncOK, PushOK, Owned

LEMMA TypeInit == Init => TypeInv
<1> SUFFICES ASSUME Init PROVE TypeInv
  OBVIOUS
<1>1. server \in [Users -> Profiles] /\ live \in [Devices -> Profiles]
  BY AbsentValue DEF Init
<1>2. known \in [Users -> [Keys -> SUBSET Values]]
  BY AbsentValue DEF Init
<1>3. sync \in [Tabs -> SyncStates] /\ push \in [Tabs -> [Pushes -> PushStates]]
  BY NoTypes DEF Init
<1>4. (\A t \in Tabs : SyncOK(t)) /\ \A t \in Tabs, s \in Pushes : PushOK(t, s)
  BY DEF Init, SyncOK, PushOK, NoSync, NoPush
<1> QED BY <1>1, <1>2, <1>3, <1>4, PrefsAssumption DEF Init, TypeInv, TypeOK, Owned

LEMMA TypeStep == TypeInv /\ [Next]_vars => TypeInv'
<1> SUFFICES ASSUME TypeInv, [Next]_vars PROVE TypeInv'
  OBVIOUS
<1>1. ASSUME NEW t \in Tabs, Reload(t) PROVE TypeInv'
  BY <1>1, TypePages
<1>2. ASSUME NEW t \in Tabs, Going(t) PROVE TypeInv'
  BY <1>2, TypePages, TypeSync, TypePush DEF Going, Pushing
<1>3. ASSUME NEW t \in Tabs, Acting(t) PROVE TypeInv'
  BY <1>3, TypePages, TypeLogout, TypeEdit DEF Acting
<1>4. ASSUME NEW t \in Tabs, Failing(t) PROVE TypeInv'
  BY <1>4, TypeSync, TypePush DEF Failing
<1>5. ASSUME NEW r \in wire, Late(r) PROVE TypeInv'
  BY <1>5, TypeLate
<1>6. CASE UNCHANGED vars
  BY <1>6 DEF vars, serverVars, deviceVars, bounds, TypeInv, TypeOK, SyncOK, PushOK, Owned
<1> QED BY <1>1, <1>2, <1>3, <1>4, <1>5, <1>6 DEF Next

\* Whatever pages, syncs, pushes, failures and late requests do, the variables
\* keep their types; a push finds the base it started from.
THEOREM TypeCorrect == Spec => []TypeInv
<1>1. Init => TypeInv
  BY TypeInit
<1>2. TypeInv /\ [Next]_vars => TypeInv'
  BY TypeStep
<1> QED BY <1>1, <1>2, PTL DEF Spec

-----------------------------------------------------------------------------
(* What the server has held.                                               *)

Known(u, p) == \A k \in Keys : p[k] \in known[u][k]

\* Copies of the row of the server are of values that it has held: its own, the
\* bases, what a sync started from and has got, and a delta that is answered.
SyncKnown(t) ==
  sync[t].st # "none" =>
    /\ sync[t].prev \in Profiles => Known(sync[t].user, sync[t].prev)
    /\ sync[t].st # "get" => Known(sync[t].user, sync[t].got)
PushKnown(t, s) ==
  push[t][s].st = "answered" =>
    \A k \in DOMAIN push[t][s].delta : push[t][s].delta[k] \in known[push[t][s].user][k]
BaseKnown == \A d \in Devices, u \in Users : base[d][u] \in Profiles => Known(u, base[d][u])

KnownInv ==
  /\ \A u \in Users : Known(u, server[u])
  /\ BaseKnown
  /\ \A t \in Tabs : SyncKnown(t)
  /\ \A t \in Tabs, s \in Pushes : PushKnown(t, s)

Grows == \A u \in Users, k \in Keys : known[u][k] \subseteq known'[u][k]

\* The row began empty: what a server that cannot read it answers was true once.
EmptyKnown == \A u \in Users, k \in Keys : Absent \in known[u][k]

LEMMA EmptyStep == ASSUME TypeInv, EmptyKnown, [Next]_vars PROVE EmptyKnown'
<1>1. ASSUME NEW u, NEW f, Merge(u, f) PROVE EmptyKnown'
  BY <1>1 DEF Merge, EmptyKnown, TypeInv, TypeOK
<1>2. CASE UNCHANGED known
  BY <1>2 DEF EmptyKnown
<1>3. ASSUME NEW t \in Tabs, Reload(t) \/ AppStart(t) \/ Acting(t) \/ Failing(t)
      PROVE  UNCHANGED known
  BY <1>3 DEF Reload, AppStart, Acting, Login, Logout, Edit, Failing, SyncFail, PushFail, serverVars
<1>4. ASSUME NEW t \in Tabs, Syncing(t) PROVE UNCHANGED known \/ \E u : \E f : Merge(u, f)
  BY <1>4 DEF Syncing, SyncRead, SyncMerge, SyncPatch, SyncSave, serverVars
<1>5. ASSUME NEW t \in Tabs, Pushing(t) PROVE UNCHANGED known \/ \E u : \E f : Merge(u, f)
  BY <1>5 DEF Pushing, PushStart, PushPatch, PushDone, serverVars
<1>6. ASSUME NEW r \in wire, Late(r) PROVE UNCHANGED known \/ \E u : \E f : Merge(u, f)
  BY <1>6 DEF Late, serverVars
<1> QED BY <1>1, <1>2, <1>3, <1>4, <1>5, <1>6 DEF Next, Going, vars, serverVars

LEMMA MergeKnown ==
  ASSUME TypeInv, KnownInv, NEW u \in Users, NEW f \in Deltas, Merge(u, f)
  PROVE  /\ Grows
         /\ \A x \in Users : Known(x, server[x])'
         /\ \A k \in DOMAIN f : f[k] \in known'[u][k]
<1>1. server' = [server EXCEPT ![u] = Over(f, server[u])]
  BY DEF Merge
<1>2. known' = [known EXCEPT ![u] = [k \in Keys |-> known[u][k] \cup {server'[u][k]}]]
  BY DEF Merge, TypeInv, TypeOK
<1>3. Grows
  BY <1>2 DEF Grows, TypeInv, TypeOK
<1>4. \A k \in Keys : server'[u][k] \in known'[u][k]
  BY <1>2 DEF TypeInv, TypeOK
<1>5. ASSUME NEW x \in Users PROVE Known(x, server[x])'
  <2>1. CASE x = u
    BY <1>4, <2>1 DEF Known
  <2>2. CASE x # u
    BY <1>1, <1>2, <2>2 DEF Known, KnownInv, TypeInv, TypeOK
  <2> QED BY <2>1, <2>2
<1>6. ASSUME NEW k \in DOMAIN f PROVE f[k] \in known'[u][k]
  <2>1. k \in Keys
    BY DeltaElim
  <2>2. server'[u][k] = f[k]
    BY <1>1, <2>1 DEF Over, TypeInv, TypeOK
  <2> QED BY <1>4, <2>1, <2>2
<1> QED BY <1>3, <1>5, <1>6

\* What is known stays known.
LEMMA SameBase ==
  ASSUME TypeInv, KnownInv, Grows, UNCHANGED base PROVE BaseKnown'
BY DEF KnownInv, BaseKnown, Known, Grows

LEMMA SameSync ==
  ASSUME TypeInv, KnownInv, Grows, NEW t \in Tabs, sync'[t] = sync[t] PROVE SyncKnown(t)'
BY DEF TypeInv, SyncOK, KnownInv, SyncKnown, Known, Grows

LEMMA SamePush ==
  ASSUME TypeInv, KnownInv, Grows, NEW t \in Tabs, NEW s \in Pushes, push'[t][s] = push[t][s]
  PROVE  PushKnown(t, s)'
<1> SUFFICES ASSUME push[t][s].st = "answered", NEW k \in DOMAIN push[t][s].delta
             PROVE  push[t][s].delta[k] \in known'[push[t][s].user][k]
  BY DEF PushKnown
<1>1. k \in Keys /\ push[t][s].user \in Users
  BY DeltaElim DEF TypeInv, PushOK
<1> QED BY <1>1 DEF KnownInv, PushKnown, Grows

LEMMA OpenedKnown ==
  ASSUME TypeInv, KnownInv, NEW t \in Tabs, NEW d \in Devices, Opened(t, d),
         UNCHANGED <<serverVars, base>>,
         owner'[d] \in Users \cup {Nothing}, who'[d] \in Users \cup {Nothing}
  PROVE  KnownInv'
<1> DEFINE u == ReadAuth(owner'[d], who'[d])
<1>1. Grows
  BY DEF Grows, serverVars
<1>2. ASSUME NEW x \in Tabs PROVE SyncKnown(x)'
  <2>1. CASE sync'[x] = sync[x]
    BY <1>1, <2>1, SameSync
  <2>2. CASE sync'[x] # sync[x]
    <3>1. x = t
      BY <2>2 DEF Opened, TypeInv
    <3>2. CASE u = Nothing
      BY <3>1, <3>2 DEF Opened, NoSync, SyncKnown, TypeInv
    <3>3. CASE u # Nothing
      <4>1. u \in Users /\ u # Nothing
        BY <3>3, AccountType
      <4>2. sync' = [sync EXCEPT ![t] = Started(d, u, FALSE)]
        BY <3>3 DEF Opened
      <4> HIDE DEF u
      <4>3. sync'[t] = Started(d, u, FALSE)
        BY <4>2 DEF TypeInv
      <4>4. sync'[t].st = "get" /\ sync'[t].user = u /\ sync'[t].prev = base[d][u]
        BY <4>3 DEF Started
      <4>5. base[d][u] \in Profiles => \A k \in Keys : base[d][u][k] \in known'[u][k]
        BY <4>1 DEF KnownInv, BaseKnown, Known, serverVars
      <4> QED BY <3>1, <4>4, <4>5 DEF SyncKnown, Known
    <3> QED BY <3>2, <3>3
  <2> QED BY <2>1, <2>2
<1>3. ASSUME NEW x \in Tabs, NEW s \in Pushes PROVE PushKnown(x, s)'
  <2>1. push'[x][s] \in {push[x][s], NoPush}
    BY DEF Opened, TypeInv
  <2>2. CASE push'[x][s] = NoPush
    BY <2>2 DEF PushKnown, NoPush
  <2> QED BY <1>1, <2>1, <2>2, SamePush
<1> QED BY <1>1, <1>2, <1>3, SameBase DEF KnownInv, Known, serverVars

LEMMA KnownPages ==
  ASSUME TypeInv, TypeInv', KnownInv,
         NEW t \in Tabs, Reload(t) \/ AppStart(t) \/ \E u \in Users : Login(t, u)
  PROVE  KnownInv'
<1> DEFINE d == DeviceOf[t]
<1>0. /\ d \in Devices
      /\ owner'[d] \in Users \cup {Nothing} /\ who'[d] \in Users \cup {Nothing}
  BY PrefsAssumption DEF TypeInv, TypeOK
<1>1. UNCHANGED <<serverVars, base>> /\ Grows
  BY DEF Reload, AppStart, Login, deviceVars, serverVars, Grows
<1>2. CASE Opened(t, d)
  BY <1>0, <1>1, <1>2, OpenedKnown
<1>3. CASE UNCHANGED <<sync, push>>
  BY <1>1, <1>3, SameBase, SameSync, SamePush DEF KnownInv, Known, serverVars
<1>4. ASSUME NEW u \in Users, sync' = [sync EXCEPT ![t] = Started(d, u, TRUE)], UNCHANGED push
      PROVE  KnownInv'
  <2> HIDE DEF d
  <2>1. sync'[t] = Started(d, u, TRUE) /\ \A x \in Tabs \ {t} : sync'[x] = sync[x]
    BY <1>4 DEF TypeInv
  <2>2. base[d][u] \in Profiles => \A k \in Keys : base[d][u][k] \in known'[u][k]
    BY <1>0, <1>1 DEF KnownInv, BaseKnown, Known, serverVars
  <2>3. SyncKnown(t)'
    BY <2>1, <2>2 DEF SyncKnown, Known, Started
  <2> QED BY <1>1, <1>4, <2>1, <2>3, SameBase, SameSync, SamePush DEF KnownInv, Known, serverVars
<1>5. Opened(t, d) \/ UNCHANGED <<sync, push>>
      \/ \E u \in Users : sync' = [sync EXCEPT ![t] = Started(d, u, TRUE)] /\ UNCHANGED push
  BY DEF Reload, AppStart, Login
<1> QED BY <1>2, <1>3, <1>4, <1>5

LEMMA KnownSync ==
  ASSUME TypeInv, TypeInv', KnownInv, EmptyKnown, NEW t \in Tabs, Syncing(t) \/ SyncFail(t)
  PROVE  KnownInv'
<1> DEFINE d == DeviceOf[t]
           s == sync[t]
<1>0. d \in Devices /\ s \in SyncStates /\ (s.st # "none" => s.user \in Users)
  BY PrefsAssumption DEF TypeInv, SyncOK
<1>1. CASE SyncRead(t)
  <2>1. Grows /\ UNCHANGED <<server, known, base, push>>
    BY <1>1 DEF SyncRead, serverVars, deviceVars, Grows
  <2>2. PICK row \in {server[s.user], Untouched} :
          sync' = [sync EXCEPT ![t] = [s EXCEPT !.st = "got", !.got = row]]
    BY <1>1 DEF SyncRead, TypeInv
  <2>3. /\ sync'[t].user = s.user /\ sync'[t].prev = s.prev /\ sync'[t].got = row
        /\ s.st = "get" /\ \A x \in Tabs \ {t} : sync'[x] = sync[x]
    BY <1>0, <1>1, <2>2 DEF SyncRead, TypeInv, SyncStates
  <2>4. Known(s.user, row)
    BY <1>0, <2>3 DEF KnownInv, EmptyKnown, Known, Untouched
  <2>5. SyncKnown(t)'
    BY <1>0, <2>1, <2>3, <2>4 DEF SyncKnown, Known, KnownInv
  <2> QED BY <2>1, <2>3, <2>5, SameBase, SameSync, SamePush DEF KnownInv, Known
<1>2. CASE SyncMerge(t)
  <2> DEFINE kept == Adopted(s.prev, s.got, live[d])
             delta == Sent(s.prev, s.got, live[d])
  <2>1. Grows /\ UNCHANGED <<server, known, push>> /\ s.st = "got" /\ Known(s.user, s.got)
    BY <1>2 DEF SyncMerge, serverVars, Grows, KnownInv, SyncKnown
  <2>2. CASE DOMAIN delta = {}
    <3>1. base' = [base EXCEPT ![d][s.user] = s.got] /\ sync' = [sync EXCEPT ![t] = NoSync]
      BY <1>2, <2>2 DEF SyncMerge, Ended
    <3>2. BaseKnown'
      BY <1>0, <2>1, <3>1 DEF KnownInv, BaseKnown, Known, TypeInv, TypeOK
    <3>3. \A x \in Tabs : SyncKnown(x)'
      BY <2>1, <3>1, SameSync DEF SyncKnown, NoSync, TypeInv
    <3> QED BY <2>1, <3>2, <3>3, SamePush DEF KnownInv, Known
  <2>3. CASE DOMAIN delta # {}
    <3>1. /\ sync' = [sync EXCEPT ![t] = [s EXCEPT !.st = "patch", !.delta = delta,
                                                   !.applied = (kept # live[d])]]
          /\ UNCHANGED base
      BY <1>2, <2>3 DEF SyncMerge, TypeInv
    <3> HIDE DEF kept, delta, d
    <3>2. /\ sync'[t].user = s.user /\ sync'[t].prev = s.prev /\ sync'[t].got = s.got
          /\ \A x \in Tabs \ {t} : sync'[x] = sync[x]
      BY <1>0, <3>1 DEF TypeInv, SyncStates
    <3>3. SyncKnown(t)'
      BY <1>0, <2>1, <3>2 DEF SyncKnown, Known, KnownInv
    <3> QED BY <2>1, <3>1, <3>2, <3>3, SameBase, SameSync, SamePush DEF KnownInv, Known
  <2> QED BY <2>2, <2>3
<1>3. CASE SyncPatch(t)
  <2>1. s.user \in Users /\ s.delta \in Deltas /\ s.st = "patch" /\ UNCHANGED <<base, push>>
    BY <1>3 DEF SyncPatch, TypeInv, SyncOK, deviceVars
  <2>2. Grows /\ \A x \in Users : Known(x, server[x])'
    BY <1>3, <2>1, MergeKnown DEF SyncPatch
  <2>3. sync' = [sync EXCEPT ![t] = [s EXCEPT !.st = "patched", !.got = server'[s.user]]]
    BY <1>3 DEF SyncPatch, TypeInv
  <2>4. /\ sync'[t].user = s.user /\ sync'[t].prev = s.prev /\ sync'[t].got = server'[s.user]
        /\ \A x \in Tabs \ {t} : sync'[x] = sync[x]
    BY <1>0, <2>3 DEF TypeInv, SyncStates
  <2>5. SyncKnown(t)'
    BY <2>1, <2>2, <2>4 DEF SyncKnown, Known, KnownInv, Grows
  <2> QED BY <2>1, <2>2, <2>4, <2>5, SameBase, SameSync, SamePush DEF KnownInv
<1>4. CASE SyncSave(t)
  <2>1. /\ Grows /\ UNCHANGED <<server, known, push>> /\ s.st = "patched"
        /\ Known(s.user, s.got) /\ base' = [base EXCEPT ![d][s.user] = s.got]
        /\ sync' = [sync EXCEPT ![t] = NoSync]
    BY <1>4 DEF SyncSave, Ended, serverVars, Grows, KnownInv, SyncKnown
  <2>2. BaseKnown'
    BY <1>0, <2>1 DEF KnownInv, BaseKnown, Known, TypeInv, TypeOK
  <2>3. \A x \in Tabs : SyncKnown(x)'
    BY <2>1, SameSync DEF SyncKnown, NoSync, TypeInv
  <2> QED BY <2>1, <2>2, <2>3, SamePush DEF KnownInv, Known
<1>5. CASE SyncFail(t)
  <2>1. /\ Grows /\ UNCHANGED <<server, known, push, base>>
        /\ sync' = [sync EXCEPT ![t] = NoSync]
    BY <1>5 DEF SyncFail, Ended, serverVars, deviceVars, Grows
  <2>2. \A x \in Tabs : SyncKnown(x)'
    BY <2>1, SameSync DEF SyncKnown, NoSync, TypeInv
  <2> QED BY <2>1, <2>2, SameBase, SamePush DEF KnownInv, Known
<1> QED BY <1>1, <1>2, <1>3, <1>4, <1>5 DEF Syncing

LEMMA KnownPush ==
  ASSUME TypeInv, TypeInv', KnownInv, NEW t \in Tabs, NEW s \in Pushes,
         \/ \E hidden \in BOOLEAN : PushStart(t, s, hidden)
         \/ PushPatch(t, s) \/ PushDone(t, s) \/ PushFail(t, s)
  PROVE  KnownInv'
<1> DEFINE d == DeviceOf[t]
           p == push[t][s]
<1>0. d \in Devices /\ p \in PushStates
  BY PrefsAssumption DEF TypeInv
<1>1. ASSUME NEW hidden \in BOOLEAN, PushStart(t, s, hidden) PROVE KnownInv'
  <2>1. Grows /\ UNCHANGED <<server, known, sync, base>>
    BY <1>1 DEF PushStart, serverVars, deviceVars, Grows
  <2>2. ASSUME NEW x \in Tabs, NEW y \in Pushes PROVE PushKnown(x, y)'
    <3>1. push'[x][y] = push[x][y] \/ push'[x][y].st = "sent"
      BY <1>1 DEF PushStart, Pushed, TypeInv
    <3> QED BY <2>1, <3>1, SamePush DEF PushKnown
  <2> QED BY <2>1, <2>2, SameBase, SameSync DEF KnownInv, Known
<1>2. CASE PushPatch(t, s)
  <2>1. p.user \in Users /\ p.delta \in Deltas /\ UNCHANGED <<base, sync>>
    BY <1>2 DEF PushPatch, TypeInv, PushOK, deviceVars
  <2>2. /\ Grows /\ \A x \in Users : Known(x, server[x])'
        /\ \A k \in DOMAIN p.delta : p.delta[k] \in known'[p.user][k]
    BY <1>2, <2>1, MergeKnown DEF PushPatch
  <2>3. push' = [push EXCEPT ![t][s] = [p EXCEPT !.st = "answered"]]
    BY <1>2 DEF PushPatch, TypeInv
  <2>4. ASSUME NEW x \in Tabs, NEW y \in Pushes PROVE PushKnown(x, y)'
    <3>1. CASE x = t /\ y = s
      <4>1. push'[x][y].user = p.user /\ push'[x][y].delta = p.delta
        BY <1>0, <2>3, <3>1 DEF TypeInv, PushStates
      <4> QED BY <2>2, <4>1 DEF PushKnown
    <3>2. CASE ~(x = t /\ y = s)
      <4>1. push'[x][y] = push[x][y]
        BY <2>3, <3>2 DEF TypeInv
      <4> QED BY <2>2, <4>1, SamePush
    <3> QED BY <3>1, <3>2
  <2> QED BY <2>1, <2>2, <2>4, SameBase, SameSync DEF KnownInv
<1>3. CASE PushDone(t, s)
  <2>1. /\ p.user \in Users /\ p.delta \in Deltas /\ base[d][p.user] \in Profiles
        /\ p.st = "answered"
    BY <1>3 DEF PushDone, TypeInv, PushOK
  <2>2. base' = [base EXCEPT ![d][p.user] = Over(p.delta, base[d][p.user])]
    BY <1>0, <1>3, <2>1 DEF PushDone, TypeInv, TypeOK
  <2>3. Grows /\ UNCHANGED <<server, known, sync>> /\ push' = [push EXCEPT ![t][s] = NoPush]
    BY <1>3 DEF PushDone, serverVars, Grows
  <2>4. ASSUME NEW k \in Keys PROVE Over(p.delta, base[d][p.user])[k] \in known[p.user][k]
    <3>1. k \in DOMAIN p.delta => p.delta[k] \in known[p.user][k]
      BY <2>1 DEF KnownInv, PushKnown
    <3>2. base[d][p.user][k] \in known[p.user][k]
      BY <1>0, <2>1 DEF KnownInv, BaseKnown, Known
    <3> QED BY <3>1, <3>2 DEF Over
  <2>5. BaseKnown'
    <3>1. ASSUME NEW x \in Devices, NEW u \in Users, base'[x][u] \in Profiles
          PROVE  \A k \in Keys : base'[x][u][k] \in known[u][k]
      <4>1. CASE x = d /\ u = p.user
        <5>1. base'[x][u] = Over(p.delta, base[d][p.user])
          BY <1>0, <2>1, <2>2, <4>1 DEF TypeInv, TypeOK
        <5> QED BY <2>4, <4>1, <5>1
      <4>2. CASE ~(x = d /\ u = p.user)
        <5>1. base'[x][u] = base[x][u]
          BY <2>2, <4>2 DEF TypeInv, TypeOK
        <5> QED BY <3>1, <5>1 DEF KnownInv, BaseKnown, Known
      <4> QED BY <4>1, <4>2
    <3> QED BY <2>3, <3>1 DEF BaseKnown, Known
  <2>6. ASSUME NEW x \in Tabs, NEW y \in Pushes PROVE PushKnown(x, y)'
    <3>1. push'[x][y] \in {push[x][y], NoPush}
      BY <2>3 DEF TypeInv
    <3> QED BY <2>3, <3>1, SamePush DEF PushKnown, NoPush
  <2> QED BY <2>3, <2>5, <2>6, SameSync DEF KnownInv, Known
<1>4. CASE PushFail(t, s)
  <2>1. /\ Grows /\ UNCHANGED <<server, known, sync, base>>
        /\ push' = [push EXCEPT ![t][s] = NoPush]
    BY <1>4 DEF PushFail, serverVars, deviceVars, Grows
  <2>2. ASSUME NEW x \in Tabs, NEW y \in Pushes PROVE PushKnown(x, y)'
    <3>1. push'[x][y] \in {push[x][y], NoPush}
      BY <2>1 DEF TypeInv
    <3> QED BY <2>1, <3>1, SamePush DEF PushKnown, NoPush
  <2> QED BY <2>1, <2>2, SameBase, SameSync DEF KnownInv, Known
<1> QED BY <1>1, <1>2, <1>3, <1>4

LEMMA KnownRest ==
  ASSUME TypeInv, TypeInv', KnownInv,
         \/ \E t \in Tabs : Logout(t) \/ \E k \in Keys : Edit(t, k)
         \/ \E r \in wire : Late(r)
         \/ UNCHANGED vars
  PROVE  KnownInv'
<1>1. ASSUME NEW t \in Tabs, Logout(t) PROVE KnownInv'
  <2>1. Grows /\ UNCHANGED <<server, known, sync, base>>
    BY <1>1 DEF Logout, serverVars, Grows
  <2>2. ASSUME NEW x \in Tabs, NEW y \in Pushes PROVE PushKnown(x, y)'
    <3>1. push'[x][y] = push[x][y] \/ push'[x][y].st = "sent"
      BY <1>1 DEF Logout, Pushed, TypeInv
    <3> QED BY <2>1, <3>1, SamePush DEF PushKnown
  <2> QED BY <2>1, <2>2, SameBase, SameSync DEF KnownInv, Known
<1>2. ASSUME NEW t \in Tabs, NEW k \in Keys, Edit(t, k) PROVE KnownInv'
  <2>1. Grows /\ UNCHANGED <<server, known, sync, base, push>>
    BY <1>2 DEF Edit, serverVars, Grows
  <2> QED BY <2>1, SameBase, SameSync, SamePush DEF KnownInv, Known
<1>3. ASSUME NEW r \in wire, Late(r) PROVE KnownInv'
  <2>1. Grows /\ UNCHANGED <<sync, base, push>> /\ \A x \in Users : Known(x, server[x])'
    <3>1. UNCHANGED <<sync, base, push>>
      BY <1>3 DEF Late, deviceVars
    <3>2. CASE Merge(r.user, r.delta)
      BY <3>1, <3>2, MergeKnown DEF TypeInv, Requests
    <3>3. CASE UNCHANGED serverVars
      BY <3>1, <3>3 DEF serverVars, Grows, KnownInv, Known
    <3> QED BY <1>3, <3>2, <3>3 DEF Late
  <2> QED BY <2>1, SameBase, SameSync, SamePush DEF KnownInv
<1>4. CASE UNCHANGED vars
  <2>1. Grows /\ UNCHANGED <<server, known, sync, base, push>>
    BY <1>4 DEF vars, serverVars, deviceVars, Grows
  <2> QED BY <2>1, SameBase, SameSync, SamePush DEF KnownInv, Known
<1> QED BY <1>1, <1>2, <1>3, <1>4

LEMMA KnownInit == Init => KnownInv /\ EmptyKnown
<1> SUFFICES ASSUME Init PROVE KnownInv /\ EmptyKnown
  OBVIOUS
<1>1. ASSUME NEW d \in Devices, NEW u \in Users, base[d][u] \in Profiles
      PROVE  Known(u, base[d][u])
  BY <1>1, NothingAssumption DEF Init
<1> QED BY <1>1 DEF Init, KnownInv, EmptyKnown, BaseKnown, SyncKnown, PushKnown, Known, Untouched,
              NoSync, NoPush

LEMMA KnownStep == TypeInv /\ KnownInv /\ EmptyKnown /\ [Next]_vars => KnownInv' /\ EmptyKnown'
<1> SUFFICES ASSUME TypeInv, KnownInv, EmptyKnown, [Next]_vars PROVE KnownInv' /\ EmptyKnown'
  OBVIOUS
<1>0. TypeInv'
  BY TypeStep
<1>1. ASSUME NEW t \in Tabs, Reload(t) \/ Going(t) \/ Acting(t) \/ Failing(t) PROVE KnownInv'
  BY <1>0, <1>1, KnownPages, KnownSync, KnownPush, KnownRest DEF Going, Pushing, Acting, Failing
<1> QED BY <1>0, <1>1, KnownRest, EmptyStep DEF Next

\* A base holds only what the server has held.
THEOREM BasesAreKnown == Spec => []BaseWasOnServer
<1>1. Init => TypeInv /\ KnownInv /\ EmptyKnown
  BY TypeInit, KnownInit
<1>2. TypeInv /\ KnownInv /\ EmptyKnown /\ [Next]_vars => TypeInv' /\ KnownInv' /\ EmptyKnown'
  BY TypeStep, KnownStep
<1>3. TypeInv /\ KnownInv => BaseWasOnServer
  BY DEF TypeInv, TypeOK, KnownInv, BaseKnown, Known, BaseWasOnServer
<1> QED BY <1>1, <1>2, <1>3, PTL DEF Spec

-----------------------------------------------------------------------------
(* One tab on each device: a sync runs for the profile that lies there.    *)
(* (With two tabs it need not: see the README.)                            *)

OneTabPerDevice == \A t, x \in Tabs : DeviceOf[t] = DeviceOf[x] => t = x

\* As long as no change of profiles has failed there, a sync runs for the owner
\* of the settings, and who works is their owner.
PlaceInv ==
  \A t \in Tabs :
    /\ DeviceOf[t] \notin failed =>
         /\ sync[t].st # "none" => owner[DeviceOf[t]] = sync[t].user
         /\ page[t] = "up" => who[DeviceOf[t]] \in {Nothing, owner[DeviceOf[t]]}
    /\ page[t] = "starting" => sync[t].st = "none"

LEMMA OpenedPlace ==
  ASSUME TypeInv, TypeInv', NEW t \in Tabs, Opened(t, DeviceOf[t])
  PROVE  /\ DeviceOf[t] \notin failed' /\ sync'[t].st # "none" => owner'[DeviceOf[t]] = sync'[t].user
         /\ page'[t] = "starting" => sync'[t].st = "none"
         /\ page'[t] # "up"
         /\ \A x \in Tabs \ {t} : sync'[x] = sync[x] /\ page'[x] = page[x]
<1> DEFINE d == DeviceOf[t]
           u == ReadAuth(owner'[d], who'[d])
<1>0. d \in Devices
  BY PrefsAssumption
<1>1. CASE u = Nothing
  BY <1>1 DEF Opened, NoSync, TypeInv, TypeOK
<1>2. CASE u # Nothing
  <2>1. owner'[d] \in {Nothing, who'[d]} /\ u = who'[d]
    BY <1>2 DEF ReadAuth
  <2>2. d \notin failed' => owner'[d] = u
    BY <1>0, <1>2, <2>1 DEF TypeInv, Owned
  <2>3. sync' = [sync EXCEPT ![t] = Started(d, u, FALSE)] /\ page' = [page EXCEPT ![t] = "booting"]
    BY <1>2 DEF Opened
  <2>4. sync'[t].user = u /\ page'[t] = "booting"
    BY <2>3 DEF Started, TypeInv, TypeOK
  <2> QED BY <2>2, <2>3, <2>4 DEF TypeInv, TypeOK
<1> QED BY <1>1, <1>2

\* A change of profiles concerns one device.
LEMMA ActivateElsewhere ==
  ASSUME OneTabPerDevice, TypeInv, NEW t \in Tabs, NEW u \in Users, NEW ok \in BOOLEAN,
         Activate(DeviceOf[t], u, ok), NEW x \in Tabs \ {t}
  PROVE  /\ DeviceOf[x] # DeviceOf[t] /\ owner'[DeviceOf[x]] = owner[DeviceOf[x]]
         /\ DeviceOf[x] \in failed' <=> DeviceOf[x] \in failed
<1>1. DeviceOf[x] \in Devices /\ DeviceOf[x] # DeviceOf[t]
  BY PrefsAssumption DEF OneTabPerDevice
<1> QED BY <1>1 DEF Activate, TypeInv, TypeOK

LEMMA PlaceStep ==
  ASSUME OneTabPerDevice, TypeInv, TypeInv', PlaceInv, [Next]_vars
  PROVE  PlaceInv'
<1>1. ASSUME NEW t \in Tabs, Reload(t) PROVE PlaceInv'
  BY <1>1, OpenedPlace DEF Reload, deviceVars, PlaceInv
<1>2. ASSUME NEW t \in Tabs, AppStart(t) PROVE PlaceInv'
  <2> DEFINE d == DeviceOf[t]
  <2>1. /\ sync[t].st = "none" /\ UNCHANGED <<sync, who>>
        /\ page'[t] \in {"up", "leaving"} /\ \A x \in Tabs \ {t} : page'[x] = page[x]
    BY <1>2 DEF AppStart, PlaceInv, TypeInv, TypeOK
  <2>2. CASE who[d] = Nothing
    BY <1>2, <2>1, <2>2 DEF AppStart, PlaceInv
  <2>3. CASE who[d] # Nothing
    <3>1. who[d] \in Users /\ d \in Devices
      BY <2>3, PrefsAssumption DEF TypeInv, TypeOK
    <3>2. PICK ok \in BOOLEAN : Activate(d, who[d], ok)
      BY <1>2, <2>3 DEF AppStart
    <3>3. d \notin failed' => owner'[d] = who[d]
      BY <3>1, <3>2, ActivateTypes
    <3>4. ASSUME NEW x \in Tabs \ {t}
          PROVE  /\ owner'[DeviceOf[x]] = owner[DeviceOf[x]]
                 /\ DeviceOf[x] \in failed' <=> DeviceOf[x] \in failed
      BY <3>1, <3>2, ActivateElsewhere
    <3> QED BY <2>1, <3>3, <3>4 DEF PlaceInv
  <2> QED BY <2>2, <2>3
<1>3. ASSUME NEW t \in Tabs, NEW u \in Users, Login(t, u) PROVE PlaceInv'
  <2> DEFINE d == DeviceOf[t]
  <2>1. PICK ok \in BOOLEAN :
          /\ Activate(d, u, ok)
          /\ IF Switches(d, u, ok)
               THEN Opened(t, d)
               ELSE /\ sync' = IF ReadAuth(owner'[d], u) = Nothing
                                 THEN sync ELSE [sync EXCEPT ![t] = Started(d, u, TRUE)]
                    /\ UNCHANGED <<page, push, pushing, wire>>
    BY <1>3 DEF Login
  <2>2. ASSUME NEW x \in Tabs \ {t}
        PROVE  /\ owner'[DeviceOf[x]] = owner[DeviceOf[x]] /\ who'[DeviceOf[x]] = who[DeviceOf[x]]
               /\ DeviceOf[x] \in failed' <=> DeviceOf[x] \in failed
    BY <1>3, <2>1, ActivateElsewhere DEF Login, TypeInv, TypeOK
  <2>3. /\ d \in Devices /\ who'[d] = u /\ page[t] = "up" /\ sync[t].st = "none"
        /\ d \notin failed' => owner'[d] = u
    BY <1>3, <2>1, PrefsAssumption, ActivateTypes DEF Login, TypeInv, TypeOK
  <2>4. CASE Switches(d, u, ok)
    BY <2>1, <2>2, <2>3, <2>4, OpenedPlace DEF PlaceInv
  <2>5. CASE ~Switches(d, u, ok)
    <3>1. UNCHANGED page /\ (sync' = sync \/ sync' = [sync EXCEPT ![t] = Started(d, u, TRUE)])
      BY <2>1, <2>5
    <3>2. \A x \in Tabs \ {t} : sync'[x] = sync[x]
      BY <3>1 DEF TypeInv
    <3>3. sync'[t].st # "none" => sync'[t].user = u
      BY <2>3, <3>1 DEF Started, TypeInv
    <3> QED BY <2>2, <2>3, <3>1, <3>2, <3>3 DEF PlaceInv
  <2> QED BY <2>4, <2>5
<1>4. ASSUME NEW t \in Tabs, Syncing(t) \/ SyncFail(t) PROVE PlaceInv'
  <2>1. UNCHANGED <<owner, who, failed>>
    BY <1>4 DEF Syncing, SyncRead, SyncMerge, SyncPatch, SyncSave, SyncFail, deviceVars
  <2>2. sync[t].st # "none" /\ \A x \in Tabs \ {t} : sync'[x] = sync[x] /\ page'[x] = page[x]
    BY <1>4 DEF Syncing, SyncRead, SyncMerge, SyncPatch, SyncSave, SyncFail, Ended, TypeInv, TypeOK
  <2>3. \/ sync'[t].st = "none" /\ page'[t] \in {"starting", "leaving", page[t]}
        \/ sync'[t].user = sync[t].user /\ UNCHANGED page
    <3>1. CASE \E b \in BOOLEAN : Ended(t, b)
      BY <3>1 DEF Ended, NoSync, TypeInv, TypeOK
    <3>2. CASE SyncRead(t) \/ SyncPatch(t)
      BY <3>2 DEF SyncRead, SyncPatch, TypeInv, SyncStates
    <3>3. CASE SyncMerge(t) /\ UNCHANGED page
      BY <3>3 DEF SyncMerge, Ended, NoSync, TypeInv, SyncStates
    <3> QED BY <1>4, <3>1, <3>2, <3>3 DEF Syncing, SyncMerge, SyncSave, SyncFail, TypeInv, SyncStates
  <2> QED BY <2>1, <2>2, <2>3 DEF PlaceInv
<1>5. CASE UNCHANGED <<owner, who, failed, sync, page>>
  BY <1>5 DEF PlaceInv
<1>6. ASSUME NEW t \in Tabs, Pushing(t) \/ (\E k \in Keys : Edit(t, k))
                             \/ \E s \in Pushes : PushFail(t, s)
      PROVE  UNCHANGED <<owner, who, failed, sync, page>>
  BY <1>6 DEF Pushing, PushStart, PushPatch, PushDone, PushFail, Edit, deviceVars
<1>7. ASSUME NEW r \in wire, Late(r) PROVE UNCHANGED <<owner, who, failed, sync, page>>
  BY <1>7 DEF Late, deviceVars
<1>8. ASSUME NEW t \in Tabs, Logout(t) PROVE PlaceInv'
  <2>1. UNCHANGED <<owner, failed, sync, page>>
    BY <1>8 DEF Logout
  <2>2. \A x \in Tabs : who'[DeviceOf[x]] \in {Nothing, who[DeviceOf[x]]}
    BY <1>8, PrefsAssumption DEF Logout, TypeInv, TypeOK
  <2> QED BY <2>1, <2>2 DEF PlaceInv
<1> QED BY <1>1, <1>2, <1>3, <1>4, <1>5, <1>6, <1>7, <1>8
        DEF Next, Going, Acting, Failing, vars, deviceVars

\* A change of profiles that has not failed: on its device the settings of two
\* accounts trade places, if they do.
LEMMA ActivateDone ==
  ASSUME TypeInv, NEW d \in Devices, NEW u \in Users, NEW ok \in BOOLEAN, Activate(d, u, ok),
         NEW x \in Devices \ failed'
  PROVE  \/ /\ owner'[x] = owner[x] \/ (x = d /\ owner[x] = Nothing /\ owner'[x] = u)
            /\ archive'[x] = archive[x] /\ live'[x] = live[x]
         \/ /\ x = d /\ owner[x] \in Users \ {u} /\ owner'[x] = u
            /\ archive'[x] = [archive[x] EXCEPT ![owner[x]] = live[x], ![u] = Nothing]
            /\ live'[x] = Archived(d, u)
<1>1. CASE x # d
  <2>1. owner'[x] = owner[x]
    BY <1>1 DEF Activate, TypeInv, TypeOK
  <2>2. archive'[x] = archive[x] /\ live'[x] = live[x]
    BY <1>1 DEF Activate, Replaces, TypeInv, TypeOK
  <2> QED BY <2>1, <2>2
<1>2. CASE x = d
  <2>1. ok /\ owner' = [owner EXCEPT ![d] = u]
    BY <1>2 DEF Activate
  <2>2. CASE Foreign(d, u)
    <3>1. Replaces(d, u, Nothing, Archived(d, u))
      BY <2>1, <2>2 DEF Activate, Switches
    <3>2. owner[d] \in Users \ {u} /\ owner'[d] = u
      BY <2>1, <2>2 DEF Foreign, TypeInv, TypeOK
    <3>3. archive'[d] = [archive[d] EXCEPT ![owner[d]] = live[d], ![u] = Nothing]
      BY <3>1, <3>2 DEF Replaces, TypeInv, TypeOK
    <3>4. live'[d] = Archived(d, u)
      BY <3>1 DEF Replaces, TypeInv, TypeOK
    <3> QED BY <1>2, <3>2, <3>3, <3>4
  <2>3. CASE ~Foreign(d, u)
    <3>1. UNCHANGED <<archive, live>>
      BY <2>1, <2>3 DEF Activate, Switches
    <3> QED BY <1>2, <2>1, <2>3, <3>1 DEF Foreign, TypeInv, TypeOK
  <2> QED BY <2>2, <2>3
<1> QED BY <1>1, <1>2

\* What changes an archive is a change of profiles.
LEMMA ProfileSteps ==
  ASSUME TypeInv, [Next]_vars
  PROVE  \/ UNCHANGED <<archive, owner, failed>>
         \/ \E t \in Tabs, u \in Users, ok \in BOOLEAN : Activate(DeviceOf[t], u, ok)
<1>1. ASSUME NEW t \in Tabs, AppStart(t)
      PROVE  \/ UNCHANGED <<archive, owner, failed>>
             \/ \E u \in Users, ok \in BOOLEAN : Activate(DeviceOf[t], u, ok)
  <2>1. CASE who[DeviceOf[t]] = Nothing
    BY <1>1, <2>1 DEF AppStart
  <2>2. CASE who[DeviceOf[t]] # Nothing
    <3>1. who[DeviceOf[t]] \in Users
      BY <2>2, PrefsAssumption DEF TypeInv, TypeOK
    <3> QED BY <1>1, <2>2, <3>1 DEF AppStart
  <2> QED BY <2>1, <2>2
<1>2. ASSUME NEW t \in Tabs, NEW u \in Users, Login(t, u)
      PROVE  \E ok \in BOOLEAN : Activate(DeviceOf[t], u, ok)
  BY <1>2 DEF Login
<1>3. ASSUME NEW t \in Tabs, Syncing(t) \/ Failing(t) PROVE UNCHANGED <<archive, owner, failed>>
  BY <1>3 DEF Syncing, SyncRead, SyncMerge, SyncPatch, SyncSave, Failing, SyncFail, PushFail,
              deviceVars
<1>4. ASSUME NEW t \in Tabs, Reload(t) \/ Pushing(t) \/ Logout(t) \/ \E k \in Keys : Edit(t, k)
      PROVE  UNCHANGED <<archive, owner, failed>>
  BY <1>4 DEF Reload, Pushing, PushStart, PushPatch, PushDone, Logout, Edit, deviceVars
<1>5. ASSUME NEW r \in wire, Late(r) PROVE UNCHANGED <<archive, owner, failed>>
  BY <1>5 DEF Late, deviceVars
<1> QED BY <1>1, <1>2, <1>3, <1>4, <1>5 DEF Next, Going, Acting, vars, deviceVars

\* Who owns the settings that lie there has no others in an archive.
ArchiveInv ==
  \A d \in Devices \ failed, u \in Users : owner[d] \in {Nothing, u} => archive[d][u] = Nothing

LEMMA ArchiveStep == ASSUME TypeInv, ArchiveInv, [Next]_vars PROVE ArchiveInv'
<1>1. CASE UNCHANGED <<archive, owner, failed>>
  BY <1>1 DEF ArchiveInv
<1>2. ASSUME NEW t \in Tabs, NEW u \in Users, NEW ok \in BOOLEAN, Activate(DeviceOf[t], u, ok)
      PROVE  ArchiveInv'
  <2> DEFINE d == DeviceOf[t]
  <2>1. d \in Devices
    BY PrefsAssumption
  <2>2. failed \subseteq failed'
    BY <1>2, <2>1, ActivateTypes
  <2> SUFFICES ASSUME NEW x \in Devices \ failed', NEW w \in Users, owner'[x] \in {Nothing, w}
               PROVE  archive'[x][w] = Nothing
    BY DEF ArchiveInv
  <2>3. x \in Devices \ failed
    BY <2>2
  <2> HIDE DEF d
  <2>4. CASE (owner'[x] = owner[x] \/ owner[x] = Nothing) /\ archive'[x] = archive[x]
    BY <2>3, <2>4 DEF ArchiveInv
  <2>5. CASE /\ x = d /\ owner'[x] = u
             /\ archive'[x] = [archive[x] EXCEPT ![owner[x]] = live[x], ![u] = Nothing]
    BY <2>5, PrefsAssumption DEF TypeInv, TypeOK
  <2> QED BY <1>2, <2>1, <2>4, <2>5, ActivateDone DEF d
<1> QED BY <1>1, <1>2, ProfileSteps

\* What lies in an archive leaves it back to its account.
LEMMA ArchivesStep ==
  ASSUME TypeInv, ArchiveInv, [Next]_vars, NEW d \in Devices \ failed', NEW u \in Users,
         archive[d][u] \notin {Nothing, archive'[d][u]}
  PROVE  owner'[d] = u /\ live'[d] = archive[d][u]
<1>1. PICK t \in Tabs, w \in Users, ok \in BOOLEAN : Activate(DeviceOf[t], w, ok)
  BY ProfileSteps
<1>2. DeviceOf[t] \in Devices
  BY PrefsAssumption
<1>3. d \in Devices \ failed
  BY <1>1, <1>2, ActivateTypes
<1>4. /\ d = DeviceOf[t] /\ owner[d] \in Users \ {w} /\ owner'[d] = w
      /\ archive'[d] = [archive[d] EXCEPT ![owner[d]] = live[d], ![w] = Nothing]
      /\ live'[d] = Archived(d, w)
  BY <1>1, <1>2, ActivateDone
<1>5. u # owner[d]
  BY <1>3 DEF ArchiveInv
<1>6. u = w
  BY <1>4, <1>5 DEF TypeInv, TypeOK
<1> QED BY <1>4, <1>6 DEF Archived

LEMMA SurvivesStep ==
  ASSUME TypeInv, KnownInv, PlaceInv, [Next]_vars, NEW d \in Devices \ failed', NEW k \in Keys,
         live'[d][k] # live[d][k]
  PROVE  Kept(d, k)
<1> SUFFICES ASSUME UNCHANGED edits,
                    ~ \E t \in Tabs : DeviceOf[t] = d /\ sync[t].st = "got" /\ sync[t].prev = Nothing
             PROVE  \/ archive'[d][owner[d]] = live[d]
                    \/ live[d][k] \in known[owner[d]][k]
  BY DEF Kept
<1>1. ASSUME NEW t \in Tabs, NEW u \in Users, NEW ok \in BOOLEAN, Activate(DeviceOf[t], u, ok)
      PROVE  archive'[d][owner[d]] = live[d]
  <2>1. DeviceOf[t] \in Devices
    BY PrefsAssumption
  <2>2. /\ owner[d] \in Users \ {u}
        /\ archive'[d] = [archive[d] EXCEPT ![owner[d]] = live[d], ![u] = Nothing]
    BY <1>1, <2>1, ActivateDone
  <2> QED BY <2>2 DEF TypeInv, TypeOK
<1>2. ASSUME NEW t \in Tabs, SyncMerge(t) PROVE live[d][k] \in known[owner[d]][k]
  <2> DEFINE s == sync[t]
  <2>1. d = DeviceOf[t] /\ live'[d] = Adopted(s.prev, s.got, live[d]) /\ s.st = "got"
        /\ d \notin failed
    BY <1>2 DEF SyncMerge, TypeInv, TypeOK
  <2>2. s.prev # Nothing /\ s.prev \in Profiles
    BY <2>1 DEF TypeInv, SyncStates
  <2>3. live[d][k] = s.prev[k]
    BY <2>1, <2>2 DEF Adopted, Changed
  <2>4. owner[d] = s.user /\ s.prev[k] \in known[s.user][k]
    BY <2>1, <2>2 DEF PlaceInv, KnownInv, SyncKnown, Known
  <2> QED BY <2>3, <2>4
<1>3. ASSUME NEW t \in Tabs, AppStart(t) PROVE archive'[d][owner[d]] = live[d]
  <2>1. who[DeviceOf[t]] # Nothing
    BY <1>3 DEF AppStart
  <2> QED BY <1>1, <1>3, <2>1, PrefsAssumption DEF AppStart, TypeInv, TypeOK
<1>4. ASSUME NEW t \in Tabs, NEW u \in Users, Login(t, u) PROVE archive'[d][owner[d]] = live[d]
  BY <1>1, <1>4 DEF Login
<1>5. ASSUME NEW t \in Tabs, NEW x \in Keys, Edit(t, x) PROVE FALSE
  BY <1>5 DEF Edit, TypeInv, TypeOK
<1>6. live' # live
  OBVIOUS
<1>7. ASSUME NEW t \in Tabs, Reload(t) \/ Pushing(t) \/ Logout(t) \/ Failing(t)
                             \/ SyncRead(t) \/ SyncPatch(t) \/ SyncSave(t)
      PROVE  UNCHANGED live
  BY <1>7 DEF Reload, Pushing, PushStart, PushPatch, PushDone, PushFail, Logout, Failing, SyncRead,
              SyncPatch, SyncSave, SyncFail, deviceVars
<1>8. ASSUME NEW r \in wire, Late(r) PROVE UNCHANGED live
  BY <1>8 DEF Late, deviceVars
<1> QED BY <1>2, <1>3, <1>4, <1>5, <1>6, <1>7, <1>8
        DEF Next, Going, Syncing, Acting, vars, deviceVars

LEMMA PlaceInit == Init => PlaceInv /\ ArchiveInv
BY PrefsAssumption DEF Init, PlaceInv, ArchiveInv, NoSync

\* Nothing a user changes while a sync or a push runs, or before others use the
\* browser, is lost unsent, where activateProfile has not thrown.
THEOREM ChangesSurvive == ASSUME OneTabPerDevice PROVE Spec => UnsentChangesSurvive
<1> DEFINE Inv == TypeInv /\ KnownInv /\ EmptyKnown /\ PlaceInv /\ ArchiveInv
<1>1. Init => Inv
  BY TypeInit, KnownInit, PlaceInit
<1>2. Inv /\ [Next]_vars => Inv'
  BY TypeStep, KnownStep, PlaceStep, ArchiveStep
<1>3. Inv /\ [Next]_vars =>
        [\A d \in Devices \ failed' :
           /\ \A k \in Keys : live'[d][k] # live[d][k] => Kept(d, k)
           /\ \A u \in Users :
                archive[d][u] \notin {Nothing, archive'[d][u]} =>
                  owner'[d] = u /\ live'[d] = archive[d][u]]_vars
  BY SurvivesStep, ArchivesStep
<1> QED BY <1>1, <1>2, <1>3, PTL DEF Spec, UnsentChangesSurvive

-----------------------------------------------------------------------------
(* Whose values lie where, as long as no change of profiles has failed.    *)

Mine(u, p) == \A k \in Keys : p[k].by \in {u, Nothing}
MineDelta(u, f) == \A k \in DOMAIN f : f[k].by \in {u, Nothing}

SyncMine(t) ==
  /\ sync[t].st \in {"got", "patch", "patched"} => Mine(sync[t].user, sync[t].got)
  /\ sync[t].st = "patch" => MineDelta(sync[t].user, sync[t].delta)
PushMine(t, s) == push[t][s].st # "none" => MineDelta(push[t][s].user, push[t][s].delta)

MineInv ==
  /\ \A u \in Users : Mine(u, server[u])
  /\ \A d \in Devices : Mine(owner[d], live[d])
  /\ \A d \in Devices, u \in Users : archive[d][u] \in Profiles => Mine(u, archive[d][u])
  /\ \A t \in Tabs : SyncMine(t)
  /\ \A t \in Tabs, s \in Pushes : PushMine(t, s)
  /\ \A r \in wire : MineDelta(r.user, r.delta)

LEMMA OverMine ==
  ASSUME NEW u \in Users, NEW f \in Deltas, NEW p \in Profiles, MineDelta(u, f), Mine(u, p)
  PROVE  Mine(u, Over(f, p))
BY DEF Mine, MineDelta, Over

LEMMA MergeMine ==
  ASSUME TypeInv, MineInv, NEW u \in Users, NEW f \in Deltas, MineDelta(u, f), Merge(u, f)
  PROVE  \A x \in Users : Mine(x, server'[x])
<1>1. server' = [server EXCEPT ![u] = Over(f, server[u])]
  BY DEF Merge
<1>2. Mine(u, Over(f, server[u]))
  BY OverMine DEF TypeInv, TypeOK, MineInv
<1> QED BY <1>1, <1>2 DEF TypeInv, TypeOK, MineInv

LEMMA ActivateMine ==
  ASSUME TypeInv, MineInv, NEW d \in Devices, NEW u \in Users, NEW ok \in BOOLEAN,
         Activate(d, u, ok), failed' = {}
  PROVE  /\ \A x \in Devices : Mine(owner'[x], live'[x])
         /\ \A x \in Devices, y \in Users : archive'[x][y] \in Profiles => Mine(y, archive'[x][y])
<1>1. ASSUME NEW x \in Devices
      PROVE  /\ Mine(owner'[x], live'[x])
             /\ \A y \in Users : archive'[x][y] \in Profiles => Mine(y, archive'[x][y])
  <2>1. CASE /\ owner'[x] = owner[x] \/ owner[x] = Nothing
             /\ archive'[x] = archive[x] /\ live'[x] = live[x]
    BY <2>1 DEF MineInv, Mine
  <2>2. CASE /\ x = d /\ owner[x] \in Users \ {u} /\ owner'[x] = u
             /\ archive'[x] = [archive[x] EXCEPT ![owner[x]] = live[x], ![u] = Nothing]
             /\ live'[x] = Archived(d, u)
    <3>1. Mine(u, Archived(d, u))
      <4>1. CASE archive[d][u] = Nothing
        BY <4>1 DEF Archived, Mine, Untouched, Absent
      <4>2. CASE archive[d][u] # Nothing
        BY <4>2 DEF Archived, TypeInv, TypeOK, MineInv
      <4> QED BY <4>1, <4>2
    <3>2. ASSUME NEW y \in Users, archive'[x][y] \in Profiles PROVE Mine(y, archive'[x][y])
      <4>1. \/ archive'[x][y] \in {archive[x][y], Nothing}
            \/ y = owner[x] /\ archive'[x][y] = live[x]
        BY <2>2 DEF TypeInv, TypeOK
      <4> QED BY <3>2, <4>1, NothingAssumption DEF MineInv
    <3> QED BY <2>2, <3>1, <3>2
  <2> QED BY <2>1, <2>2, ActivateDone
<1> QED BY <1>1

LEMMA OpenedMine ==
  ASSUME TypeInv, MineInv, NEW t \in Tabs, NEW d \in Devices, Opened(t, d)
  PROVE  /\ \A x \in Tabs : SyncMine(x)'
         /\ \A x \in Tabs, s \in Pushes : PushMine(x, s)'
         /\ \A r \in wire' : MineDelta(r.user, r.delta)
<1>1. ASSUME NEW x \in Tabs PROVE SyncMine(x)'
  <2>1. sync'[x] = sync[x] \/ sync'[x].st \in {"none", "get"}
    BY DEF Opened, NoSync, Started, TypeInv
  <2> QED BY <2>1 DEF MineInv, SyncMine
<1>2. ASSUME NEW x \in Tabs, NEW s \in Pushes PROVE PushMine(x, s)'
  <2>1. push'[x][s] \in {push[x][s], NoPush}
    BY DEF Opened, TypeInv
  <2> QED BY <2>1 DEF MineInv, PushMine, NoPush
<1>3. ASSUME NEW r \in Unsent(t) PROVE MineDelta(r.user, r.delta)
  BY <1>3 DEF Unsent, MineInv, PushMine, SyncMine
<1> QED BY <1>1, <1>2, <1>3 DEF Opened, MineInv

\* What a device sends for an account is what lies there.
LEMMA PushedMine ==
  ASSUME TypeInv, MineInv, NEW t \in Tabs, NEW s \in Pushes, Pushed(t, s)
  PROVE  \A x \in Tabs, y \in Pushes : PushMine(x, y)'
<1> DEFINE d == DeviceOf[t]
           u == Account(d)
           p == [st |-> "sent", user |-> u, delta |-> Delta(base[d][u], live[d])]
<1>1. d \in Devices /\ u \in Users /\ owner[d] \in {Nothing, u}
  BY PrefsAssumption, AccountType DEF Pushed, Differs, Account, ReadAuth, TypeInv, TypeOK
<1>2. base[d][u] \in Profiles /\ live[d] \in Profiles
  BY <1>1 DEF Pushed, Differs, TypeInv, TypeOK
<1>3. Mine(u, live[d])
  BY <1>1 DEF MineInv, Mine
<1>4. MineDelta(u, Delta(base[d][u], live[d]))
  BY <1>2, <1>3, DeltaIsDelta DEF Mine, MineDelta
<1>5. push' = [push EXCEPT ![t][s] = p]
  BY DEF Pushed
<1> HIDE DEF d, u
<1>6. ASSUME NEW x \in Tabs, NEW y \in Pushes PROVE PushMine(x, y)'
  <2>1. push'[x][y] = push[x][y] \/ push'[x][y] = p
    BY <1>5 DEF TypeInv
  <2> QED BY <1>4, <2>1 DEF MineInv, PushMine
<1> QED BY <1>6

\* What goes out with a request that nobody waits for was sent for its account.
LEMMA DroppedMine ==
  ASSUME TypeInv, MineInv, NEW t \in Tabs, NEW s \in Pushes, PushFail(t, s) \/ SyncFail(t)
  PROVE  \A r \in wire' : MineDelta(r.user, r.delta)
<1> SUFFICES ASSUME NEW r \in wire' PROVE MineDelta(r.user, r.delta)
  OBVIOUS
<1>1. CASE r \in wire
  BY <1>1 DEF MineInv
<1>2. CASE push[t][s].st = "sent" /\ r = [user |-> push[t][s].user, delta |-> push[t][s].delta]
  <2>1. PushMine(t, s)
    BY DEF MineInv
  <2> QED BY <1>2, <2>1 DEF PushMine
<1>3. CASE sync[t].st = "patch" /\ r = [user |-> sync[t].user, delta |-> sync[t].delta]
  <2>1. SyncMine(t)
    BY DEF MineInv
  <2> QED BY <1>3, <2>1 DEF SyncMine
<1>4. PushFail(t, s) => r \in wire \/ (push[t][s].st = "sent"
        /\ r = [user |-> push[t][s].user, delta |-> push[t][s].delta])
  BY DEF PushFail
<1>5. SyncFail(t) => r \in wire \/ (sync[t].st = "patch"
        /\ r = [user |-> sync[t].user, delta |-> sync[t].delta])
  BY DEF SyncFail
<1> QED BY <1>1, <1>2, <1>3, <1>4, <1>5

LEMMA MinePages ==
  ASSUME TypeInv, MineInv, failed' = {},
         NEW t \in Tabs, Reload(t) \/ AppStart(t) \/ \E u \in Users : Login(t, u)
  PROVE  MineInv'
<1> DEFINE d == DeviceOf[t]
<1>0. d \in Devices
  BY PrefsAssumption
<1>1. CASE Reload(t)
  <2>1. Opened(t, d) /\ UNCHANGED <<server, live, owner, archive>>
    BY <1>1 DEF Reload, serverVars, deviceVars
  <2>2. /\ \A x \in Tabs : SyncMine(x)'
        /\ \A x \in Tabs, s \in Pushes : PushMine(x, s)'
        /\ \A r \in wire' : MineDelta(r.user, r.delta)
    BY <1>0, <2>1, OpenedMine
  <2> QED BY <2>1, <2>2 DEF MineInv
<1>2. CASE AppStart(t)
  <2>1. /\ \A x \in Devices : Mine(owner'[x], live'[x])
        /\ \A x \in Devices, y \in Users : archive'[x][y] \in Profiles => Mine(y, archive'[x][y])
    <3>1. CASE who[d] = Nothing
      BY <1>2, <3>1 DEF AppStart, MineInv
    <3>2. CASE who[d] # Nothing
      <4>1. who[d] \in Users
        BY <1>0, <3>2 DEF TypeInv, TypeOK
      <4>2. PICK ok \in BOOLEAN : Activate(d, who[d], ok)
        BY <1>2, <3>2 DEF AppStart
      <4> QED BY <1>0, <4>1, <4>2, ActivateMine
    <3> QED BY <3>1, <3>2
  <2>2. UNCHANGED <<server, sync, push, wire>>
    BY <1>2 DEF AppStart, serverVars
  <2> QED BY <2>1, <2>2 DEF MineInv, SyncMine, PushMine
<1>3. ASSUME NEW u \in Users, Login(t, u) PROVE MineInv'
  <2>1. PICK ok \in BOOLEAN :
          /\ Activate(d, u, ok)
          /\ IF Switches(d, u, ok)
               THEN Opened(t, d)
               ELSE /\ sync' = IF ReadAuth(owner'[d], u) = Nothing
                                 THEN sync ELSE [sync EXCEPT ![t] = Started(d, u, TRUE)]
                    /\ UNCHANGED <<page, push, pushing, wire>>
    BY <1>3 DEF Login
  <2>2. UNCHANGED server
    BY <1>3 DEF Login, serverVars
  <2>3. /\ \A x \in Devices : Mine(owner'[x], live'[x])
        /\ \A x \in Devices, y \in Users : archive'[x][y] \in Profiles => Mine(y, archive'[x][y])
    BY <1>0, <2>1, ActivateMine
  <2>4. CASE Switches(d, u, ok)
    <3>1. Opened(t, d)
      BY <2>1, <2>4
    <3> QED BY <1>0, <2>2, <2>3, <3>1, OpenedMine DEF MineInv
  <2>5. CASE ~Switches(d, u, ok)
    <3>1. UNCHANGED <<push, wire>>
      BY <2>1, <2>5
    <3>2. ASSUME NEW x \in Tabs PROVE sync'[x] = sync[x] \/ sync'[x].st = "get"
      <4>1. sync' = sync \/ sync' = [sync EXCEPT ![t] = Started(d, u, TRUE)]
        BY <2>1, <2>5
      <4> QED BY <4>1 DEF Started, TypeInv
    <3>3. ASSUME NEW x \in Tabs PROVE SyncMine(x)'
      BY <3>2 DEF MineInv, SyncMine
    <3> QED BY <2>2, <2>3, <3>1, <3>3 DEF MineInv, PushMine
  <2> QED BY <2>4, <2>5
<1> QED BY <1>1, <1>2, <1>3

LEMMA MineEdit ==
  ASSUME TypeInv, PlaceInv, MineInv, failed = {}, NEW t \in Tabs, NEW k \in Keys, Edit(t, k)
  PROVE  MineInv'
<1> DEFINE d == DeviceOf[t]
<1>1. PICK v \in {Absent, [by |-> who[d], on |-> d, n |-> edits + 1]} :
        live' = [live EXCEPT ![d][k] = v]
  BY DEF Edit
<1>2. v.by \in {owner[d], Nothing}
  BY DEF Absent, Edit, PlaceInv
<1>3. UNCHANGED <<server, owner, archive, sync, push, wire>>
  BY DEF Edit, serverVars
<1> HIDE DEF d
<1>4. ASSUME NEW x \in Devices, NEW y \in Keys PROVE live'[x][y].by \in {owner[x], Nothing}
  <2>1. live'[x][y] = live[x][y] \/ (x = d /\ live'[x][y] = v)
    BY <1>1 DEF TypeInv, TypeOK, Profiles
  <2> QED BY <1>2, <2>1 DEF MineInv, Mine
<1> QED BY <1>3, <1>4 DEF MineInv, Mine, SyncMine, PushMine

LEMMA MineSync ==
  ASSUME TypeInv, PlaceInv, MineInv, failed = {}, NEW t \in Tabs, Syncing(t) \/ SyncFail(t)
  PROVE  MineInv'
<1> DEFINE d == DeviceOf[t]
           s == sync[t]
<1>0. d \in Devices
  BY PrefsAssumption
<1>a. UNCHANGED <<owner, archive, push>>
  BY DEF Syncing, SyncRead, SyncMerge, SyncPatch, SyncSave, SyncFail, deviceVars
<1>b. ASSUME NEW b \in BOOLEAN, Ended(t, b) PROVE \A x \in Tabs : SyncMine(x)'
  BY <1>b DEF Ended, NoSync, TypeInv, MineInv, SyncMine
<1>1. CASE SyncRead(t)
  <2>1. Mine(s.user, server[s.user]) /\ Mine(s.user, Untouched)
    BY <1>1 DEF SyncRead, TypeInv, SyncOK, MineInv, Mine, Untouched, Absent
  <2>2. /\ sync'[t].st = "got" /\ sync'[t].user = s.user
        /\ sync'[t].got \in {server[s.user], Untouched}
        /\ \A x \in Tabs \ {t} : sync'[x] = sync[x]
    BY <1>1 DEF SyncRead, TypeInv, SyncStates
  <2>3. \A x \in Tabs : SyncMine(x)'
    BY <2>1, <2>2 DEF MineInv, SyncMine
  <2> QED BY <1>1, <1>a, <2>3 DEF SyncRead, serverVars, deviceVars, MineInv, PushMine
<1>2. CASE SyncMerge(t)
  <2> DEFINE kept == Adopted(s.prev, s.got, live[d])
             delta == Sent(s.prev, s.got, live[d])
  <2>1. s.st = "got" /\ live' = [live EXCEPT ![d] = kept] /\ UNCHANGED <<server, wire>>
    BY <1>2 DEF SyncMerge, serverVars
  <2>2. s.prev \in Profiles \cup {Nothing} /\ s.got \in Profiles /\ live[d] \in Profiles
    BY <1>0, <2>1 DEF TypeInv, TypeOK, SyncOK, SyncStates
  <2>3. owner[d] = s.user
    BY <2>1 DEF PlaceInv
  <2>4. Mine(s.user, live[d]) /\ Mine(s.user, s.got)
    BY <1>0, <2>1, <2>3 DEF MineInv, SyncMine
  <2>5. Mine(s.user, kept)
    BY <2>4 DEF Adopted, Mine
  <2>6. MineDelta(s.user, delta)
    BY <2>2, <2>4, MergeValues DEF Mine, MineDelta
  <2>7. \A x \in Devices : Mine(owner[x], live'[x])
    BY <2>1, <2>3, <2>5 DEF TypeInv, TypeOK, MineInv
  <2>8. \A x \in Tabs : SyncMine(x)'
    <3>1. CASE DOMAIN delta = {}
      BY <1>2, <1>b, <3>1 DEF SyncMerge
    <3>2. CASE DOMAIN delta # {}
      <4>1. /\ sync'[t].user = s.user /\ sync'[t].got = s.got /\ sync'[t].delta = delta
            /\ \A x \in Tabs \ {t} : sync'[x] = sync[x]
        BY <1>2, <3>2 DEF SyncMerge, TypeInv, SyncStates
      <4> HIDE DEF delta, kept
      <4> QED BY <2>4, <2>6, <4>1 DEF MineInv, SyncMine
    <3> QED BY <3>1, <3>2
  <2> QED BY <1>a, <2>1, <2>7, <2>8 DEF MineInv, PushMine
<1>3. CASE SyncPatch(t)
  <2>1. /\ s.user \in Users /\ s.delta \in Deltas /\ MineDelta(s.user, s.delta)
        /\ Merge(s.user, s.delta)
    BY <1>3 DEF SyncPatch, TypeInv, SyncOK, MineInv, SyncMine
  <2>2. \A u \in Users : Mine(u, server'[u])
    BY <2>1, MergeMine
  <2>3. /\ sync'[t].st = "patched" /\ sync'[t].user = s.user /\ sync'[t].got = server'[s.user]
        /\ \A x \in Tabs \ {t} : sync'[x] = sync[x]
    BY <1>3 DEF SyncPatch, TypeInv, SyncStates
  <2>4. \A x \in Tabs : SyncMine(x)'
    BY <2>1, <2>2, <2>3 DEF MineInv, SyncMine
  <2> QED BY <1>3, <1>a, <2>2, <2>4 DEF SyncPatch, deviceVars, MineInv, PushMine
<1>4. CASE SyncSave(t)
  <2>1. \A x \in Tabs : SyncMine(x)'
    BY <1>4, <1>b DEF SyncSave, TypeInv, SyncStates
  <2> QED BY <1>4, <1>a, <2>1 DEF SyncSave, serverVars, MineInv, PushMine
<1>5. CASE SyncFail(t)
  <2>1. \A x \in Tabs : SyncMine(x)'
    BY <1>5, <1>b DEF SyncFail
  <2>2. \A r \in wire' : MineDelta(r.user, r.delta)
    BY <1>5 DEF SyncFail, MineInv, SyncMine
  <2> QED BY <1>5, <1>a, <2>1, <2>2 DEF SyncFail, serverVars, deviceVars, MineInv, PushMine
<1> QED BY <1>1, <1>2, <1>3, <1>4, <1>5 DEF Syncing

LEMMA MinePush ==
  ASSUME TypeInv, MineInv, NEW t \in Tabs, Pushing(t) \/ Logout(t) \/ \E s \in Pushes : PushFail(t, s)
  PROVE  MineInv'
<1>1. ASSUME NEW s \in Pushes, NEW hidden \in BOOLEAN, PushStart(t, s, hidden) PROVE MineInv'
  BY <1>1, PushedMine DEF PushStart, serverVars, deviceVars, MineInv, SyncMine
<1>2. CASE Logout(t)
  <2>1. \A x \in Tabs, y \in Pushes : PushMine(x, y)'
    BY <1>2, PushedMine DEF Logout, MineInv, PushMine
  <2> QED BY <1>2, <2>1 DEF Logout, serverVars, MineInv, SyncMine
<1>3. ASSUME NEW s \in Pushes, PushPatch(t, s) PROVE MineInv'
  <2> DEFINE p == push[t][s]
  <2>1. /\ p.user \in Users /\ p.delta \in Deltas /\ MineDelta(p.user, p.delta)
        /\ Merge(p.user, p.delta)
    BY <1>3 DEF PushPatch, TypeInv, PushOK, MineInv, PushMine
  <2>2. \A u \in Users : Mine(u, server'[u])
    BY <2>1, MergeMine
  <2>3. \A x \in Tabs, y \in Pushes :
          \/ push'[x][y] = push[x][y]
          \/ /\ push[x][y].st # "none"
             /\ push'[x][y].user = push[x][y].user
             /\ push'[x][y].delta = push[x][y].delta
    BY <1>3 DEF PushPatch, TypeInv, PushStates
  <2>4. \A x \in Tabs, y \in Pushes : PushMine(x, y)'
    BY <2>3 DEF MineInv, PushMine
  <2> QED BY <1>3, <2>2, <2>4 DEF PushPatch, deviceVars, MineInv, SyncMine
<1>4. ASSUME NEW s \in Pushes, PushDone(t, s) \/ PushFail(t, s) PROVE MineInv'
  <2>1. UNCHANGED <<server, live, owner, archive, sync>>
    BY <1>4 DEF PushDone, PushFail, serverVars, deviceVars
  <2>2. ASSUME NEW x \in Tabs, NEW y \in Pushes PROVE PushMine(x, y)'
    <3>1. push'[x][y] = push[x][y] \/ push'[x][y] = NoPush
      BY <1>4 DEF PushDone, PushFail, TypeInv
    <3> QED BY <3>1 DEF MineInv, PushMine, NoPush
  <2>3. \A r \in wire' : MineDelta(r.user, r.delta)
    BY <1>4, DroppedMine DEF PushDone, MineInv
  <2> QED BY <2>1, <2>2, <2>3 DEF MineInv, SyncMine
<1> QED BY <1>1, <1>2, <1>3, <1>4 DEF Pushing

LEMMA MineRest ==
  ASSUME TypeInv, MineInv, (\E r \in wire : Late(r)) \/ UNCHANGED vars
  PROVE  MineInv'
<1>1. ASSUME NEW r \in wire, Late(r) PROVE MineInv'
  <2>1. r.user \in Users /\ r.delta \in Deltas /\ MineDelta(r.user, r.delta)
    BY DEF TypeInv, Requests, MineInv
  <2>2. \A u \in Users : Mine(u, server'[u])
    BY <1>1, <2>1, MergeMine DEF Late, serverVars, MineInv
  <2>3. wire' = wire \ {r} /\ UNCHANGED <<live, owner, archive, sync, push>>
    BY <1>1 DEF Late, deviceVars
  <2>4. (\A x \in Tabs : SyncMine(x)') /\ \A x \in Tabs, s \in Pushes : PushMine(x, s)'
    BY <2>3 DEF MineInv, SyncMine, PushMine
  <2> QED BY <2>2, <2>3, <2>4 DEF MineInv
<1>2. CASE UNCHANGED vars
  BY <1>2 DEF vars, serverVars, deviceVars, MineInv, SyncMine, PushMine
<1> QED BY <1>1, <1>2

LEMMA MineInit == Init => MineInv
<1> SUFFICES ASSUME Init PROVE MineInv
  OBVIOUS
<1>1. \A u : Mine(u, Untouched)
  BY DEF Mine, Untouched, Absent
<1>2. (\A t \in Tabs : SyncMine(t)) /\ \A t \in Tabs, s \in Pushes : PushMine(t, s)
  BY DEF Init, SyncMine, PushMine, NoSync, NoPush
<1>3. \A d \in Devices, u \in Users : archive[d][u] \notin Profiles
  BY NothingAssumption DEF Init
<1>4. (\A u \in Users : Mine(u, server[u])) /\ \A d \in Devices : Mine(owner[d], live[d])
  BY <1>1 DEF Init
<1> QED BY <1>2, <1>3, <1>4 DEF Init, MineInv

LEMMA FailedGrows == ASSUME TypeInv, [Next]_vars PROVE failed \subseteq failed'
<1>1. ASSUME NEW t \in Tabs, NEW u \in Users, NEW ok \in BOOLEAN, Activate(DeviceOf[t], u, ok)
      PROVE  failed \subseteq failed'
  BY <1>1 DEF Activate
<1> QED BY <1>1, ProfileSteps

LEMMA MineStep ==
  ASSUME TypeInv, PlaceInv, failed = {} => MineInv, [Next]_vars
  PROVE  (failed = {} => MineInv)'
<1> SUFFICES ASSUME failed' = {} PROVE MineInv'
  OBVIOUS
<1>1. failed = {} /\ MineInv
  BY FailedGrows
<1>2. ASSUME NEW t \in Tabs, Reload(t) \/ Going(t) \/ Acting(t) \/ Failing(t) PROVE MineInv'
  BY <1>1, <1>2, MinePages, MineEdit, MineSync, MinePush DEF Going, Acting, Failing
<1> QED BY <1>1, <1>2, MineRest DEF Next

\* What one account has set reaches neither the row nor the localStorage nor the
\* archive of another, as long as every device has one tab and activateProfile
\* has not thrown.
THEOREM AccountsApart == ASSUME OneTabPerDevice PROVE Spec => []AccountsStayApart
<1> DEFINE Inv == TypeInv /\ PlaceInv /\ (failed = {} => MineInv)
<1>1. Init => Inv
  BY TypeInit, PlaceInit, MineInit
<1>2. Inv /\ [Next]_vars => Inv'
  BY TypeStep, PlaceStep, MineStep
<1>3. Inv => AccountsStayApart
  BY DEF TypeInv, TypeOK, MineInv, Mine, AccountsStayApart
<1> QED BY <1>1, <1>2, <1>3, PTL DEF Spec
=============================================================================
