-------------------------- MODULE AuthSessionProofs --------------------------
(***************************************************************************)
(* Proofs about AuthSession, for any number of users, tabs and tokens.     *)
(***************************************************************************)
EXTENDS AuthSession, SequenceTheorems, TLAPS

Event == [key : {"token", "user"}, put : BOOLEAN]
Todo == [do : {"user", "reload"}, val : Users \cup {Nothing}]

UserWrite(v) == [do |-> "user", val |-> v]
PageLoad == [do |-> "reload", val |-> Nothing]

-----------------------------------------------------------------------------
(* Types.                                                                  *)

\* A change of the password issues a token, and so does an answered refresh.
Answered == \A t \in Tabs : refresh[t].st = "answered" => refresh[t].got # Nothing
TypeInv ==
  /\ TypeOK /\ Answered
  /\ \A u \in Users : pass[u] <= issued

LEMMA NoSessionType == NoSession \in Sessions /\ Reloading \in Seq(Todo) /\ Reloading = <<PageLoad>>
BY DEF NoSession, Sessions, Reloading, PageLoad, Todo

LEMMA StoredType ==
  ASSUME TypeOK, NEW t \in Tabs
  PROVE  Stored(t) \in Sessions
BY DEF TypeOK, Stored, Or, Sessions

LEMMA IssueType ==
  ASSUME TypeInv, issued < MaxTokens, NEW u \in Users, NEW gen \in 0..MaxTokens
  PROVE  Issue(u, gen) \in Tokens /\ Issue(u, gen) # Nothing
BY SessionAssumption DEF TypeInv, TypeOK, Issue, Tokens

LEMMA WriteType ==
  ASSUME TypeOK, NEW t \in Tabs, NEW key \in {"token", "user"}, NEW val,
         key = "token" => val \in Tokens \cup {Nothing},
         key = "user" => val \in Users \cup {Nothing},
         Write(t, key, val)
  PROVE  shared' \in Sessions /\ events' \in [Tabs -> Seq(Event)]
<1>1. shared' \in Sessions
  BY DEF TypeOK, Write, Sessions
<1>2. [key |-> key, put |-> val # Nothing] \in Event
  BY DEF Event
<1>3. ASSUME NEW x \in Tabs
      PROVE  events[x] \in Seq(Event) /\ Append(events[x], [key |-> key, put |-> val # Nothing]) \in Seq(Event)
  <2>1. events[x] \in Seq(Event)
    BY DEF TypeOK, Event
  <2> QED BY <1>2, <2>1, AppendProperties
<1>4. events' \in [Tabs -> Seq(Event)]
  BY <1>3 DEF Write
<1> QED BY <1>1, <1>4

LEMMA PairOfTasks ==
  ASSUME NEW a \in Todo, NEW b \in Todo
  PROVE  /\ <<a>> \in Seq(Todo) /\ <<a, b>> \in Seq(Todo) /\ <<a, b>> # <<>> /\ <<a>> # <<>>
         /\ <<a>> \o <<>> = <<a>> /\ <<a>> \o <<b>> = <<a, b>>
         /\ Head(<<a>>) = a /\ Tail(<<a>>) = <<>>
         /\ Head(<<a, b>>) = a /\ Tail(<<a, b>>) = <<b>>
<1>1. <<a>> \in Seq(Todo) /\ <<b>> \in Seq(Todo) /\ <<a, b>> \in Seq(Todo) /\ <<>> \in Seq(Todo)
  OBVIOUS
<1>2. <<a>> \o <<>> = <<a>>
  BY <1>1, ConcatEmptySeq
<1>3. <<a>> \o <<b>> = <<a, b>>
  <2> DEFINE c == <<a>> \o <<b>>
  <2>0. Len(<<a>>) = 1 /\ Len(<<b>>) = 1 /\ Len(<<a, b>>) = 2
    OBVIOUS
  <2>1. /\ c \in Seq(Todo) /\ Len(c) = Len(<<a>>) + Len(<<b>>)
        /\ \A i \in 1..Len(<<a>>) + Len(<<b>>) :
             c[i] = IF i <= Len(<<a>>) THEN <<a>>[i] ELSE <<b>>[i - Len(<<a>>)]
    BY <1>1, ConcatProperties
  <2> HIDE DEF c
  <2>2. Len(c) = 2 /\ c[1] = a /\ c[2] = b
    BY <2>0, <2>1
  <2>3. \A i \in 1..2 : c[i] = <<a, b>>[i]
    BY <2>2
  <2>4. c = <<a, b>>
    BY <1>1, <2>0, <2>1, <2>2, <2>3, SeqEqual
  <2> QED BY <2>4 DEF c
<1>4. /\ Head(<<a>>) = a /\ Tail(<<a>>) = <<>> /\ Head(<<a, b>>) = a
      /\ <<a, b>> # <<>> /\ <<a>> # <<>>
  BY <1>1, EmptySeq
<1>5. Tail(<<a, b>>) = <<b>>
  BY <1>1
<1> QED BY <1>1, <1>2, <1>3, <1>4, <1>5

LEMMA WritePairType ==
  ASSUME TypeOK, NEW t \in Tabs, NEW s \in Sessions, NEW after \in {<<>>, Reloading},
         WritePair(t, s, after)
  PROVE  /\ shared' \in Sessions /\ events' \in [Tabs -> Seq(Event)]
         /\ rest' \in [Tabs -> Seq(Todo)]
         /\ rest' = [rest EXCEPT ![t] =
              IF after = <<>> THEN <<UserWrite(s.user)>> ELSE <<UserWrite(s.user), PageLoad>>]
<1>1. shared' \in Sessions /\ events' \in [Tabs -> Seq(Event)]
  <2>1. s.token \in Tokens \cup {Nothing} /\ Write(t, "token", s.token)
    BY DEF WritePair, Sessions
  <2> QED BY <2>1, WriteType
<1>2. UserWrite(s.user) \in Todo /\ PageLoad \in Todo
  BY DEF UserWrite, PageLoad, Sessions, Todo
<1>3. /\ <<UserWrite(s.user)>> \o <<>> = <<UserWrite(s.user)>>
      /\ <<UserWrite(s.user)>> \o <<PageLoad>> = <<UserWrite(s.user), PageLoad>>
  BY <1>2, PairOfTasks
<1>4. Reloading # <<>>
  BY DEF Reloading
<1>5. rest' = [rest EXCEPT ![t] =
         IF after = <<>> THEN <<UserWrite(s.user)>> ELSE <<UserWrite(s.user), PageLoad>>]
  BY <1>3, <1>4, NoSessionType DEF WritePair, UserWrite
<1>6. rest' \in [Tabs -> Seq(Todo)]
  BY <1>2, <1>5, PairOfTasks DEF TypeOK, Todo
<1> QED BY <1>1, <1>5, <1>6

\* What a task may change besides the storage.
LEMMA ExpireType ==
  ASSUME TypeOK, NEW t \in Tabs, Expire(t)
  PROVE  /\ shared' \in Sessions /\ events' \in [Tabs -> Seq(Event)]
         /\ rest' \in [Tabs -> Seq(Todo)]
         /\ own' \in [Tabs -> Sessions] /\ mem' \in [Tabs -> Sessions]
<1> DEFINE Typed == /\ shared' \in Sessions /\ events' \in [Tabs -> Seq(Event)]
                    /\ rest' \in [Tabs -> Seq(Todo)]
                    /\ own' \in [Tabs -> Sessions] /\ mem' \in [Tabs -> Sessions]
<1>1. CASE UNCHANGED <<shared, events, rest, own, mem>>
  BY <1>1 DEF TypeOK, Event, Todo
<1>2. CASE UNCHANGED <<shared, events, rest, own>> /\ \E s \in Sessions : Put(t, s)
  BY <1>2 DEF TypeOK, Event, Todo, Put
<1>3. CASE own' \in [Tabs -> Sessions] /\ UNCHANGED <<shared, events, rest>> /\ Put(t, NoSession)
  BY <1>3, NoSessionType DEF TypeOK, Event, Todo, Put
<1>4. CASE WritePair(t, NoSession, <<>>) /\ UNCHANGED own /\ Put(t, NoSession)
  BY <1>4, NoSessionType, WritePairType DEF TypeOK, Put
<1>5. ASSUME TakesOver(t),
             LET s == Stored(t) IN
               Put(t, IF mem[t].user = Nothing \/ s.user \in {Nothing, mem[t].user}
                        THEN [token |-> s.token, user |-> Or(s.user, mem[t].user)] ELSE NoSession)
      PROVE  \E s \in Sessions : Put(t, s)
  BY <1>5, NoSessionType, StoredType DEF TypeOK, Sessions, Or
<1>6. own' = [own EXCEPT ![t] = NoSession] => own' \in [Tabs -> Sessions]
  BY NoSessionType DEF TypeOK
<1> QED BY <1>1, <1>2, <1>3, <1>4, <1>5, <1>6 DEF Expire

LEMMA SetTokenType ==
  ASSUME TypeOK, NEW t \in Tabs, NEW s \in Sessions, SetToken(t, s)
  PROVE  /\ shared' \in Sessions /\ events' \in [Tabs -> Seq(Event)]
         /\ rest' \in [Tabs -> Seq(Todo)]
         /\ own' \in [Tabs -> Sessions] /\ mem' \in [Tabs -> Sessions]
<1>1. mem' \in [Tabs -> Sessions]
  BY DEF SetToken, Put, TypeOK
<1>2. CASE own' = [own EXCEPT ![t] = s] /\ UNCHANGED <<shared, events, rest>>
  BY <1>1, <1>2 DEF TypeOK, Event, Todo
<1>3. CASE WritePair(t, s, <<>>) /\ UNCHANGED own
  BY <1>1, <1>3, WritePairType DEF TypeOK
<1> QED BY <1>2, <1>3 DEF SetToken

LEMMA TypeInit == Init => TypeInv
BY SessionAssumption, NoSessionType DEF Init, TypeInv, TypeOK, Answered, Idle

LEMMA BootsType == ASSUME TypeInv, NEW t \in Tabs, Boots(t) PROVE TypeInv'
<1> USE DEF TypeInv
<1>1. Stored(t) \in Sessions
  BY StoredType
<1>2. mem' \in [Tabs -> Sessions]
  BY <1>1 DEF Boots, Put, TypeOK
<1>3. owner' \in Users \cup {Nothing} /\ calls' \in [Tabs -> Tokens \cup {Nothing}]
  BY <1>1 DEF Boots, TypeOK, Or, Sessions
<1>4. events' \in [Tabs -> Seq(Event)] /\ rest' \in [Tabs -> Seq(Todo)]
  BY NoSessionType, EmptySeq DEF Boots, TypeOK, Event, Todo
<1>5. /\ refresh' \in [Tabs -> [st : {"none", "waiting", "posted", "answered", "refused"},
                             start : Tokens \cup {Nothing}, got : Tokens \cup {Nothing}]]
      /\ lock' \in Tabs \cup {Nothing} /\ changed' \in [Tabs -> Tokens \cup {Nothing}]
  BY DEF Boots, TypeOK, Idle
<1>6. Answered'
  BY DEF Boots, TypeOK, Answered, Idle
<1> QED BY <1>2, <1>3, <1>4, <1>5, <1>6 DEF Boots, serverVars, TypeOK, Event, Todo

LEMMA ActingTypes == ASSUME TypeInv, NEW t \in Tabs, Acting(t) \/ PasswordChanged(t) PROVE TypeInv'
<1> USE DEF TypeInv
<1>1. ASSUME NEW u \in Users, Login(t, u) PROVE TypeInv'
  <2> DEFINE s == [token |-> Issue(u, pass[u]), user |-> u]
  <2>1. s \in Sessions
    BY <1>1, IssueType DEF Login, TypeOK, Sessions
  <2>2. \/ WritePair(t, s, <<>>) /\ Put(t, s)
        \/ WritePair(t, s, Reloading) /\ UNCHANGED mem
    BY <1>1 DEF Login
  <2> HIDE DEF s
  <2>3. /\ shared' \in Sessions /\ events' \in [Tabs -> Seq(Event)]
        /\ rest' \in [Tabs -> Seq(Todo)]
    BY <2>1, <2>2, WritePairType
  <2>4. mem' \in [Tabs -> Sessions]
    BY <2>1, <2>2 DEF Put, TypeOK
  <2>5. own' \in [Tabs -> Sessions] /\ owner' \in Users \cup {Nothing}
    BY <1>1, NoSessionType DEF Login, TypeOK
  <2>6. issued' \in 0..MaxTokens /\ horizon' \in 0..issued' /\ \A v \in Users : pass'[v] <= issued'
    BY <1>1, SessionAssumption DEF Login, TypeOK
  <2> QED BY <1>1, <2>3, <2>4, <2>5, <2>6 DEF Login, callVars, TypeOK, Answered, Event, Todo
<1>2. ASSUME Logout(t) PROVE TypeInv'
  <2>1. /\ shared' \in Sessions /\ events' \in [Tabs -> Seq(Event)] /\ rest' \in [Tabs -> Seq(Todo)]
        /\ mem' \in [Tabs -> Sessions] /\ own' \in [Tabs -> Sessions]
    BY <1>2, NoSessionType, WritePairType DEF Logout, Put, TypeOK
  <2> QED BY <1>2, <2>1 DEF Logout, serverVars, callVars, TypeOK, Answered, Event, Todo
<1>3. ASSUME PasswordChanged(t) PROVE TypeInv'
  <2>1. changed[t] \in Tokens /\ [token |-> changed[t], user |-> changed[t].user] \in Sessions
    BY <1>3 DEF PasswordChanged, TypeOK, Sessions, Tokens
  <2>2. mem' \in [Tabs -> Sessions] /\ own' \in [Tabs -> Sessions]
    BY <1>3, <2>1 DEF PasswordChanged, Put, TypeOK
  <2>3. /\ shared' \in Sessions /\ events' \in [Tabs -> Seq(Event)] /\ rest' \in [Tabs -> Seq(Todo)]
        /\ changed' \in [Tabs -> Tokens \cup {Nothing}]
    BY <1>3, NoSessionType, WritePairType DEF PasswordChanged, TypeOK
  <2> QED BY <1>3, <2>2, <2>3 DEF PasswordChanged, serverVars, TypeOK, Answered, Event, Todo
<1>4. ASSUME ChangePassword(t) PROVE TypeInv'
  <2>1. mem[t].token \in Tokens /\ mem[t].token.user \in Users
    BY <1>4 DEF ChangePassword, Valid, Unexpired, TypeOK, Sessions, Tokens
  <2> DEFINE u == mem[t].token.user
  <2>2. pass[u] \in 0..MaxTokens /\ pass[u] + 1 \in 0..MaxTokens /\ pass[u] + 1 <= issued + 1
    BY <1>4, <2>1, SessionAssumption DEF ChangePassword, TypeOK
  <2>3. Issue(u, pass[u] + 1) \in Tokens
    BY <1>4, <2>1, <2>2, IssueType DEF ChangePassword
  <2>4. pass' = [pass EXCEPT ![u] = pass[u] + 1] /\ changed' = [changed EXCEPT ![t] = Issue(u, pass[u] + 1)]
    BY <1>4 DEF ChangePassword
  <2>5. issued' = issued + 1 /\ issued' \in 0..MaxTokens /\ horizon' \in 0..issued'
    BY <1>4, SessionAssumption DEF ChangePassword, TypeOK
  <2> HIDE DEF u
  <2>6. pass' \in [Users -> 0..MaxTokens] /\ changed' \in [Tabs -> Tokens \cup {Nothing}]
    BY <2>1, <2>2, <2>3, <2>4 DEF TypeOK
  <2>7. ASSUME NEW v \in Users PROVE pass'[v] <= issued'
    BY <2>1, <2>2, <2>4, <2>5 DEF TypeOK
  <2> QED BY <1>4, <2>5, <2>6, <2>7 DEF ChangePassword, storageVars, TypeOK, Answered
<1>5. ASSUME Reload(t) PROVE TypeInv'
  BY <1>5, BootsType DEF Reload
<1> QED BY <1>1, <1>2, <1>3, <1>4, <1>5 DEF Acting

LEMMA TaskTypes ==
  ASSUME TypeInv, NEW t \in Tabs,
         Continue(t) \/ Deliver(t) \/ Request(t) \/ Refused(t) \/ Timer(t)
  PROVE  TypeInv'
<1> USE DEF TypeInv
<1>1. ASSUME Continue(t) PROVE TypeInv'
  <2>1. Head(rest[t]) \in Todo /\ Tail(rest[t]) \in Seq(Todo)
    BY <1>1, HeadTailProperties DEF Continue, Free, TypeOK, Todo
  <2>2. CASE Boots(t)
    BY <2>2, BootsType
  <2>3. CASE /\ Write(t, "user", Head(rest[t]).val)
             /\ rest' = [rest EXCEPT ![t] = Tail(@)]
             /\ UNCHANGED <<serverVars, owner, own, mem, callVars>>
    <3>1. shared' \in Sessions /\ events' \in [Tabs -> Seq(Event)]
      BY <2>1, <2>3, WriteType DEF Todo
    <3>2. rest' \in [Tabs -> Seq(Todo)]
      BY <2>1, <2>3 DEF TypeOK, Todo
    <3> QED BY <2>3, <3>1, <3>2 DEF serverVars, callVars, TypeOK, Answered, Event, Todo
  <2> QED BY <1>1, <2>2, <2>3 DEF Continue
<1>2. ASSUME Deliver(t) PROVE TypeInv'
  <2>1. Tail(events[t]) \in Seq(Event)
    BY <1>2, HeadTailProperties DEF Deliver, TypeOK, Event
  <2>2. events' \in [Tabs -> Seq(Event)]
    BY <1>2, <2>1 DEF Deliver, TypeOK, Event
  <2>3. Stored(t) \in Sessions /\ mem[t] \in Sessions
    BY StoredType DEF TypeOK
  <2>4. ASSUME NEW s \in Sessions, Put(t, s) PROVE mem' \in [Tabs -> Sessions]
    BY <2>4 DEF Put, TypeOK
  <2>5. rest' = [rest EXCEPT ![t] = Reloading] => rest' \in [Tabs -> Seq(Todo)]
    BY NoSessionType DEF TypeOK, Todo
  <2>6. UNCHANGED mem => mem' \in [Tabs -> Sessions]
    BY DEF TypeOK
  <2>7. UNCHANGED rest => rest' \in [Tabs -> Seq(Todo)]
    BY DEF TypeOK, Todo
  <2>8. ASSUME FollowToken(t) PROVE mem' \in [Tabs -> Sessions] /\ rest' \in [Tabs -> Seq(Todo)]
    <3>1. /\ [token |-> Stored(t).token, user |-> Or(Stored(t).user, mem[t].user)] \in Sessions
          /\ NoSession \in Sessions
      BY <2>3, NoSessionType DEF Sessions, Or
    <3> QED BY <2>3, <2>4, <2>5, <2>6, <2>7, <2>8, <3>1 DEF FollowToken
  <2>9. ASSUME FollowUser(t) PROVE mem' \in [Tabs -> Sessions] /\ rest' \in [Tabs -> Seq(Todo)]
    <3>1. [mem[t] EXCEPT !.user = Or(Stored(t).user, @)] \in Sessions
      BY <2>3 DEF Sessions, Or
    <3> QED BY <2>4, <2>5, <2>6, <2>7, <2>9, <3>1 DEF FollowUser
  <2>10. mem' \in [Tabs -> Sessions] /\ rest' \in [Tabs -> Seq(Todo)]
    BY <1>2, <2>6, <2>7, <2>8, <2>9 DEF Deliver
  <2> QED BY <1>2, <2>2, <2>10 DEF Deliver, serverVars, callVars, TypeOK, Answered, Event, Todo
<1>3. ASSUME Request(t) PROVE TypeInv'
  <2>1. calls' \in [Tabs -> Tokens \cup {Nothing}]
    BY <1>3 DEF Request, TypeOK, Sessions
  <2> QED BY <1>3, <2>1 DEF Request, serverVars, storageVars, TypeOK, Answered
<1>4. ASSUME Refused(t) PROVE TypeInv'
  <2>1. calls' \in [Tabs -> Tokens \cup {Nothing}]
    BY <1>4 DEF Refused, TypeOK
  <2>2. Expire(t)
    BY <1>4 DEF Refused
  <2> QED BY <1>4, <2>1, <2>2, ExpireType DEF Refused, serverVars, TypeOK, Answered, Event, Todo
<1>5. ASSUME Timer(t) PROVE TypeInv'
  <2>1. Expire(t)
    BY <1>5 DEF Timer
  <2> QED BY <1>5, <2>1, ExpireType DEF Timer, serverVars, callVars, TypeOK, Answered, Event, Todo
<1> QED BY <1>1, <1>2, <1>3, <1>4, <1>5

LEMMA RefreshTypes == ASSUME TypeInv, NEW t \in Tabs, Refresh(t) PROVE TypeInv'
<1> USE DEF TypeInv
<1> DEFINE Runs == [st : {"none", "waiting", "posted", "answered", "refused"},
                    start : Tokens \cup {Nothing}, got : Tokens \cup {Nothing}]
<1>0. refresh \in [Tabs -> Runs] /\ refresh[t] \in Runs /\ mem[t] \in Sessions /\ Idle \in Runs
  BY DEF TypeOK, Idle
<1>1. ASSUME RefreshStart(t) PROVE TypeInv'
  <2>1. refresh' \in [Tabs -> Runs] /\ Answered'
    BY <1>0, <1>1 DEF RefreshStart, Idle, Sessions, Answered
  <2> QED BY <1>1, <2>1 DEF RefreshStart, serverVars, storageVars, TypeOK
<1>2. ASSUME RefreshRun(t) PROVE TypeInv'
  <2>1. [mem[t] EXCEPT !.token = Stored(t).token] \in Sessions
    BY <1>0, StoredType DEF Sessions
  <2>2. mem' \in [Tabs -> Sessions]
    BY <1>2, <2>1 DEF RefreshRun, Put, TypeOK
  <2>3. /\ refresh' = [refresh EXCEPT ![t] = Idle] \/ refresh' = [refresh EXCEPT ![t].st = "posted"]
           \/ refresh' = refresh
        /\ lock' \in Tabs \cup {Nothing}
    BY <1>2 DEF RefreshRun, TypeOK
  <2>4. refresh' \in [Tabs -> Runs] /\ Answered'
    BY <1>0, <2>3 DEF Answered, Idle
  <2> QED BY <1>2, <2>2, <2>3, <2>4 DEF RefreshRun, serverVars, storageVars, TypeOK
<1>3. ASSUME RefreshServe(t) PROVE TypeInv'
  <2> DEFINE k == refresh[t].start
  <2>1. CASE Valid(k) /\ issued < MaxTokens /\ issued' = issued + 1
             /\ refresh' = [refresh EXCEPT ![t].st = "answered", ![t].got = Issue(k.user, k.gen)]
    <3>1. k \in Tokens
      BY <1>0, <2>1 DEF Valid, Unexpired
    <3>2. Issue(k.user, k.gen) \in Tokens /\ Issue(k.user, k.gen) # Nothing
      BY <2>1, <3>1, IssueType DEF Tokens
    <3>3. refresh' \in [Tabs -> Runs] /\ Answered'
      BY <1>0, <2>1, <3>2 DEF Answered
    <3>4. issued' \in 0..MaxTokens /\ horizon' \in 0..issued' /\ \A v \in Users : pass'[v] <= issued'
      BY <1>3, <2>1, SessionAssumption DEF RefreshServe, TypeOK
    <3> QED BY <1>3, <3>3, <3>4 DEF RefreshServe, storageVars, TypeOK
  <2>2. CASE refresh' = [refresh EXCEPT ![t].st = "refused"] /\ UNCHANGED issued
    <3>1. refresh' \in [Tabs -> Runs] /\ Answered'
      BY <1>0, <2>2 DEF Answered
    <3> QED BY <1>3, <2>2, <3>1 DEF RefreshServe, storageVars, TypeOK
  <2> QED BY <1>3, <2>1, <2>2 DEF RefreshServe
<1>4. ASSUME RefreshDone(t) PROVE TypeInv'
  <2>1. refresh' \in [Tabs -> Runs] /\ Answered'
    BY <1>0, <1>4 DEF RefreshDone, Answered, Idle
  <2>2. CASE Expire(t)
    BY <1>4, <2>1, <2>2, ExpireType DEF RefreshDone, serverVars, TypeOK, Event, Todo
  <2>3. CASE refresh[t].got # Nothing /\ SetToken(t, [token |-> refresh[t].got, user |-> refresh[t].got.user])
    <3>1. [token |-> refresh[t].got, user |-> refresh[t].got.user] \in Sessions
      BY <1>0, <2>3 DEF Sessions, Tokens
    <3> QED BY <1>4, <2>1, <2>3, <3>1, SetTokenType DEF RefreshDone, serverVars, TypeOK, Event, Todo
  <2>4. refresh[t].st = "answered" => refresh[t].got # Nothing
    BY DEF Answered
  <2> QED BY <1>4, <2>2, <2>3, <2>4 DEF RefreshDone
<1>5. ASSUME RefreshLost(t) PROVE TypeInv'
  <2>1. refresh' \in [Tabs -> Runs] /\ Answered'
    BY <1>0, <1>5 DEF RefreshLost, Answered, Idle
  <2> QED BY <1>5, <2>1 DEF RefreshLost, serverVars, storageVars, TypeOK
<1> QED BY <1>1, <1>2, <1>3, <1>4, <1>5 DEF Refresh

LEMMA TypeStep == TypeInv /\ [Next]_vars => TypeInv'
<1> SUFFICES ASSUME TypeInv, [Next]_vars PROVE TypeInv'
  OBVIOUS
<1>1. ASSUME Tick PROVE TypeInv'
  <2>1. horizon' \in 0..issued'
    BY <1>1 DEF Tick, TypeInv, TypeOK
  <2> QED BY <1>1, <2>1 DEF Tick, storageVars, callVars, TypeInv, TypeOK, Answered
<1>2. CASE UNCHANGED vars
  BY <1>2 DEF vars, serverVars, storageVars, callVars, TypeInv, TypeOK, Answered
<1> QED BY <1>1, <1>2, ActingTypes, TaskTypes, RefreshTypes DEF Next

\* Whatever tabs and the server do, every variable keeps its type.
THEOREM TypeCorrect == Spec => []TypeOK
<1>1. TypeInv => TypeOK
  BY DEF TypeInv
<1> QED BY <1>1, TypeInit, TypeStep, PTL DEF Spec

-----------------------------------------------------------------------------
(* The server does not take back a refusal.                                *)

\* The tokens that somebody holds.
Around(k) ==
  \/ k = shared.token
  \/ \E t \in Tabs : k \in {own[t].token, mem[t].token, changed[t],
                            refresh[t].start, refresh[t].got}

\* A password is changed after the login of every token that is around, so what
\* has been refused stays refused.
KnownInv == \A k \in Tokens : Around(k) => k.gen <= pass[k.user]
RefusedInv == \A t \in Tabs : refresh[t].st = "refused" => ~Valid(refresh[t].start)

\* The tokens in the storage and in memory were around.
Shown(k) == k = shared.token \/ \E t \in Tabs : k \in {own[t].token, mem[t].token}

LEMMA ShownIsAround == \A k : Shown(k) => Around(k)
BY DEF Shown, Around

LEMMA WriteShown ==
  ASSUME TypeOK, NEW t, NEW s, NEW after, WritePair(t, s, after)
  PROVE  shared'.token = s.token
BY DEF WritePair, Write, TypeOK, Sessions

LEMMA ExpireShown ==
  ASSUME TypeOK, NEW t \in Tabs, Expire(t), NEW k \in Tokens, Shown(k)'
  PROVE  Shown(k)
<1>0. k # Nothing /\ NoSession.token = Nothing
  BY SessionAssumption DEF NoSession
<1>1. CASE UNCHANGED <<shared, own, mem>>
  BY <1>1 DEF Shown
<1>2. ASSUME UNCHANGED <<shared, own>>, NEW s, Put(t, s), s.token \in {Nothing, Stored(t).token}
      PROVE  Shown(k)
  BY <1>0, <1>2 DEF Put, Shown, TypeOK, Stored, Or
<1>3. CASE own' = [own EXCEPT ![t] = NoSession] /\ UNCHANGED shared /\ Put(t, NoSession)
  BY <1>0, <1>3 DEF Put, Shown, TypeOK
<1>4. CASE WritePair(t, NoSession, <<>>) /\ UNCHANGED own /\ Put(t, NoSession)
  BY <1>0, <1>4, WriteShown DEF Put, Shown, TypeOK
<1>5. ASSUME LET s == Stored(t) IN
               Put(t, IF mem[t].user = Nothing \/ s.user \in {Nothing, mem[t].user}
                        THEN [token |-> s.token, user |-> Or(s.user, mem[t].user)] ELSE NoSession)
      PROVE  \E s : Put(t, s) /\ s.token \in {Nothing, Stored(t).token}
  BY <1>0, <1>5
<1> QED BY <1>1, <1>2, <1>3, <1>4, <1>5 DEF Expire

LEMMA SetTokenShown ==
  ASSUME TypeOK, NEW t \in Tabs, NEW s \in Sessions, SetToken(t, s), NEW k \in Tokens, Shown(k)'
  PROVE  Shown(k) \/ k = s.token
<1>1. CASE own' = [own EXCEPT ![t] = s] /\ UNCHANGED shared
  BY <1>1 DEF SetToken, Put, Shown, TypeOK
<1>2. CASE WritePair(t, s, <<>>) /\ UNCHANGED own
  BY <1>2, WriteShown DEF SetToken, Put, Shown, TypeOK
<1> QED BY <1>1, <1>2 DEF SetToken

LEMMA BootsShown ==
  ASSUME TypeOK, NEW t \in Tabs, Boots(t), NEW k \in Tokens, Around(k)'
  PROVE  Around(k)
<1>0. k # Nothing
  BY SessionAssumption
<1>1. /\ mem' = [mem EXCEPT ![t] = Stored(t)] /\ UNCHANGED <<shared, own>>
      /\ refresh' = [refresh EXCEPT ![t] = Idle] /\ changed' = [changed EXCEPT ![t] = Nothing]
  BY DEF Boots, Put
<1>2. Stored(t).token = k => Around(k)
  BY DEF Stored, Or, Around
<1>3. \A x \in Tabs : refresh'[x] # refresh[x] => refresh'[x].start = Nothing /\ refresh'[x].got = Nothing
  BY <1>1 DEF Idle, TypeOK
<1> QED BY <1>0, <1>1, <1>2, <1>3 DEF Around, TypeOK

\* A token is around, or somebody is given it now.
LEMMA TokenOrigin ==
  ASSUME TypeInv, KnownInv, [Next]_vars, NEW k \in Tokens, Around(k)'
  PROVE  Around(k) \/ k.gen <= pass'[k.user]
<1> USE DEF TypeInv
<1>0. k # Nothing /\ NoSession.token = Nothing /\ Idle.start = Nothing /\ Idle.got = Nothing
  BY SessionAssumption DEF NoSession, Idle
<1>1. ASSUME NEW t \in Tabs, Boots(t) PROVE Around(k)
  BY <1>1, BootsShown
\* Steps that issue nothing.
<1>2. ASSUME Shown(k)' => Shown(k),
             \A x \in Tabs : /\ refresh'[x].start \in {refresh[x].start, Nothing, mem[x].token}
                             /\ refresh'[x].got \in {refresh[x].got, Nothing}
                             /\ changed'[x] \in {changed[x], Nothing}
      PROVE  Around(k)
  BY <1>0, <1>2 DEF Around, Shown
<1>3. ASSUME Shown(k)' => Shown(k), UNCHANGED <<refresh, changed>> PROVE Around(k)
  BY <1>3 DEF Around, Shown
<1>4. ASSUME NEW t \in Tabs, NEW u \in Users, Login(t, u) PROVE Around(k) \/ k.gen <= pass'[k.user]
  <2> DEFINE s == [token |-> Issue(u, pass[u]), user |-> u]
  <2>0. own' = [own EXCEPT ![t] = NoSession] /\ UNCHANGED <<pass, refresh, changed>>
    BY <1>4 DEF Login, callVars
  <2>1. \/ WritePair(t, s, <<>>) /\ Put(t, s)
        \/ WritePair(t, s, Reloading) /\ UNCHANGED mem
    BY <1>4 DEF Login
  <2>2. s.token.gen = pass[u] /\ s.token.user = u /\ pass[u] <= pass[u]
    BY DEF Issue, TypeOK
  <2> HIDE DEF s
  <2>3. shared'.token = s.token
    BY <2>1, WriteShown
  <2>4. CASE k = s.token
    BY <2>0, <2>2, <2>4, SessionAssumption DEF TypeOK
  <2>5. CASE k # s.token
    <3>1. Shown(k)' => Shown(k)
      BY <1>0, <2>0, <2>1, <2>3, <2>5 DEF Shown, Put, TypeOK
    <3> QED BY <1>3, <2>0, <3>1
  <2> QED BY <2>4, <2>5
<1>5. ASSUME NEW t \in Tabs, Logout(t) PROVE Around(k)
  <2>1. shared'.token = Nothing
    BY <1>0, <1>5, WriteShown DEF Logout
  <2>2. Shown(k)' => Shown(k)
    BY <1>0, <1>5, <2>1 DEF Logout, Put, Shown, TypeOK
  <2> QED BY <1>3, <1>5, <2>2 DEF Logout, callVars
<1>6. ASSUME NEW t \in Tabs, PasswordChanged(t) PROVE Around(k)
  <2>1. shared'.token = Nothing
    BY <1>0, <1>6, WriteShown DEF PasswordChanged
  <2>2. Shown(k)' => Shown(k) \/ k = changed[t]
    BY <1>0, <1>6, <2>1 DEF PasswordChanged, Put, Shown, TypeOK
  <2>3. UNCHANGED refresh /\ \A x \in Tabs : changed'[x] \in {changed[x], Nothing}
    BY <1>6 DEF PasswordChanged, TypeOK
  <2>4. Around(changed[t])
    BY DEF Around
  <2> QED BY <1>2, <2>2, <2>3, <2>4
<1>7. ASSUME NEW t \in Tabs, ChangePassword(t) PROVE Around(k) \/ k.gen <= pass'[k.user]
  <2>1. mem[t].token.user \in Users
    BY <1>7 DEF ChangePassword, Valid, Unexpired, TypeOK, Sessions, Tokens
  <2> DEFINE u == mem[t].token.user
             c == Issue(u, pass[u] + 1)
  <2>2. /\ pass' = [pass EXCEPT ![u] = pass[u] + 1] /\ changed' = [changed EXCEPT ![t] = c]
        /\ UNCHANGED <<shared, own, mem, refresh>>
    BY <1>7 DEF ChangePassword, storageVars
  <2>3. c.gen = pass[u] + 1 /\ c.user = u /\ pass[u] \in Nat
    BY <2>1 DEF Issue, TypeOK
  <2> HIDE DEF u, c
  <2>4. CASE k = c
    BY <2>1, <2>2, <2>3, <2>4 DEF TypeOK, u
  <2>5. CASE k # c
    BY <2>2, <2>5 DEF Around, TypeOK
  <2> QED BY <2>4, <2>5
<1>8. ASSUME NEW t \in Tabs, Continue(t) PROVE Around(k)
  <2>1. CASE Write(t, "user", Head(rest[t]).val) /\ UNCHANGED <<own, mem, callVars>>
    <3>1. shared'.token = shared.token
      BY <2>1 DEF Write, TypeOK, Sessions
    <3> QED BY <1>3, <2>1, <3>1 DEF Shown, callVars
  <2> QED BY <1>1, <1>8, <2>1 DEF Continue
<1>9. ASSUME NEW t \in Tabs, Deliver(t) PROVE Around(k)
  <2>1. UNCHANGED mem \/ \E s : Put(t, s) /\ s.token \in {Nothing, Stored(t).token, mem[t].token}
    <3>1. FollowToken(t) => UNCHANGED mem \/ \E s : Put(t, s) /\ s.token \in {Nothing, Stored(t).token, mem[t].token}
      BY <1>0 DEF FollowToken
    <3>2. ASSUME FollowUser(t)
          PROVE  UNCHANGED mem \/ \E s : Put(t, s) /\ s.token \in {Nothing, Stored(t).token, mem[t].token}
      <4>1. [mem[t] EXCEPT !.user = Or(Stored(t).user, @)].token = mem[t].token
        BY DEF TypeOK, Sessions
      <4> QED BY <3>2, <4>1 DEF FollowUser
    <3> QED BY <1>9, <3>1, <3>2 DEF Deliver
  <2>2. Shown(k)' => Shown(k)
    BY <1>0, <1>9, <2>1 DEF Deliver, Put, Shown, TypeOK, Stored, Or
  <2> QED BY <1>3, <1>9, <2>2 DEF Deliver, callVars
<1>10. ASSUME NEW t \in Tabs, Refused(t) \/ Timer(t) PROVE Around(k)
  BY <1>3, <1>10, ExpireShown DEF Refused, Timer, callVars
<1>11. ASSUME NEW t \in Tabs, RefreshStart(t) PROVE Around(k)
  <2>1. \A x \in Tabs : refresh'[x].start \in {refresh[x].start, mem[x].token}
                        /\ refresh'[x].got \in {refresh[x].got, Nothing}
    BY <1>11 DEF RefreshStart, Idle, TypeOK
  <2> QED BY <1>2, <1>11, <2>1 DEF RefreshStart, storageVars, Shown
<1>12. ASSUME NEW t \in Tabs, RefreshRun(t) PROVE Around(k)
  <2>0. \/ refresh' = [refresh EXCEPT ![t] = Idle] \/ refresh' = [refresh EXCEPT ![t].st = "posted"]
        \/ refresh' = refresh
    BY <1>12 DEF RefreshRun
  <2>1. \A x \in Tabs : refresh'[x].start \in {refresh[x].start, Nothing}
                        /\ refresh'[x].got \in {refresh[x].got, Nothing}
    <3>1. CASE refresh' = [refresh EXCEPT ![t] = Idle]
      BY <1>0, <3>1 DEF TypeOK
    <3>2. CASE refresh' = [refresh EXCEPT ![t].st = "posted"]
      BY <3>2 DEF TypeOK
    <3> QED BY <2>0, <3>1, <3>2
  <2>2. [mem[t] EXCEPT !.token = Stored(t).token].token = Stored(t).token
    BY DEF TypeOK, Sessions
  <2>3. Shown(k)' => Shown(k)
    BY <1>0, <1>12, <2>2 DEF RefreshRun, storageVars, Put, Shown, TypeOK, Stored, Or
  <2> QED BY <1>2, <1>12, <2>1, <2>3 DEF RefreshRun
<1>13. ASSUME NEW t \in Tabs, RefreshServe(t) PROVE Around(k) \/ k.gen <= pass'[k.user]
  <2> DEFINE b == refresh[t].start
  <2>0. UNCHANGED <<shared, own, mem, changed, pass>>
    BY <1>13 DEF RefreshServe, storageVars
  <2>1. CASE refresh' = [refresh EXCEPT ![t].st = "refused"]
    BY <1>2, <2>0, <2>1 DEF Shown, TypeOK
  <2>2. CASE Valid(b) /\ refresh' = [refresh EXCEPT ![t].st = "answered", ![t].got = Issue(b.user, b.gen)]
    <3>1. k = Issue(b.user, b.gen) => k.gen = b.gen /\ k.user = b.user
      BY DEF Issue
    <3>2. b \in Tokens /\ Around(b)
      BY <2>2 DEF Valid, Unexpired, TypeOK, Around
    <3>3. b.gen <= pass[b.user]
      BY <3>2 DEF KnownInv
    <3>4. Around(k) \/ k = Issue(b.user, b.gen)
      BY <2>0, <2>2 DEF Around, TypeOK
    <3> QED BY <2>0, <3>1, <3>3, <3>4
  <2> QED BY <1>13, <2>1, <2>2 DEF RefreshServe
<1>14. ASSUME NEW t \in Tabs, RefreshDone(t) PROVE Around(k)
  <2>1. \A x \in Tabs : refresh'[x].start \in {refresh[x].start, Nothing}
                        /\ refresh'[x].got \in {refresh[x].got, Nothing}
    BY <1>0, <1>14 DEF RefreshDone, TypeOK
  <2>2. Shown(k)' => Shown(k) \/ k = refresh[t].got
    <3> DEFINE s == [token |-> refresh[t].got, user |-> refresh[t].got.user]
    <3>1. refresh[t].st = "answered" => s \in Sessions /\ SetToken(t, s)
      BY <1>14 DEF RefreshDone, Answered, TypeOK, Sessions, Tokens
    <3>2. s.token = refresh[t].got
      OBVIOUS
    <3> HIDE DEF s
    <3> QED BY <1>14, <3>1, <3>2, ExpireShown, SetTokenShown DEF RefreshDone
  <2>3. Around(refresh[t].got)
    BY DEF Around
  <2> QED BY <1>2, <1>14, <2>1, <2>2, <2>3 DEF RefreshDone
<1>15. ASSUME NEW t \in Tabs, RefreshLost(t) PROVE Around(k)
  <2>1. \A x \in Tabs : refresh'[x].start \in {refresh[x].start, Nothing}
                        /\ refresh'[x].got \in {refresh[x].got, Nothing}
    BY <1>0, <1>15 DEF RefreshLost, TypeOK
  <2> QED BY <1>2, <1>15, <2>1 DEF RefreshLost, storageVars, Shown
<1>16. CASE Tick \/ UNCHANGED vars \/ \E t \in Tabs : Request(t)
  BY <1>3, <1>16 DEF Tick, vars, Request, storageVars, callVars, Shown
<1> QED BY <1>1, <1>4, <1>5, <1>6, <1>7, <1>8, <1>9, <1>10, <1>11, <1>12, <1>13, <1>14, <1>15, <1>16
        DEF Next, Acting, Reload, Refresh

\* The number of changes of a password only grows, as time only goes on.
LEMMA ServerGrows ==
  ASSUME TypeInv, [Next]_vars
  PROVE  horizon <= horizon' /\ \A u \in Users : pass[u] <= pass'[u]
<1> USE DEF TypeInv
<1>0. horizon \in Nat /\ \A u \in Users : pass[u] \in Nat
  BY DEF TypeOK
<1>1. CASE UNCHANGED <<horizon, pass>>
  BY <1>0, <1>1
<1>2. ASSUME NEW t \in Tabs, Acting(t) PROVE horizon <= horizon' /\ \A u \in Users : pass[u] <= pass'[u]
  <2>1. ASSUME ChangePassword(t)
        PROVE  horizon' = horizon /\ \A u \in Users : pass'[u] \in {pass[u], pass[u] + 1}
    BY <2>1 DEF ChangePassword, TypeOK
  <2>2. Logout(t) \/ Reload(t) \/ (\E u \in Users : Login(t, u)) => UNCHANGED <<horizon, pass>>
    BY DEF Logout, Reload, Boots, Login, serverVars
  <2> QED BY <1>0, <1>1, <1>2, <2>1, <2>2 DEF Acting
<1>3. ASSUME NEW t \in Tabs,
             Continue(t) \/ Deliver(t) \/ Request(t) \/ Refused(t) \/ Timer(t) \/ PasswordChanged(t)
      PROVE  UNCHANGED <<horizon, pass>>
  BY <1>3 DEF Continue, Boots, Deliver, Request, Refused, Timer, PasswordChanged, serverVars
<1>4. ASSUME NEW t \in Tabs, Refresh(t) PROVE UNCHANGED <<horizon, pass>>
  BY <1>4 DEF Refresh, RefreshStart, RefreshRun, RefreshServe, RefreshDone, RefreshLost, serverVars
<1>5. ASSUME Tick PROVE horizon <= horizon' /\ UNCHANGED pass
  BY <1>0, <1>5 DEF Tick
<1>6. UNCHANGED vars => UNCHANGED <<horizon, pass>>
  BY DEF vars, serverVars
<1> QED BY <1>0, <1>1, <1>2, <1>3, <1>4, <1>5, <1>6 DEF Next

LEMMA KnownStep == TypeInv /\ KnownInv /\ [Next]_vars => KnownInv'
<1> SUFFICES ASSUME TypeInv, KnownInv, [Next]_vars, NEW k \in Tokens, Around(k)'
             PROVE  k.gen <= pass'[k.user]
  BY DEF KnownInv
<1>0. TypeInv' /\ horizon <= horizon' /\ \A u \in Users : pass[u] <= pass'[u]
  BY TypeStep, ServerGrows
<1>1. k.user \in Users /\ k.gen \in Nat
  BY DEF Tokens
<1>2. pass[k.user] \in Nat /\ pass'[k.user] \in Nat /\ pass[k.user] <= pass'[k.user]
  BY <1>0, <1>1 DEF TypeInv, TypeOK
<1>3. Around(k) => k.gen <= pass[k.user]
  BY DEF KnownInv
<1> QED BY <1>1, <1>2, <1>3, TokenOrigin

LEMMA KnownInit == Init => KnownInv /\ RefusedInv
BY SessionAssumption DEF Init, KnownInv, RefusedInv, Around, NoSession, Idle

\* What is invalid stays invalid.
LEMMA InvalidStays ==
  ASSUME TypeInv, KnownInv, [Next]_vars, NEW k \in Tokens, Around(k), ~Valid(k)
  PROVE  ~(k.n > horizon' /\ k.gen = pass'[k.user])
<1>0. TypeInv' /\ horizon <= horizon' /\ \A u \in Users : pass[u] <= pass'[u]
  BY TypeStep, ServerGrows
<1>1. k.user \in Users /\ k.gen \in Nat /\ k.n \in Nat /\ k # Nothing
  BY SessionAssumption DEF Tokens
<1>2. /\ pass[k.user] \in Nat /\ pass'[k.user] \in Nat /\ pass[k.user] <= pass'[k.user]
      /\ horizon \in Nat /\ horizon' \in Nat /\ horizon <= horizon'
  BY <1>0, <1>1 DEF TypeInv, TypeOK
<1>3. k.gen <= pass[k.user]
  BY DEF KnownInv
<1> QED BY <1>1, <1>2, <1>3 DEF Valid, Unexpired

LEMMA RefusedStep == TypeInv /\ KnownInv /\ RefusedInv /\ [Next]_vars => RefusedInv'
<1> SUFFICES ASSUME TypeInv, KnownInv, RefusedInv, [Next]_vars,
                    NEW t \in Tabs, refresh'[t].st = "refused"
             PROVE  ~Valid(refresh[t].start)'
  BY DEF RefusedInv
<1>0. refresh'[t].st = "refused"
  OBVIOUS
<1>1. /\ refresh'[t].start = refresh[t].start
      /\ refresh[t].st = "refused" \/ ~Valid(refresh[t].start)
  <2> USE DEF TypeInv, TypeOK
  <2>1. CASE UNCHANGED refresh
    BY <2>1
  <2>2. ASSUME NEW x \in Tabs, NEW r, refresh' = [refresh EXCEPT ![x] = r], r.st # "refused"
        PROVE  UNCHANGED refresh[t]
    BY <2>2
  <2>3. Idle.st = "none"
    BY DEF Idle
  <2>4. ASSUME NEW x \in Tabs, Boots(x) \/ RefreshDone(x) \/ RefreshLost(x)
        PROVE  refresh' = [refresh EXCEPT ![x] = Idle]
    BY <2>4 DEF Boots, RefreshDone, RefreshLost
  <2>5. ASSUME NEW x \in Tabs, RefreshStart(x) PROVE UNCHANGED refresh[t]
    BY <2>5 DEF RefreshStart, Idle
  <2>6. ASSUME NEW x \in Tabs, RefreshRun(x) PROVE UNCHANGED refresh[t]
    <3>1. \/ refresh' = [refresh EXCEPT ![x] = Idle] \/ refresh' = [refresh EXCEPT ![x].st = "posted"]
          \/ refresh' = refresh
      BY <2>6 DEF RefreshRun
    <3> QED BY <2>2, <2>3, <3>1
  <2>7. ASSUME NEW x \in Tabs, RefreshServe(x)
        PROVE  /\ refresh'[t].start = refresh[t].start
               /\ refresh[t].st = "refused" \/ ~Valid(refresh[t].start)
    <3>1. CASE refresh' = [refresh EXCEPT ![x].st = "refused"] /\ ~Valid(refresh[x].start)
      BY <3>1
    <3>2. CASE refresh' = [refresh EXCEPT ![x].st = "answered",
                                          ![x].got = Issue(refresh[x].start.user, refresh[x].start.gen)]
      BY <1>0, <3>2
    <3> QED BY <2>7, <3>1, <3>2 DEF RefreshServe
  <2>8. ASSUME NEW x \in Tabs, Acting(x), ~Boots(x) PROVE UNCHANGED refresh
    BY <2>8 DEF Acting, Login, Logout, Reload, ChangePassword, callVars
  <2>9. ASSUME NEW x \in Tabs, ~Boots(x),
               Continue(x) \/ Deliver(x) \/ Request(x) \/ Refused(x) \/ Timer(x) \/ PasswordChanged(x)
        PROVE  UNCHANGED refresh
    BY <2>9 DEF Continue, Deliver, Request, Refused, Timer, PasswordChanged, callVars
  <2>10. Tick \/ UNCHANGED vars => UNCHANGED refresh
    BY DEF Tick, vars, callVars
  <2> QED BY <2>1, <2>2, <2>3, <2>4, <2>5, <2>6, <2>7, <2>8, <2>9, <2>10 DEF Next, Refresh
<1>2. ~Valid(refresh[t].start)
  BY <1>1 DEF RefusedInv
<1>3. CASE refresh[t].start \in Tokens
  <2>1. Around(refresh[t].start)
    BY DEF Around
  <2> DEFINE k == refresh[t].start
  <2>2. k # Nothing /\ ~(k.n > horizon' /\ k.gen = pass'[k.user])
    BY <1>2, <1>3, <2>1, InvalidStays, SessionAssumption DEF Valid, Unexpired
  <2> QED BY <1>1, <2>2 DEF Valid, Unexpired
<1>4. CASE refresh[t].start = Nothing
  BY <1>1, <1>4 DEF Valid, Unexpired
<1> QED BY <1>3, <1>4 DEF TypeInv, TypeOK

\* A shared session that the server accepts is ended by a user alone, stale refusals
\* excepted (markSessionExpired in authStore.ts, useSessionExpiryWatch.ts).
THEOREM OnlyUsersEndSessions == Spec => OldTabEndsNobody
<1> DEFINE Inv == TypeInv /\ KnownInv /\ RefusedInv
<1>1. Init => Inv
  BY TypeInit, KnownInit
<1>2. Inv /\ [Next]_vars => Inv'
  BY TypeStep, KnownStep, RefusedStep
<1>3. Inv /\ [Next]_vars =>
        [Valid(shared.token) /\ shared'.token = Nothing =>
           \E t \in Tabs : Logout(t) \/ PasswordChanged(t) \/ Stale(t)]_vars
  <2> SUFFICES ASSUME Inv, Next, Valid(shared.token), shared'.token = Nothing,
                      \A t \in Tabs : ~Logout(t) /\ ~PasswordChanged(t) /\ ~Stale(t)
               PROVE  FALSE
    OBVIOUS
  <2> USE DEF TypeInv
  <2>0. shared.token # Nothing /\ Unexpired(shared.token) /\ shared'.token # shared.token
    BY DEF Valid, Unexpired
  <2>1. ASSUME NEW t \in Tabs, Expire(t) PROVE mem[t].token = shared.token
    BY <2>0, <2>1 DEF Expire, TakesOver, Stored, Or, Scoped
  <2>2. ASSUME NEW t \in Tabs, Timer(t) PROVE FALSE
    BY <2>0, <2>1, <2>2 DEF Timer, Due
  <2>3. ASSUME NEW t \in Tabs, Refused(t) PROVE FALSE
    BY <2>1, <2>3 DEF Refused, Stale
  <2>4. ASSUME NEW t \in Tabs, RefreshDone(t) PROVE FALSE
    <3>1. CASE refresh[t].st = "answered"
      <4> DEFINE s == [token |-> refresh[t].got, user |-> refresh[t].got.user]
      <4>1. SetToken(t, s) /\ s.token # Nothing
        BY <2>4, <3>1 DEF RefreshDone, Answered
      <4> HIDE DEF s
      <4> QED BY <2>0, <4>1, WriteShown DEF SetToken
    <3>2. CASE refresh[t].st = "refused" /\ Expire(t)
      BY <2>1, <2>4, <3>2 DEF Stale, RefusedInv
    <3> QED BY <2>4, <3>1, <3>2 DEF RefreshDone
  <2>5. ASSUME NEW t \in Tabs, NEW u \in Users, Login(t, u) PROVE FALSE
    <3> DEFINE s == [token |-> Issue(u, pass[u]), user |-> u]
    <3>1. WritePair(t, s, <<>>) \/ WritePair(t, s, Reloading)
      BY <2>5 DEF Login
    <3>2. s.token # Nothing
      BY <2>5, IssueType DEF Login, TypeOK
    <3> HIDE DEF s
    <3> QED BY <3>1, <3>2, WriteShown
  <2>6. ASSUME NEW t \in Tabs, Write(t, "user", Head(rest[t]).val) PROVE FALSE
    BY <2>0, <2>6 DEF Write, TypeOK, Sessions
  <2>7. ASSUME UNCHANGED shared PROVE FALSE
    BY <2>0, <2>7
  <2>8. ASSUME NEW t \in Tabs, Acting(t) \/ Continue(t) PROVE FALSE
    BY <2>5, <2>6, <2>7, <2>8 DEF Acting, Reload, Boots, ChangePassword, Continue, storageVars
  <2>9. ASSUME NEW t \in Tabs, Deliver(t) \/ Request(t) PROVE FALSE
    BY <2>7, <2>9 DEF Deliver, Request, storageVars
  <2>10. ASSUME NEW t \in Tabs, Refresh(t) PROVE FALSE
    BY <2>4, <2>7, <2>10 DEF Refresh, RefreshStart, RefreshRun, RefreshServe, RefreshLost, storageVars
  <2>11. ~Tick
    BY <2>7 DEF Tick, storageVars
  <2> QED BY <2>2, <2>3, <2>8, <2>9, <2>10, <2>11 DEF Next
<1> QED BY <1>1, <1>2, <1>3, PTL DEF Spec, OldTabEndsNobody

-----------------------------------------------------------------------------
(* The tabs and the storage.                                               *)

UserOf(k) == IF k = Nothing THEN Nothing ELSE k.user

\* What a task may still have to do: the second write of a pair, a reload.
Shape(r) ==
  \/ r \in {<<>>, <<PageLoad>>}
  \/ \E v \in Users \cup {Nothing} : r \in {<<UserWrite(v)>>, <<UserWrite(v), PageLoad>>}
TasksInv == \A t \in Tabs : Shape(rest[t])

Writes(r) == r # <<>> /\ Head(r).do = "user"
Loading(r) == \E i \in 1..Len(r) : r[i] = PageLoad

\* One tab is between its two writes at a time, and the second is about the
\* user of the token.
SharedInv ==
  /\ \A s, t \in Tabs : Writing(s) /\ Writing(t) => s = t
  /\ \A t \in Tabs : Writing(t) => Head(rest[t]).val = UserOf(shared.token)
  /\ (\A t \in Tabs : ~Writing(t)) => shared.user = UserOf(shared.token)

\* A tab with a session of its own has it in memory.
ScopedInv ==
  \A t \in Tabs :
    /\ own[t].user = UserOf(own[t].token)
    /\ Scoped(t) => mem[t] = own[t]

\* A tab that is refreshing the token it has lost shows nobody.
LostInv ==
  \A t \in Tabs : refresh[t] # Idle /\ mem[t].token = Nothing => mem[t].user = Nothing

\* What a tab has not heard of yet is on its way to it.
HasToken(q) == \E i \in 1..Len(q) : q[i].key = "token"
HasUser(q) == \E i \in 1..Len(q) : q[i].key = "user" /\ q[i].put
UserWriter(t) == \E s \in Tabs \ {t} : Writing(s) /\ Head(rest[s]).val # shared.user

\* A tab that shows a session and is not about to reload has the token in the
\* storage, and no other user than that token's, or else will hear of it.
Follows(t) ==
  ~Scoped(t) /\ mem[t].token # Nothing /\ ~Loading(rest[t]) =>
    /\ mem[t].token # shared.token => HasToken(events[t])
    /\ shared.token # Nothing /\ mem[t].user \notin {Nothing, UserOf(shared.token)} =>
         HasUser(events[t]) \/ UserWriter(t)
FollowInv == \A t \in Tabs : Follows(t)

ViewInv == TasksInv /\ SharedInv /\ ScopedInv /\ LostInv /\ FollowInv

\* How a step concerns storage, memory and tasks.  The first write of a pair,
\* with the session of the tab afterwards:
Begins(t) ==
  \E s, o, m \in Sessions :
    /\ Free(t) /\ Write(t, "token", s.token) /\ s.user = UserOf(s.token)
    /\ own' = [own EXCEPT ![t] = o] /\ mem' = [mem EXCEPT ![t] = m]
    /\ o.user = UserOf(o.token)
    /\ \/ /\ rest' = [rest EXCEPT ![t] = <<UserWrite(s.user)>>]
          /\ (o = NoSession /\ m = s) \/ (o = m /\ o.token # Nothing)
       \/ /\ rest' = [rest EXCEPT ![t] = <<UserWrite(s.user), PageLoad>>]
          /\ o = NoSession /\ m = mem[t]

\* ... the second write,
Ends(t) ==
  /\ Writing(t) /\ Write(t, "user", Head(rest[t]).val)
  /\ rest' = [rest EXCEPT ![t] = Tail(@)]
  /\ UNCHANGED <<own, mem>>

\* ... a reload,
Loads(t) == ~Writing(t) /\ Boots(t)

\* ... a step of a tab alone: it gets a session of its own, loses its session, or
\* takes over the token in the storage.
Alone(t) ==
  /\ Free(t) /\ UNCHANGED <<shared, events, rest>>
  /\ \E o, m \in Sessions :
       /\ own' = [own EXCEPT ![t] = o] /\ mem' = [mem EXCEPT ![t] = m]
       /\ \/ o = m /\ o.token # Nothing /\ o.user = UserOf(o.token)
          \/ o = NoSession /\ m = NoSession
          \/ /\ ~Scoped(t) /\ o = own[t]
             /\ m.token = shared.token /\ m.token # Nothing
             /\ \/ m.user = shared.user
                \/ m.user = mem[t].user /\ (mem[t].token # Nothing \/ m.user = Nothing)

Still == UNCHANGED <<shared, events, rest, own, mem>>

\* The tab has the session it writes.
LEMMA BeginsPlain ==
  ASSUME TypeInv, NEW t \in Tabs, NEW s \in Sessions, s.user = UserOf(s.token), Free(t),
         WritePair(t, s, <<>>), own' = [own EXCEPT ![t] = NoSession], Put(t, s)
  PROVE  Begins(t)
<1>1. NoSession \in Sessions /\ NoSession.user = UserOf(NoSession.token)
  BY NoSessionType DEF NoSession, UserOf
<1>2. rest' = [rest EXCEPT ![t] = <<UserWrite(s.user)>>] /\ Write(t, "token", s.token)
  BY WritePairType DEF WritePair, TypeInv
<1>3. mem' = [mem EXCEPT ![t] = s]
  BY DEF Put
<1> SUFFICES \E x, o, m \in Sessions :
      /\ Free(t) /\ Write(t, "token", x.token) /\ x.user = UserOf(x.token)
      /\ own' = [own EXCEPT ![t] = o] /\ mem' = [mem EXCEPT ![t] = m]
      /\ o.user = UserOf(o.token)
      /\ rest' = [rest EXCEPT ![t] = <<UserWrite(x.user)>>]
      /\ o = NoSession /\ m = x
  BY DEF Begins
<1> QED BY <1>1, <1>2, <1>3

LEMMA ExpireViews ==
  ASSUME TypeInv, ScopedInv, NEW t \in Tabs, Free(t), Expire(t)
  PROVE  Still \/ Begins(t) \/ Alone(t)
<1> USE DEF TypeInv
<1>0. /\ NoSession \in Sessions /\ NoSession.token = Nothing /\ NoSession.user = Nothing
      /\ own[t] \in Sessions /\ mem[t] \in Sessions /\ own[t].user = UserOf(own[t].token)
  BY NoSessionType DEF NoSession, TypeOK, ScopedInv
<1>1. CASE Still
  BY <1>1
<1>2. CASE own' = [own EXCEPT ![t] = NoSession] /\ UNCHANGED <<shared, events, rest>> /\ Put(t, NoSession)
  BY <1>0, <1>2 DEF Alone, Put
<1>3. CASE ~Scoped(t) /\ WritePair(t, NoSession, <<>>) /\ UNCHANGED own /\ Put(t, NoSession)
  <2>1. own' = [own EXCEPT ![t] = NoSession]
    BY <1>0, <1>3 DEF Scoped, UserOf, NoSession, Sessions, TypeOK
  <2> QED BY <1>0, <1>3, <2>1, BeginsPlain DEF UserOf
<1>4. ASSUME mem[t].token # Nothing, TakesOver(t), UNCHANGED <<shared, events, rest, own>>,
             LET s == Stored(t) IN
               Put(t, IF mem[t].user = Nothing \/ s.user \in {Nothing, mem[t].user}
                        THEN [token |-> s.token, user |-> Or(s.user, mem[t].user)] ELSE NoSession)
      PROVE  Alone(t)
  <2>1. ~Scoped(t) /\ Stored(t) = shared /\ shared.token # Nothing
    <3>1. ~Scoped(t)
      BY <1>4 DEF TakesOver, Stored, Or, ScopedInv, Scoped
    <3>2. own[t].token = Nothing /\ own[t].user = Nothing
      BY <1>0, <3>1 DEF Scoped, UserOf
    <3>3. Stored(t) = shared
      BY <3>2 DEF Stored, Or, TypeOK, Sessions
    <3> QED BY <1>4, <3>1, <3>3 DEF TakesOver, Unexpired
  <2>2. own' = [own EXCEPT ![t] = own[t]]
    BY <1>4 DEF TypeOK
  <2>3. CASE Put(t, NoSession)
    <3>1. own[t] = NoSession
      BY <1>0, <2>1 DEF Scoped, UserOf, NoSession, Sessions
    <3> QED BY <1>0, <1>4, <2>2, <2>3, <3>1 DEF Alone, Put
  <2>4. CASE Put(t, [token |-> shared.token, user |-> Or(shared.user, mem[t].user)])
    <3> DEFINE m == [token |-> shared.token, user |-> Or(shared.user, mem[t].user)]
    <3>1. m \in Sessions /\ m.token = shared.token /\ m.user \in {shared.user, mem[t].user}
      BY <1>0 DEF TypeOK, Sessions, Or
    <3>2. mem' = [mem EXCEPT ![t] = m]
      BY <2>4 DEF Put
    <3> HIDE DEF m
    <3> QED BY <1>0, <1>4, <2>1, <2>2, <3>1, <3>2 DEF Alone
  <2> QED BY <1>4, <2>1, <2>3, <2>4
<1> QED BY <1>1, <1>2, <1>3, <1>4 DEF Expire, Still

LEMMA SetTokenViews ==
  ASSUME TypeInv, ScopedInv, NEW t \in Tabs, Free(t), NEW k \in Tokens,
         SetToken(t, [token |-> k, user |-> k.user])
  PROVE  Begins(t) \/ Alone(t)
<1> USE DEF TypeInv
<1> DEFINE s == [token |-> k, user |-> k.user]
<1>0. s \in Sessions /\ s.token = k /\ k # Nothing /\ s.user = UserOf(s.token)
  BY SessionAssumption DEF Sessions, Tokens, UserOf
<1>1. SetToken(t, s)
  OBVIOUS
<1> HIDE DEF s
<1>2. CASE own' = [own EXCEPT ![t] = s] /\ UNCHANGED <<shared, events, rest>>
  BY <1>0, <1>1, <1>2 DEF SetToken, Put, Alone
<1>3. CASE ~Scoped(t) /\ WritePair(t, s, <<>>) /\ UNCHANGED own
  <2>1. own' = [own EXCEPT ![t] = NoSession]
    BY <1>3 DEF ScopedInv, Scoped, UserOf, NoSession, Sessions, TypeOK
  <2> QED BY <1>0, <1>1, <1>3, <2>1, BeginsPlain DEF SetToken
<1> QED BY <1>1, <1>2, <1>3 DEF SetToken

LEMMA Views ==
  ASSUME TypeInv, ScopedInv, LostInv, [Next]_vars
  PROVE  \/ Still
         \/ \E t \in Tabs : Begins(t) \/ Ends(t) \/ Loads(t) \/ Alone(t) \/ Deliver(t)
<1> DEFINE Seen == \/ Still
                   \/ \E t \in Tabs : Begins(t) \/ Ends(t) \/ Loads(t) \/ Alone(t) \/ Deliver(t)
<1> USE DEF TypeInv
<1>0. /\ NoSession \in Sessions /\ NoSession.token = Nothing /\ NoSession.user = Nothing
      /\ NoSession.user = UserOf(NoSession.token)
  BY NoSessionType DEF NoSession, UserOf
<1>1. ASSUME NEW t \in Tabs, NEW u \in Users, Login(t, u) PROVE Begins(t)
  <2> DEFINE s == [token |-> Issue(u, pass[u]), user |-> u]
  <2>1. Issue(u, pass[u]) \in Tokens /\ Issue(u, pass[u]) # Nothing /\ Issue(u, pass[u]).user = u
    BY <1>1, IssueType DEF Login, TypeOK, Issue
  <2>2. s \in Sessions /\ s.user = UserOf(s.token)
    BY <2>1 DEF Sessions, UserOf
  <2>3. /\ Free(t) /\ own' = [own EXCEPT ![t] = NoSession]
        /\ \/ WritePair(t, s, <<>>) /\ Put(t, s)
           \/ WritePair(t, s, Reloading) /\ UNCHANGED mem
    BY <1>1 DEF Login
  <2> HIDE DEF s
  <2>4. CASE WritePair(t, s, <<>>) /\ Put(t, s)
    BY <2>2, <2>3, <2>4, BeginsPlain
  <2>5. CASE WritePair(t, s, Reloading) /\ UNCHANGED mem
    <3>1. rest' = [rest EXCEPT ![t] = <<UserWrite(s.user), PageLoad>>]
      <4>1. Reloading # <<>>
        BY DEF Reloading
      <4> QED BY <2>2, <2>5, <4>1, WritePairType
    <3>2. mem' = [mem EXCEPT ![t] = mem[t]] /\ mem[t] \in Sessions
      BY <2>5 DEF TypeOK
    <3> QED BY <1>0, <2>2, <2>3, <2>5, <3>1, <3>2 DEF Begins, WritePair
  <2> QED BY <2>3, <2>4, <2>5
<1>2. ASSUME NEW t \in Tabs, Logout(t) PROVE Begins(t)
  <2> QED BY <1>0, <1>2, BeginsPlain DEF Logout
<1>3. ASSUME NEW t \in Tabs, PasswordChanged(t) PROVE Begins(t)
  <2> DEFINE s == [token |-> changed[t], user |-> changed[t].user]
  <2>1. changed[t] \in Tokens
    BY <1>3 DEF PasswordChanged, TypeOK
  <2>2. s \in Sessions /\ s.user = UserOf(s.token) /\ s.token # Nothing
    BY <1>3, <2>1 DEF PasswordChanged, Sessions, Tokens, UserOf
  <2>3. /\ Free(t) /\ own' = [own EXCEPT ![t] = s] /\ mem' = [mem EXCEPT ![t] = s]
        /\ WritePair(t, NoSession, <<>>)
    BY <1>3 DEF PasswordChanged, Put
  <2> HIDE DEF s
  <2>4. rest' = [rest EXCEPT ![t] = <<UserWrite(NoSession.user)>>]
    BY <1>0, <2>3, WritePairType
  <2> QED BY <1>0, <2>2, <2>3, <2>4 DEF Begins, WritePair
<1>4. ASSUME NEW t \in Tabs, Reload(t) PROVE Loads(t)
  BY <1>4 DEF Reload, Loads, Free, Writing
<1>5. ASSUME NEW t \in Tabs, Continue(t) PROVE Loads(t) \/ Ends(t)
  BY <1>5 DEF Continue, Loads, Ends, Writing, Free
<1>6. ASSUME NEW t \in Tabs, Refused(t) \/ Timer(t) PROVE Seen
  BY <1>6, ExpireViews DEF Refused, Timer
<1>7. ASSUME NEW t \in Tabs, RefreshRun(t) PROVE Seen
  <2>1. CASE UNCHANGED mem
    BY <1>7, <2>1 DEF RefreshRun, storageVars, Still
  <2>2. CASE Put(t, [mem[t] EXCEPT !.token = Stored(t).token]) /\ Newer(t)
    <3> DEFINE m == [mem[t] EXCEPT !.token = Stored(t).token]
    <3>1. /\ m \in Sessions /\ m.token = Stored(t).token /\ m.user = mem[t].user
          /\ m = mem[t] \/ m.token # mem[t].token
      BY StoredType DEF TypeOK, Sessions
    <3>2. mem' = [mem EXCEPT ![t] = m]
      BY <2>2 DEF Put
    <3> HIDE DEF m
    <3>3. CASE m = mem[t]
      <4>1. UNCHANGED mem
        BY <3>2, <3>3 DEF TypeOK
      <4> QED BY <2>1, <4>1
    <3>4. CASE m.token # mem[t].token
      <4>1. ~Scoped(t) /\ Stored(t).token = shared.token
        BY <3>1, <3>4 DEF Scoped, ScopedInv, Stored, Or
      <4>2. m.token # Nothing /\ refresh[t] # Idle /\ Free(t) /\ UNCHANGED <<shared, events, rest, own>>
        BY <1>7, <2>2, <3>1 DEF RefreshRun, Newer, Unexpired, Idle, storageVars
      <4>3. mem[t].token # Nothing \/ m.user = Nothing
        BY <3>1, <4>2 DEF LostInv
      <4>4. own' = [own EXCEPT ![t] = own[t]] /\ own[t] \in Sessions
        BY <4>2 DEF TypeOK
      <4> QED BY <3>1, <3>2, <4>1, <4>2, <4>3, <4>4 DEF Alone
    <3> QED BY <3>1, <3>3, <3>4
  <2> QED BY <1>7, <2>1, <2>2 DEF RefreshRun
<1>8. ASSUME NEW t \in Tabs, RefreshDone(t) PROVE Seen
  <2>1. CASE refresh[t].st = "answered"
    <3>1. refresh[t].got \in Tokens
      BY <2>1 DEF Answered, TypeOK
    <3> QED BY <1>8, <2>1, <3>1, SetTokenViews DEF RefreshDone
  <2>2. CASE Expire(t)
    BY <1>8, <2>2, ExpireViews DEF RefreshDone
  <2> QED BY <1>8, <2>1, <2>2 DEF RefreshDone
<1>9. ASSUME NEW t \in Tabs, ChangePassword(t) \/ Request(t) \/ RefreshStart(t) \/ RefreshServe(t) \/ RefreshLost(t)
      PROVE Still
  BY <1>9 DEF ChangePassword, Request, RefreshStart, RefreshServe, RefreshLost, storageVars, Still
<1>10. Tick \/ UNCHANGED vars => Still
  BY DEF Tick, vars, storageVars, Still
<1> QED BY <1>1, <1>2, <1>3, <1>4, <1>5, <1>6, <1>7, <1>8, <1>9, <1>10 DEF Next, Acting, Refresh

LEMMA Shapes ==
  ASSUME NEW v \in Users \cup {Nothing}
  PROVE  /\ ~Writes(<<>>) /\ ~Loading(<<>>) /\ ~Writes(<<PageLoad>>) /\ Loading(<<PageLoad>>)
         /\ Writes(<<UserWrite(v)>>) /\ Head(<<UserWrite(v)>>).val = v
         /\ Tail(<<UserWrite(v)>>) = <<>> /\ ~Loading(<<UserWrite(v)>>)
         /\ Writes(<<UserWrite(v), PageLoad>>) /\ Head(<<UserWrite(v), PageLoad>>).val = v
         /\ Tail(<<UserWrite(v), PageLoad>>) = <<PageLoad>> /\ Loading(<<UserWrite(v), PageLoad>>)
<1>1. UserWrite(v) \in Todo /\ PageLoad \in Todo
  BY DEF UserWrite, PageLoad, Todo
<1>2. /\ UserWrite(v).do = "user" /\ UserWrite(v).val = v /\ PageLoad.do = "reload"
      /\ UserWrite(v) # PageLoad
  BY DEF UserWrite, PageLoad
<1>3. /\ Head(<<PageLoad>>) = PageLoad /\ Head(<<UserWrite(v)>>) = UserWrite(v)
      /\ Tail(<<UserWrite(v)>>) = <<>> /\ Head(<<UserWrite(v), PageLoad>>) = UserWrite(v)
      /\ Tail(<<UserWrite(v), PageLoad>>) = <<PageLoad>>
      /\ <<UserWrite(v)>> # <<>> /\ <<UserWrite(v), PageLoad>> # <<>>
  BY <1>1, PairOfTasks
<1>4. ~Writes(<<>>) /\ ~Loading(<<>>)
  BY DEF Writes, Loading
<1>5. Loading(<<PageLoad>>) /\ Loading(<<UserWrite(v), PageLoad>>)
  BY DEF Loading
<1>6. ~Loading(<<UserWrite(v)>>)
  BY <1>2 DEF Loading
<1>7. ~Writes(<<PageLoad>>) /\ Writes(<<UserWrite(v)>>) /\ Writes(<<UserWrite(v), PageLoad>>)
  BY <1>2, <1>3 DEF Writes
<1> QED BY <1>2, <1>3, <1>4, <1>5, <1>6, <1>7

LEMMA ShapeAfter ==
  ASSUME NEW r, Shape(r)
  PROVE  /\ Writes(r) => /\ Shape(Tail(r)) /\ ~Writes(Tail(r))
                         /\ (Loading(Tail(r)) <=> Loading(r))
         /\ r = <<>> => ~Writes(r) /\ ~Loading(r)
<1>1. CASE r \in {<<>>, <<PageLoad>>}
  BY <1>1, Shapes
<1>2. ASSUME NEW v \in Users \cup {Nothing}, r \in {<<UserWrite(v)>>, <<UserWrite(v), PageLoad>>}
      PROVE  /\ Shape(Tail(r)) /\ ~Writes(Tail(r)) /\ (Loading(Tail(r)) <=> Loading(r))
             /\ r # <<>>
  BY <1>2, Shapes DEF Shape, Writes
<1> QED BY <1>1, <1>2 DEF Shape

\* Events: what one that is put at the end or taken from the front changes.
LEMMA Later ==
  ASSUME NEW q \in Seq(Event), NEW e \in Event
  PROVE  /\ HasToken(q) \/ e.key = "token" => HasToken(Append(q, e))
         /\ HasUser(q) \/ (e.key = "user" /\ e.put) => HasUser(Append(q, e))
<1>1. /\ Len(Append(q, e)) = Len(q) + 1 /\ Len(q) \in Nat
      /\ \A i \in 1..Len(q) : Append(q, e)[i] = q[i]
      /\ Append(q, e)[Len(q) + 1] = e
  BY AppendProperties
<1>2. 1..Len(q) \subseteq 1..Len(q) + 1 /\ Len(q) + 1 \in 1..Len(q) + 1
  BY <1>1
<1> DEFINE a == Append(q, e)
<1> HIDE DEF a
<1> QED BY <1>1, <1>2 DEF HasToken, HasUser, a

LEMMA Taken ==
  ASSUME NEW q \in Seq(Event), q # <<>>
  PROVE  /\ HasToken(q) => Head(q).key = "token" \/ HasToken(Tail(q))
         /\ HasUser(q) => (Head(q).key = "user" /\ Head(q).put) \/ HasUser(Tail(q))
<1> DEFINE r == Tail(q)
<1>1. /\ Head(q) = q[1] /\ Len(r) = Len(q) - 1 /\ Len(q) \in Nat
      /\ \A i \in 1..Len(r) : r[i] = q[i + 1]
  BY HeadTailProperties
<1> HIDE DEF r
<1>2. ASSUME NEW i \in 1..Len(q), i # 1 PROVE i - 1 \in 1..Len(r) /\ r[i - 1] = q[i]
  BY <1>1, <1>2
<1> SUFFICES /\ HasToken(q) => Head(q).key = "token" \/ HasToken(r)
             /\ HasUser(q) => (Head(q).key = "user" /\ Head(q).put) \/ HasUser(r)
  BY DEF r
<1> QED BY <1>1, <1>2 DEF HasToken, HasUser

LEMMA Writer == \A t \in Tabs : Writing(t) <=> Writes(rest[t])
BY DEF Writing, Writes

LEMMA TasksStep ==
  ASSUME TypeInv, TasksInv, NEW t \in Tabs,
         Begins(t) \/ Ends(t) \/ Loads(t) \/ Alone(t) \/ Deliver(t)
  PROVE  TasksInv'
<1>1. UNCHANGED rest => TasksInv'
  BY DEF TasksInv
<1>2. ASSUME NEW r, Shape(r), rest' = [rest EXCEPT ![t] = r] PROVE TasksInv'
  BY <1>2 DEF TasksInv, TypeInv, TypeOK
<1>3. /\ Shape(<<>>) /\ Shape(Reloading)
      /\ \A v \in Users \cup {Nothing} : Shape(<<UserWrite(v)>>) /\ Shape(<<UserWrite(v), PageLoad>>)
  BY NoSessionType DEF Shape
<1>4. CASE Begins(t)
  BY <1>2, <1>3, <1>4 DEF Begins, Sessions
<1>5. CASE Ends(t)
  <2>1. Shape(Tail(rest[t])) /\ rest' = [rest EXCEPT ![t] = Tail(rest[t])]
    BY <1>5, Writer, ShapeAfter DEF Ends, TasksInv
  <2> QED BY <1>2, <2>1
<1>6. CASE Loads(t)
  <2>1. \E r \in {<<>>, Reloading} : rest' = [rest EXCEPT ![t] = r]
    BY <1>6 DEF Loads, Boots
  <2> QED BY <1>2, <1>3, <2>1
<1>7. CASE Alone(t)
  BY <1>1, <1>7 DEF Alone
<1>8. CASE Deliver(t)
  BY <1>1, <1>2, <1>3, <1>8 DEF Deliver, FollowToken, FollowUser
<1> QED BY <1>4, <1>5, <1>6, <1>7, <1>8

\* Steps that write nothing leave the writers as they are.
LEMMA SameWriters ==
  ASSUME TypeInv, TasksInv, NEW t \in Tabs, Loads(t) \/ Alone(t) \/ Deliver(t)
  PROVE  /\ ~Writing(t) /\ ~Writing(t)' /\ shared' = shared
         /\ \A s \in Tabs \ {t} : rest'[s] = rest[s]
<1>0. ~Writes(<<>>) /\ ~Writes(Reloading)
  BY NoSessionType, Shapes
<1>1. /\ shared' = shared /\ ~Writing(t)
      /\ UNCHANGED rest \/ \E r \in {<<>>, Reloading} : rest' = [rest EXCEPT ![t] = r]
  BY DEF Loads, Alone, Deliver, Boots, FollowToken, FollowUser, Free, Writing
<1>2. ~Writes(rest'[t]) /\ \A s \in Tabs \ {t} : rest'[s] = rest[s]
  BY <1>0, <1>1, Writer DEF TypeInv, TypeOK
<1> QED BY <1>1, <1>2 DEF Writing, Writes

LEMMA SharedStep ==
  ASSUME TypeInv, TasksInv, SharedInv, NEW t \in Tabs,
         Begins(t) \/ Ends(t) \/ Loads(t) \/ Alone(t) \/ Deliver(t)
  PROVE  SharedInv'
<1>1. CASE Loads(t) \/ Alone(t) \/ Deliver(t)
  BY <1>1, SameWriters DEF SharedInv, Writing
<1>2. CASE Begins(t)
  <2>1. PICK s \in Sessions :
          /\ Write(t, "token", s.token) /\ s.user = UserOf(s.token)
          /\ rest' = [rest EXCEPT ![t] = <<UserWrite(s.user)>>]
             \/ rest' = [rest EXCEPT ![t] = <<UserWrite(s.user), PageLoad>>]
    BY <1>2 DEF Begins
  <2>2. s.user \in Users \cup {Nothing}
    BY DEF Sessions
  <2>3. Writes(rest'[t]) /\ Head(rest'[t]).val = UserOf(s.token)
    BY <2>1, <2>2, Shapes DEF TypeInv, TypeOK
  <2>4. \A x \in Tabs \ {t} : ~Writing(x) /\ rest'[x] = rest[x]
    BY <2>1 DEF Write, TypeInv, TypeOK
  <2>5. shared'.token = s.token
    BY <2>1 DEF Write, TypeInv, TypeOK, Sessions
  <2> QED BY <2>3, <2>4, <2>5 DEF SharedInv, Writing, Writes
<1>3. CASE Ends(t)
  <2>1. \A x \in Tabs \ {t} : ~Writing(x) /\ rest'[x] = rest[x]
    BY <1>3 DEF Ends, Write, TypeInv, TypeOK
  <2>2. rest'[t] = Tail(rest[t]) /\ ~Writes(rest'[t])
    BY <1>3, Writer, ShapeAfter DEF Ends, TasksInv, TypeInv, TypeOK
  <2>3. shared'.token = shared.token /\ shared'.user = UserOf(shared.token)
    BY <1>3 DEF Ends, Write, SharedInv, TypeInv, TypeOK, Sessions
  <2> QED BY <2>1, <2>2, <2>3 DEF SharedInv, Writing, Writes
<1> QED BY <1>1, <1>2, <1>3

LEMMA ScopedStep ==
  ASSUME TypeInv, ScopedInv, NEW t \in Tabs,
         Begins(t) \/ Ends(t) \/ Loads(t) \/ Alone(t) \/ Deliver(t)
  PROVE  ScopedInv'
<1>0. own[t] \in Sessions /\ NoSession.token = Nothing /\ NoSession.user = UserOf(NoSession.token)
  BY DEF TypeInv, TypeOK, NoSession, UserOf
<1>1. ASSUME NEW o, NEW m, own' = [own EXCEPT ![t] = o], mem' = [mem EXCEPT ![t] = m],
             o.user = UserOf(o.token), o.token # Nothing => o = m
      PROVE  ScopedInv'
  BY <1>1 DEF ScopedInv, Scoped, TypeInv, TypeOK
<1>2. CASE Begins(t)
  BY <1>0, <1>1, <1>2 DEF Begins
<1>3. CASE Ends(t)
  BY <1>3 DEF Ends, ScopedInv, Scoped
<1>4. CASE Loads(t)
  <2>1. Scoped(t) => own[t].user # Nothing
    BY SessionAssumption DEF Scoped, ScopedInv, UserOf, TypeInv, TypeOK, Sessions, Tokens
  <2>2. Scoped(t) => Stored(t) = own[t]
    BY <1>0, <2>1 DEF Scoped, Stored, Or, Sessions
  <2>3. own' = [own EXCEPT ![t] = own[t]] /\ mem' = [mem EXCEPT ![t] = Stored(t)]
    BY <1>4 DEF Loads, Boots, Put, TypeInv, TypeOK
  <2> QED BY <1>1, <2>2, <2>3 DEF ScopedInv, Scoped
<1>5. CASE Alone(t)
  <2>1. PICK o, m \in Sessions :
          /\ own' = [own EXCEPT ![t] = o] /\ mem' = [mem EXCEPT ![t] = m]
          /\ \/ o = m /\ o.user = UserOf(o.token)
             \/ o = NoSession
             \/ ~Scoped(t) /\ o = own[t]
    BY <1>5 DEF Alone
  <2>2. o.user = UserOf(o.token) /\ (o.token # Nothing => o = m)
    BY <1>0, <2>1 DEF ScopedInv, Scoped
  <2> QED BY <1>1, <2>1, <2>2
<1>6. CASE Deliver(t)
  <2>1. own' = own /\ (\A x \in Tabs \ {t} : mem'[x] = mem[x])
    BY <1>6 DEF Deliver, FollowToken, FollowUser, Put, TypeInv, TypeOK
  <2>2. Scoped(t) => mem' = mem
    BY <1>6 DEF Deliver
  <2> QED BY <2>1, <2>2 DEF ScopedInv, Scoped
<1> QED BY <1>2, <1>3, <1>4, <1>5, <1>6

LEMMA LostStep == ASSUME TypeInv, LostInv, [Next]_vars PROVE LostInv'
<1> USE DEF TypeInv
<1> DEFINE Kept(t) == mem'[t] = mem[t] /\ (refresh'[t] # Idle => refresh[t] # Idle \/ SignedIn(t))
           Shows(t) == mem'[t].token # Nothing \/ mem'[t].user = Nothing \/ refresh'[t] = Idle
<1>0. NoSession.token = Nothing /\ NoSession.user = Nothing
  BY DEF NoSession
<1>1. ASSUME \A t \in Tabs : Kept(t) \/ Shows(t) PROVE LostInv'
  BY <1>1 DEF LostInv, SignedIn
<1>2. ASSUME NEW t \in Tabs, \A x \in Tabs \ {t} : Kept(x), Kept(t) \/ Shows(t) PROVE LostInv'
  BY <1>1, <1>2
<1>3. ASSUME UNCHANGED <<mem, refresh>> PROVE LostInv'
  BY <1>3 DEF LostInv
<1>4. ASSUME NEW t \in Tabs, NEW m, Put(t, m), UNCHANGED refresh,
             m.token # Nothing \/ m.user = Nothing \/ m = mem[t]
      PROVE  LostInv'
  BY <1>2, <1>4 DEF Put, TypeOK
<1>5. ASSUME NEW t \in Tabs, Expire(t) PROVE
        \/ UNCHANGED mem
        \/ \E m : Put(t, m) /\ (m.token # Nothing \/ m.user = Nothing)
  BY <1>0, <1>5 DEF Expire, TakesOver, Unexpired
<1>6. ASSUME NEW t \in Tabs, NEW u \in Users, Login(t, u) PROVE LostInv'
  BY <1>3, <1>4, <1>6, IssueType DEF Login, callVars, TypeOK
<1>7. ASSUME NEW t \in Tabs, Logout(t) PROVE LostInv'
  BY <1>0, <1>4, <1>7 DEF Logout, callVars
<1>8. ASSUME NEW t \in Tabs, PasswordChanged(t) PROVE LostInv'
  BY <1>4, <1>8 DEF PasswordChanged
<1>9. ASSUME NEW t \in Tabs, Boots(t) PROVE LostInv'
  <2>1. \A x \in Tabs \ {t} : mem'[x] = mem[x] /\ refresh'[x] = refresh[x]
    BY <1>9 DEF Boots, Put, TypeOK
  <2>2. refresh'[t] = Idle
    BY <1>9 DEF Boots, TypeOK
  <2> QED BY <1>2, <2>1, <2>2
<1>10. ASSUME NEW t \in Tabs, Write(t, "user", Head(rest[t]).val), UNCHANGED <<mem, callVars>> PROVE LostInv'
  BY <1>3, <1>10 DEF callVars
<1>11. ASSUME NEW t \in Tabs, Deliver(t) PROVE LostInv'
  <2>1. \/ UNCHANGED mem
        \/ \E m : Put(t, m) /\ (m.token # Nothing \/ m.user = Nothing \/ m = mem[t])
    <3>1. ASSUME mem[t].token # Nothing PROVE [mem[t] EXCEPT !.user = Or(Stored(t).user, @)].token # Nothing
      BY <3>1 DEF TypeOK, Sessions
    <3>2. ASSUME FollowUser(t), mem[t].token # Nothing
          PROVE  \/ UNCHANGED mem
                 \/ \E m : Put(t, m) /\ (m.token # Nothing \/ m.user = Nothing \/ m = mem[t])
      BY <3>1, <3>2 DEF FollowUser
    <3>3. ASSUME FollowToken(t)
          PROVE  \/ UNCHANGED mem
                 \/ \E m : Put(t, m) /\ (m.token # Nothing \/ m.user = Nothing \/ m = mem[t])
      BY <1>0, <3>3 DEF FollowToken
    <3> QED BY <1>11, <3>2, <3>3 DEF Deliver
  <2>2. UNCHANGED refresh
    BY <1>11 DEF Deliver, callVars
  <2> QED BY <1>3, <1>4, <2>1, <2>2
<1>12. ASSUME NEW t \in Tabs, Refused(t) \/ Timer(t) PROVE LostInv'
  BY <1>3, <1>4, <1>5, <1>12 DEF Refused, Timer, callVars
<1>13. ASSUME NEW t \in Tabs, RefreshDone(t) PROVE LostInv'
  <2>1. \A x \in Tabs \ {t} : mem'[x] = mem[x] /\ refresh'[x] = refresh[x]
    BY <1>5, <1>13 DEF RefreshDone, SetToken, Put, TypeOK
  <2>2. refresh'[t] = Idle
    BY <1>13 DEF RefreshDone, TypeOK
  <2> QED BY <1>2, <2>1, <2>2
<1>14. ASSUME NEW t \in Tabs, RefreshRun(t) PROVE LostInv'
  <2>1. \A x \in Tabs \ {t} : mem'[x] = mem[x] /\ refresh'[x] = refresh[x]
    BY <1>14 DEF RefreshRun, Put, TypeOK
  <2>2. UNCHANGED mem \/ refresh'[t] = Idle
    BY <1>14 DEF RefreshRun, TypeOK
  <2>3. refresh[t] # Idle
    BY <1>14 DEF RefreshRun, Idle
  <2> QED BY <1>2, <2>1, <2>2, <2>3
<1>15. ASSUME NEW t \in Tabs, RefreshStart(t) \/ RefreshServe(t) \/ RefreshLost(t) PROVE LostInv'
  <2>1. \A x \in Tabs \ {t} : mem'[x] = mem[x] /\ refresh'[x] = refresh[x]
    BY <1>15 DEF RefreshStart, RefreshServe, RefreshLost, TypeOK
  <2>2. mem' = mem /\ (refresh[t] # Idle \/ SignedIn(t))
    BY <1>15 DEF RefreshStart, RefreshServe, RefreshLost, Idle
  <2> QED BY <1>2, <2>1, <2>2
<1>16. ASSUME NEW t \in Tabs, ChangePassword(t) \/ Request(t) PROVE LostInv'
  BY <1>3, <1>16 DEF ChangePassword, Request
<1>17. Tick \/ UNCHANGED vars => LostInv'
  BY <1>3 DEF Tick, vars, callVars
<1> QED
  BY <1>6, <1>7, <1>8, <1>9, <1>10, <1>11, <1>12, <1>13, <1>14, <1>15, <1>16, <1>17
  DEF Next, Acting, Reload, Continue, Refresh

\* What the storage says of the user is about its token, or will be corrected.
LEMMA Agrees ==
  ASSUME SharedInv, NEW t \in Tabs, ~Writing(t)
  PROVE  shared.user = UserOf(shared.token) \/ UserWriter(t)
BY DEF SharedInv, UserWriter

\* What a write of the storage does to the events of a tab.
LEMMA Hears ==
  ASSUME TypeInv, NEW t \in Tabs, NEW x \in Tabs, NEW key \in {"token", "user"}, NEW val,
         Write(t, key, val)
  PROVE  /\ HasToken(events[x]) => HasToken(events'[x])
         /\ HasUser(events[x]) => HasUser(events'[x])
         /\ x # t /\ key = "token" /\ shared.token # val => HasToken(events'[x])
         /\ x # t /\ key = "user" /\ shared.user # val /\ val # Nothing => HasUser(events'[x])
<1> DEFINE e == [key |-> key, put |-> val # Nothing]
<1>1. events[x] \in Seq(Event) /\ e \in Event /\ e.key = key /\ e.put = (val # Nothing)
  BY DEF TypeInv, TypeOK, Event
<1>2. events'[x] = IF x = t \/ shared[key] = val THEN events[x] ELSE Append(events[x], e)
  BY DEF Write
<1> HIDE DEF e
<1>3. CASE x = t \/ shared[key] = val
  BY <1>2, <1>3
<1>4. CASE ~(x = t \/ shared[key] = val)
  <2>1. events'[x] = Append(events[x], e)
    BY <1>2, <1>4
  <2> QED BY <1>1, <2>1, Later
<1> QED BY <1>3, <1>4

\* A tab that the step is not about.
LEMMA FollowOther ==
  ASSUME TypeInv, TasksInv, NEW t \in Tabs, NEW x \in Tabs, x # t, Follows(x),
         Loads(t) \/ Alone(t) \/ Deliver(t)
  PROVE  Follows(x)'
<1>1. shared' = shared /\ rest'[x] = rest[x] /\ (UserWriter(x) => UserWriter(x)')
  BY SameWriters DEF UserWriter, Writing
<1>2. own'[x] = own[x] /\ mem'[x] = mem[x] /\ events'[x] = events[x]
  BY DEF Loads, Alone, Deliver, Boots, Put, FollowToken, FollowUser, TypeInv, TypeOK
<1> QED BY <1>1, <1>2 DEF Follows, Scoped

LEMMA FollowBegins ==
  ASSUME TypeInv, TasksInv, SharedInv, NEW t \in Tabs, NEW x \in Tabs, Follows(x), Begins(t)
  PROVE  Follows(x)'
<1>1. PICK s, o, m \in Sessions :
        /\ Free(t) /\ Write(t, "token", s.token) /\ s.user = UserOf(s.token)
        /\ own' = [own EXCEPT ![t] = o] /\ mem' = [mem EXCEPT ![t] = m]
        /\ \/ /\ rest' = [rest EXCEPT ![t] = <<UserWrite(s.user)>>]
              /\ (o = NoSession /\ m = s) \/ (o = m /\ o.token # Nothing)
           \/ rest' = [rest EXCEPT ![t] = <<UserWrite(s.user), PageLoad>>]
  BY DEF Begins
<1>2. shared'.token = s.token /\ shared'.user = shared.user
  BY <1>1 DEF Write, TypeInv, TypeOK, Sessions
<1>3. s.user \in Users \cup {Nothing}
  BY DEF Sessions
<1>4. Writing(t)' /\ Head(rest'[t]).val = s.user
  BY <1>1, <1>3, Shapes DEF Writing, Writes, TypeInv, TypeOK
<1>5. CASE x = t
  <2>1. own'[t] = o /\ mem'[t] = m
    BY <1>1 DEF TypeInv, TypeOK
  <2>2. Loading(<<UserWrite(s.user), PageLoad>>)
    BY <1>3, Shapes
  <2>3. \/ m.token = shared'.token /\ m.user = UserOf(shared'.token)
        \/ o.token # Nothing
        \/ Loading(rest'[t])
    BY <1>1, <1>2, <2>2 DEF TypeInv, TypeOK
  <2> QED BY <1>5, <2>1, <2>3 DEF Follows, Scoped
<1>6. CASE x # t
  <2>1. own'[x] = own[x] /\ mem'[x] = mem[x] /\ rest'[x] = rest[x]
    BY <1>1, <1>6 DEF TypeInv, TypeOK
  <2>2. /\ HasToken(events[x]) => HasToken(events'[x])
        /\ HasUser(events[x]) => HasUser(events'[x])
        /\ shared.token # s.token => HasToken(events'[x])
    BY <1>1, <1>6, Hears
  <2>3. CASE s.user # shared.user
    <3>1. UserWriter(x)'
      BY <1>2, <1>4, <1>6, <2>3 DEF UserWriter
    <3> QED BY <1>2, <2>1, <2>2, <3>1 DEF Follows, Scoped
  <2>4. CASE s.user = shared.user
    <3>1. \A y \in Tabs : ~Writing(y)
      BY <1>1 DEF Write, Free, Writing
    <3>2. UserOf(shared.token) = UserOf(s.token) /\ ~UserWriter(x)
      BY <1>1, <2>4, <3>1 DEF SharedInv, UserWriter
    <3>3. s.token # Nothing => shared.token # Nothing
      BY <3>2, SessionAssumption DEF UserOf, Sessions, Tokens
    <3> QED BY <1>2, <2>1, <2>2, <3>2, <3>3 DEF Follows, Scoped
  <2> QED BY <2>3, <2>4
<1> QED BY <1>5, <1>6

LEMMA FollowEnds ==
  ASSUME TypeInv, TasksInv, SharedInv, NEW t \in Tabs, NEW x \in Tabs, Follows(x), Ends(t)
  PROVE  Follows(x)'
<1> DEFINE val == Head(rest[t]).val
<1>1. /\ Write(t, "user", val) /\ Writing(t) /\ val = UserOf(shared.token)
      /\ shared'.token = shared.token
  BY DEF Ends, Write, SharedInv, TypeInv, TypeOK, Sessions
<1>2. own' = own /\ mem' = mem /\ (Loading(rest'[x]) <=> Loading(rest[x]))
  BY Writer, ShapeAfter DEF Ends, TasksInv, TypeInv, TypeOK
<1>3. /\ HasToken(events[x]) => HasToken(events'[x])
      /\ HasUser(events[x]) => HasUser(events'[x])
      /\ x # t /\ shared.user # val /\ val # Nothing => HasUser(events'[x])
  BY <1>1, Hears
<1>4. UserWriter(x) => x # t /\ shared.user # val
  BY <1>1 DEF UserWriter, SharedInv
<1>5. shared.token # Nothing => val # Nothing
  BY <1>1, SessionAssumption DEF UserOf, TypeInv, TypeOK, Sessions, Tokens
<1> HIDE DEF val
<1> QED BY <1>1, <1>2, <1>3, <1>4, <1>5 DEF Follows, Scoped

\* What the tab takes over from the storage agrees with it.
LEMMA FollowMine ==
  ASSUME TypeInv, TasksInv, SharedInv, ScopedInv, NEW t \in Tabs, Follows(t),
         Loads(t) \/ Alone(t) \/ Deliver(t)
  PROVE  Follows(t)'
<1>0. ~Scoped(t) => own[t].token = Nothing /\ own[t].user = Nothing /\ Stored(t) = shared
  BY DEF Scoped, ScopedInv, UserOf, Stored, Or, TypeInv, TypeOK, Sessions
<1>1. shared' = shared /\ ~Writing(t)
  BY SameWriters
<1>2. UserWriter(t) => UserWriter(t)'
  BY SameWriters DEF UserWriter, Writing
<1>3. shared.user = UserOf(shared.token) \/ UserWriter(t)'
  BY <1>1, <1>2, Agrees
<1>4. Scoped(t)' => Follows(t)'
  BY DEF Follows
<1>5. ASSUME ~Scoped(t)', mem'[t].token = shared.token, mem'[t].user \in {Nothing, shared.user}
      PROVE  Follows(t)'
  BY <1>1, <1>3, <1>5 DEF Follows
<1>6. CASE Loads(t)
  <2>1. own' = own /\ mem'[t] = Stored(t)
    BY <1>6 DEF Loads, Boots, Put, TypeInv, TypeOK
  <2> QED BY <1>0, <1>4, <1>5, <2>1 DEF Scoped
<1>7. CASE Alone(t)
  <2>1. PICK o, m \in Sessions :
          /\ own' = [own EXCEPT ![t] = o] /\ mem' = [mem EXCEPT ![t] = m]
          /\ \/ o = m /\ o.token # Nothing
             \/ m = NoSession
             \/ /\ ~Scoped(t) /\ o = own[t]
                /\ m.token = shared.token /\ m.token # Nothing
                /\ \/ m.user = shared.user
                   \/ m.user = mem[t].user /\ (mem[t].token # Nothing \/ m.user = Nothing)
    BY <1>7 DEF Alone
  <2>2. own'[t] = o /\ mem'[t] = m
    BY <2>1 DEF TypeInv, TypeOK
  <2>3. CASE o.token # Nothing
    BY <1>4, <2>2, <2>3 DEF Scoped
  <2>4. CASE m.token = Nothing
    BY <2>2, <2>4 DEF Follows
  <2>5. CASE ~Scoped(t) /\ o = own[t] /\ m.token = shared.token
             /\ (m.user = mem[t].user /\ mem[t].token # Nothing)
    <3>1. ~Loading(rest[t]) /\ events' = events
      BY <1>7, ShapeAfter DEF Alone, Free, TasksInv
    <3> QED BY <1>1, <1>2, <2>2, <2>5, <3>1 DEF Follows, Scoped
  <2>6. CASE ~Scoped(t) /\ o = own[t] /\ m.token = shared.token /\ m.user \in {Nothing, shared.user}
    BY <1>5, <2>2, <2>6 DEF Scoped
  <2>7. NoSession.token = Nothing
    BY DEF NoSession
  <2> QED BY <2>1, <2>3, <2>4, <2>5, <2>6, <2>7
<1>8. CASE Deliver(t)
  <2> DEFINE e == Head(events[t])
  <2>0. /\ e \in Event /\ events'[t] = Tail(events[t]) /\ own' = own
        /\ Loading(Reloading)
    BY <1>8, HeadTailProperties, NoSessionType, Shapes DEF Deliver, TypeInv, TypeOK, Event
  <2>1. /\ HasToken(events[t]) => e.key = "token" \/ HasToken(events'[t])
        /\ HasUser(events[t]) => (e.key = "user" /\ e.put) \/ HasUser(events'[t])
    BY <1>8, <2>0, Taken DEF Deliver, TypeInv, TypeOK, Event
  <2>2. ~Loading(rest[t])
    BY <1>8, ShapeAfter DEF Deliver, Free, TasksInv
  <2>3. ASSUME rest' = [rest EXCEPT ![t] = Reloading] PROVE Follows(t)'
    BY <2>0, <2>3 DEF Follows, TypeInv, TypeOK
  <2>4. CASE Scoped(t)
    BY <1>4, <2>0, <2>4 DEF Scoped
  <2>5. ASSUME ~Scoped(t), e.key = "token", FollowToken(t) PROVE Follows(t)'
    <3>1. ASSUME Put(t, mem[t]), shared.token = mem[t].token PROVE Follows(t)'
      <4>1. mem' = mem
        BY <3>1 DEF Put, TypeInv, TypeOK
      <4> QED BY <1>1, <1>2, <2>0, <2>1, <2>2, <2>5, <3>1, <4>1 DEF Follows, Scoped
    <3>2. ASSUME Put(t, NoSession) PROVE Follows(t)'
      BY <3>2 DEF Put, NoSession, Follows, TypeInv, TypeOK
    <3>3. ASSUME mem[t].token # Nothing,
                 Put(t, [token |-> shared.token, user |-> Or(shared.user, mem[t].user)])
          PROVE  Follows(t)'
      <4>1. mem'[t].token = shared.token /\ mem'[t].user = Or(shared.user, mem[t].user)
        BY <3>3 DEF Put, TypeInv, TypeOK
      <4>2. CASE shared.user # Nothing
        BY <1>5, <2>0, <2>5, <4>1, <4>2 DEF Or, Scoped
      <4>3. CASE shared.user = Nothing
        BY <1>1, <1>2, <2>0, <2>1, <2>2, <2>5, <3>3, <4>1, <4>3 DEF Or, Follows, Scoped
      <4> QED BY <4>2, <4>3
    <3> QED BY <1>0, <2>3, <2>5, <3>1, <3>2, <3>3 DEF FollowToken
  <2>6. ASSUME ~Scoped(t), e.key = "user", mem[t].token # Nothing, FollowUser(t) PROVE Follows(t)'
    <3>1. ASSUME Put(t, [mem[t] EXCEPT !.user = Or(shared.user, @)]) PROVE Follows(t)'
      <4>1. mem'[t].token = mem[t].token /\ mem'[t].user = Or(shared.user, mem[t].user)
        BY <3>1 DEF Put, TypeInv, TypeOK, Sessions
      <4>2. mem[t].token # shared.token => HasToken(events'[t])
        BY <2>1, <2>2, <2>6 DEF Follows
      <4>3. shared.token # Nothing => shared.user # Nothing \/ UserWriter(t)'
        BY <1>3, SessionAssumption DEF UserOf, TypeInv, TypeOK, Sessions, Tokens
      <4> QED BY <1>1, <1>3, <4>1, <4>2, <4>3 DEF Follows, Or
    <3> QED BY <1>0, <2>3, <2>6, <3>1 DEF FollowUser
  <2>7. ASSUME ~Scoped(t), e.key = "user", ~e.put \/ mem[t].token = Nothing, UNCHANGED mem
        PROVE  Follows(t)'
    BY <1>1, <1>2, <2>0, <2>1, <2>2, <2>7 DEF Follows, Scoped
  <2> QED BY <1>8, <2>0, <2>4, <2>5, <2>6, <2>7 DEF Deliver, Event
<1> QED BY <1>6, <1>7, <1>8

LEMMA ViewInit == Init => ViewInv
<1> SUFFICES ASSUME Init PROVE ViewInv
  OBVIOUS
<1>1. \A t \in Tabs : rest[t] = <<>> /\ own[t] = NoSession /\ mem[t] = NoSession /\ refresh[t] = Idle
  BY DEF Init
<1>2. NoSession.token = Nothing /\ NoSession.user = Nothing /\ NoSession.user = UserOf(NoSession.token)
  BY DEF NoSession, UserOf
<1>3. \A t \in Tabs : ~Writing(t)
  BY <1>1 DEF Writing
<1>4. TasksInv
  BY <1>1 DEF TasksInv, Shape
<1>5. SharedInv
  BY <1>2, <1>3 DEF Init, SharedInv
<1>6. ScopedInv /\ LostInv
  BY <1>1, <1>2 DEF ScopedInv, LostInv, Scoped
<1>7. FollowInv
  BY <1>1, <1>2 DEF FollowInv, Follows
<1> QED BY <1>4, <1>5, <1>6, <1>7 DEF ViewInv

LEMMA ViewStep == ASSUME TypeInv, ViewInv, [Next]_vars PROVE ViewInv'
<1> USE DEF ViewInv
<1>1. LostInv'
  BY LostStep
<1>2. CASE Still
  BY <1>1, <1>2 DEF Still, TasksInv, SharedInv, ScopedInv, FollowInv, Follows, Writing, Scoped, UserWriter
<1>3. ASSUME NEW t \in Tabs, Begins(t) \/ Ends(t) \/ Loads(t) \/ Alone(t) \/ Deliver(t)
      PROVE  ViewInv'
  <2>1. TasksInv' /\ SharedInv' /\ ScopedInv'
    BY <1>3, TasksStep, SharedStep, ScopedStep
  <2>2. ASSUME NEW x \in Tabs PROVE Follows(x)'
    <3>1. Follows(x)
      BY DEF FollowInv
    <3>2. CASE Begins(t)
      BY <3>1, <3>2, FollowBegins
    <3>3. CASE Ends(t)
      BY <3>1, <3>3, FollowEnds
    <3>4. CASE Loads(t) \/ Alone(t) \/ Deliver(t)
      BY <3>1, <3>4, FollowOther, FollowMine
    <3> QED BY <1>3, <3>2, <3>3, <3>4
  <2>3. FollowInv'
    BY <2>2 DEF FollowInv
  <2> QED BY <1>1, <2>1, <2>3
<1> QED BY <1>2, <1>3, Views

LEMMA ViewsHold == Spec => [](TypeInv /\ ViewInv)
<1>1. Init => TypeInv /\ ViewInv
  BY TypeInit, ViewInit
<1>2. TypeInv /\ ViewInv /\ [Next]_vars => (TypeInv /\ ViewInv)'
  BY TypeStep, ViewStep
<1> QED BY <1>1, <1>2, PTL DEF Spec

\* When no task is under way, a tab that has heard of everything shows the
\* session in the storage (authStore.ts:222).
THEOREM TabsShareOneSession == Spec => []TabsFollowStorage
<1>1. TypeInv /\ ViewInv => TabsFollowStorage
  <2> SUFFICES ASSUME TypeInv, ViewInv, \A t \in Tabs : Free(t),
                      NEW t \in Tabs, Quiet(t), SignedIn(t), ~Scoped(t)
               PROVE  mem[t] = shared
    BY DEF TabsFollowStorage
  <2>1. \A s \in Tabs : ~Writing(s) /\ ~Loading(rest[s])
    BY ShapeAfter DEF Free, Writing, ViewInv, TasksInv
  <2>2. ~UserWriter(t) /\ ~HasToken(events[t]) /\ ~HasUser(events[t])
    BY <2>1 DEF UserWriter, Quiet, HasToken, HasUser
  <2>3. shared.user = UserOf(shared.token)
    BY <2>1 DEF ViewInv, SharedInv
  <2>4. mem[t].token = shared.token /\ mem[t].user = shared.user
    BY <2>1, <2>2, <2>3 DEF ViewInv, FollowInv, Follows, SignedIn
  <2>5. mem[t] \in Sessions /\ shared \in Sessions
    BY DEF TypeInv, TypeOK
  <2> QED BY <2>4, <2>5 DEF Sessions
<1> QED BY <1>1, ViewsHold, PTL

\* No tab that has heard of everything shows one user with the token of
\* another, whether its session is its own or that of the storage.
THEOREM UsersMatchTokens == Spec => []TokenIsTheUsers
<1>1. TypeInv /\ ViewInv /\ TabsFollowStorage => TokenIsTheUsers
  <2> SUFFICES ASSUME TypeInv, ViewInv, TabsFollowStorage, \A t \in Tabs : Free(t),
                      NEW t \in Tabs, Quiet(t), SignedIn(t)
               PROVE  mem[t].token.user = mem[t].user
    BY DEF TokenIsTheUsers
  <2>1. CASE Scoped(t)
    BY <2>1 DEF ViewInv, ScopedInv, SignedIn, UserOf
  <2>2. CASE ~Scoped(t)
    <3>1. mem[t] = shared
      BY <2>2 DEF TabsFollowStorage
    <3>2. shared.user = UserOf(shared.token)
      BY DEF ViewInv, SharedInv, Free, Writing
    <3> QED BY <3>1, <3>2 DEF SignedIn, UserOf
  <2> QED BY <2>1, <2>2
<1> QED BY <1>1, ViewsHold, TabsShareOneSession, PTL
=============================================================================
