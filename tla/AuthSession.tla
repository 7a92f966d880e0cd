---------------------------- MODULE AuthSession ----------------------------
(***************************************************************************)
(* The session of a browser with several tabs (authStore.ts): the token    *)
(* and user in localStorage, which the tabs share and hear of by storage   *)
(* events; the pair in sessionStorage of a tab that changed its password;  *)
(* the copy in the memory of each tab; refreshes under a Web Lock and the  *)
(* timer of the expiry (useSessionExpiryWatch.ts); the 401 of a request    *)
(* (api.ts); and what the server issues and refuses (auth.py).             *)
(*                                                                         *)
(* A task of a tab is one step up to its first write to localStorage, each *)
(* further write, and a reload, is a step of its own (rest): another tab   *)
(* may read between two writes of a task, microseconds apart; that it also *)
(* writes there is left out.  Tokens expire in the order they are issued.  *)
(* Requests that are not refused change nothing and are left out, a login  *)
(* is one step.  Left out: why a session ended and where to return to,     *)
(* which are only shown; sessions at their largest age, whose tokens expire*)
(* with them; clearSessionSecrets.                                         *)
(***************************************************************************)
EXTENDS Naturals, FiniteSets, Sequences

CONSTANTS Users, Tabs, Nothing,
  MaxTokens,   \* bound on the tokens the server issues
  MaxEvents    \* bound on the storage events a tab is behind

\* A token; gen counts the changes of the user's password before its login.
Tokens == [n : 1..MaxTokens, user : Users, gen : 0..MaxTokens]

ASSUME SessionAssumption ==
  /\ Nothing \notin Users \cup Tabs \cup Tokens
  /\ MaxTokens \in Nat /\ MaxEvents \in Nat

Sessions == [token : Tokens \cup {Nothing}, user : Users \cup {Nothing}]
NoSession == [token |-> Nothing, user |-> Nothing]

VARIABLES
  issued,    \* number of tokens issued
  horizon,   \* tokens up to this one have expired
  pass,      \* per user: changes of the password
  shared,    \* localStorage: k8s:auth:token, k8s:auth:user
  owner,     \* localStorage: whose settings lie there (activateProfile)
  own,       \* per tab: sessionStorage
  mem,       \* per tab: token and user of useAuthStore
  rest,      \* per tab: what its task has still to do
  events,    \* per tab: storage events to be delivered
  calls,     \* per tab: the token of a request that may still be refused
             \*   (bound: the last one)
  refresh,   \* per tab: the run of refreshSession
  lock,      \* the Web Lock: the tab that holds it
  changed    \* per tab: the token that answers a change of the password

serverVars == <<issued, horizon, pass>>
storageVars == <<shared, owner, events>>
callVars == <<calls, refresh, lock, changed>>
vars == <<serverVars, storageVars, own, mem, rest, callVars>>

Idle == [st |-> "none", start |-> Nothing, got |-> Nothing]

Init ==
  /\ issued = 0 /\ horizon = 0 /\ pass = [u \in Users |-> 0]
  /\ shared = NoSession /\ owner = Nothing
  /\ own = [t \in Tabs |-> NoSession]
  /\ mem = [t \in Tabs |-> NoSession]
  /\ rest = [t \in Tabs |-> <<>>]
  /\ events = [t \in Tabs |-> <<>>]
  /\ calls = [t \in Tabs |-> Nothing]
  /\ refresh = [t \in Tabs |-> Idle]
  /\ lock = Nothing
  /\ changed = [t \in Tabs |-> Nothing]

-----------------------------------------------------------------------------
(* Tokens and storage.                                                     *)

Unexpired(k) == k # Nothing /\ k.n > horizon           \* isUnexpired
Valid(k) == Unexpired(k) /\ k.gen = pass[k.user]       \* get_current_user
Issue(u, gen) == [n |-> issued + 1, user |-> u, gen |-> gen]

Scoped(t) == own[t].token # Nothing
Or(x, y) == IF x # Nothing THEN x ELSE y
Stored(t) == [token |-> Or(own[t].token, shared.token), user |-> Or(own[t].user, shared.user)]

\* AuthGate: the application is shown.
SignedIn(t) == mem[t].token # Nothing /\ mem[t].user # Nothing
Free(t) == rest[t] = <<>>
Writing(t) == rest[t] # <<>> /\ Head(rest[t]).do = "user"

\* A write of one key; the other tabs hear of it if the value changes.
Write(t, key, val) ==
  /\ \A s \in Tabs \ {t} : ~Writing(s) /\ Len(events[s]) < MaxEvents
  /\ shared' = [shared EXCEPT ![key] = val]
  /\ events' = [s \in Tabs |->
       IF s = t \/ shared[key] = val THEN events[s]
       ELSE Append(events[s], [key |-> key, put |-> val # Nothing])]

\* Both keys, the token first, and then what follows them.
WritePair(t, s, after) ==
  /\ Write(t, "token", s.token)
  /\ rest' = [rest EXCEPT ![t] = <<[do |-> "user", val |-> s.user]>> \o after]
Reloading == <<[do |-> "reload", val |-> Nothing]>>
Put(t, s) == mem' = [mem EXCEPT ![t] = s]

-----------------------------------------------------------------------------
(* The store.                                                              *)

\* setSession after the answer to a login: another's settings are changed for
\* those of the user, and then the page reloads.
Login(t, u) ==
  /\ Free(t) /\ ~SignedIn(t) /\ issued < MaxTokens
  /\ issued' = issued + 1
  /\ LET s == [token |-> Issue(u, pass[u]), user |-> u] IN
       IF owner \in {Nothing, u}
         THEN WritePair(t, s, <<>>) /\ Put(t, s)
         ELSE WritePair(t, s, Reloading) /\ UNCHANGED mem
  /\ owner' = u
  /\ own' = [own EXCEPT ![t] = NoSession]
  /\ UNCHANGED <<horizon, pass, callVars>>

\* clear
Logout(t) ==
  /\ Free(t) /\ SignedIn(t)
  /\ own' = [own EXCEPT ![t] = NoSession]
  /\ WritePair(t, NoSession, <<>>)
  /\ Put(t, NoSession)
  /\ UNCHANGED <<serverVars, owner, callVars>>

\* setToken with a user
SetToken(t, s) ==
  /\ Put(t, s)
  /\ IF Scoped(t)
       THEN own' = [own EXCEPT ![t] = s] /\ UNCHANGED <<shared, events, rest>>
       ELSE WritePair(t, s, <<>>) /\ UNCHANGED own

\* markSessionExpired: a live token that another tab has stored is taken over
\* or, if it is another user's, left alone.
\* Mutant of TakesOver: what other tabs have stored is not looked at.
TakesOverNever(t) == FALSE

\* Mutant of TakesOver: also the tab's own token, which the server refuses.
TakesOverOwn(t) == Unexpired(Stored(t).token)

TakesOver(t) == Stored(t).token # mem[t].token /\ Unexpired(Stored(t).token)
Expire(t) ==
  \/ /\ mem[t].token = Nothing
     /\ UNCHANGED <<shared, events, rest, own, mem>>
  \/ /\ mem[t].token # Nothing /\ TakesOver(t)
     /\ LET s == Stored(t) IN
          Put(t, IF mem[t].user = Nothing \/ s.user \in {Nothing, mem[t].user}
                   THEN [token |-> s.token, user |-> Or(s.user, mem[t].user)] ELSE NoSession)
     /\ UNCHANGED <<shared, events, rest, own>>
  \/ /\ mem[t].token # Nothing /\ ~TakesOver(t)
     /\ IF Scoped(t)
          THEN own' = [own EXCEPT ![t] = NoSession] /\ UNCHANGED <<shared, events, rest>>
          ELSE WritePair(t, NoSession, <<>>) /\ UNCHANGED own
     /\ Put(t, NoSession)

-----------------------------------------------------------------------------
(* Tasks of a tab.                                                         *)

\* The document is replaced: the store is filled from the storage, the user's
\* settings are put in place, which may take another reload; the screen sends its
\* first requests.  A page that goes lets go of the lock.
Boots(t) ==
  LET s == Stored(t)
      switches == s.user # Nothing /\ owner \notin {Nothing, s.user} IN
  /\ Put(t, s)
  /\ owner' = Or(s.user, owner)
  /\ events' = [events EXCEPT ![t] = <<>>]
  /\ rest' = [rest EXCEPT ![t] = IF switches THEN Reloading ELSE <<>>]
  /\ calls' = [calls EXCEPT ![t] = IF s.user = Nothing THEN Nothing ELSE s.token]
  /\ refresh' = [refresh EXCEPT ![t] = Idle]
  /\ changed' = [changed EXCEPT ![t] = Nothing]
  /\ lock' = IF lock = t THEN Nothing ELSE lock
  /\ UNCHANGED <<serverVars, shared, own>>

\* The user reloads the page.
Reload(t) == Free(t) /\ Boots(t)

\* The task goes on.
Continue(t) ==
  /\ ~Free(t)
  /\ \/ /\ Head(rest[t]).do = "reload"
        /\ Boots(t)
     \/ /\ Head(rest[t]).do = "user"
        /\ Write(t, "user", Head(rest[t]).val)
        /\ rest' = [rest EXCEPT ![t] = Tail(@)]
        /\ UNCHANGED <<serverVars, owner, own, mem, callVars>>

\* A storage event.  The handler reads the storage as it is by now.
\* Mutant of FollowToken: the end of a session is not followed.
FollowTokenSet(t) ==
  LET s == Stored(t) IN
  /\ Put(t, IF s.token = Nothing THEN mem[t]
            ELSE [token |-> s.token, user |-> Or(s.user, mem[t].user)])
  /\ UNCHANGED rest

FollowToken(t) ==
  LET s == Stored(t)
      m == mem[t] IN
  IF s.token # m.token /\ s.token # Nothing
     /\ (m.token = Nothing \/ (Nothing \notin {m.user, s.user} /\ s.user # m.user))
    THEN rest' = [rest EXCEPT ![t] = Reloading] /\ UNCHANGED mem
    ELSE /\ UNCHANGED rest
         /\ Put(t, CASE s.token = m.token -> m
                     [] s.token # m.token /\ s.token = Nothing -> NoSession
                     [] OTHER -> [token |-> s.token, user |-> Or(s.user, m.user)])

\* Mutant of FollowUser: the user is not compared.
FollowUserNever(t) == UNCHANGED <<mem, rest>>

FollowUser(t) ==
  LET u == Stored(t).user
      m == mem[t] IN
  IF u # Nothing /\ m.user \notin {Nothing, u}
    THEN rest' = [rest EXCEPT ![t] = Reloading] /\ UNCHANGED mem
    ELSE Put(t, [m EXCEPT !.user = Or(u, @)]) /\ UNCHANGED rest

Deliver(t) ==
  /\ Free(t) /\ events[t] # <<>>
  /\ events' = [events EXCEPT ![t] = Tail(@)]
  /\ LET e == Head(events[t]) IN
       CASE ~Scoped(t) /\ e.key = "token" -> FollowToken(t)
         [] ~Scoped(t) /\ e.key = "user" /\ e.put /\ mem[t].token # Nothing -> FollowUser(t)
         [] OTHER -> UNCHANGED <<mem, rest>>
  /\ UNCHANGED <<serverVars, shared, owner, own, callVars>>

\* A request goes out, and is refused by the server some time.
Request(t) ==
  /\ Free(t) /\ SignedIn(t)
  /\ calls' = [calls EXCEPT ![t] = mem[t].token]
  /\ UNCHANGED <<serverVars, storageVars, own, mem, rest, refresh, lock, changed>>

Refused(t) ==
  /\ Free(t) /\ calls[t] # Nothing /\ ~Valid(calls[t])
  /\ calls' = [calls EXCEPT ![t] = Nothing]
  /\ Expire(t)
  /\ UNCHANGED <<serverVars, owner, refresh, lock, changed>>

\* The timer of useSessionExpiryWatch.
Due(t) == SignedIn(t) /\ ~Unexpired(mem[t].token)
Timer(t) ==
  /\ Free(t) /\ Due(t)
  /\ Expire(t)
  /\ UNCHANGED <<serverVars, owner, callVars>>

-----------------------------------------------------------------------------
(* refreshSession.                                                         *)

RefreshStart(t) ==
  /\ Free(t) /\ SignedIn(t) /\ refresh[t] = Idle /\ Unexpired(mem[t].token)
  /\ refresh' = [refresh EXCEPT ![t] = [Idle EXCEPT !.st = "waiting", !.start = mem[t].token]]
  /\ UNCHANGED <<serverVars, storageVars, own, mem, rest, calls, lock, changed>>

\* With the lock: a later token that another tab has stored by now will do.
Newer(t) ==
  LET k == Stored(t).token IN
  k # refresh[t].start /\ Unexpired(k) /\ k.n > refresh[t].start.n
RefreshRun(t) ==
  /\ Free(t) /\ refresh[t].st = "waiting" /\ lock = Nothing
  /\ IF Newer(t)
       THEN /\ Put(t, [mem[t] EXCEPT !.token = Stored(t).token])
            /\ refresh' = [refresh EXCEPT ![t] = Idle] /\ UNCHANGED lock
       ELSE /\ IF mem[t].token # refresh[t].start
                 THEN refresh' = [refresh EXCEPT ![t] = Idle] /\ UNCHANGED lock
                 ELSE refresh' = [refresh EXCEPT ![t].st = "posted"] /\ lock' = t
            /\ UNCHANGED mem
  /\ UNCHANGED <<serverVars, storageVars, own, rest, calls, changed>>

\* POST /auth/refresh: the new token keeps the time of the login.
RefreshServe(t) ==
  /\ refresh[t].st = "posted"
  /\ LET k == refresh[t].start IN
       \/ /\ Valid(k) /\ issued < MaxTokens
          /\ issued' = issued + 1
          /\ refresh' = [refresh EXCEPT ![t].st = "answered", ![t].got = Issue(k.user, k.gen)]
       \/ /\ ~Valid(k)
          /\ refresh' = [refresh EXCEPT ![t].st = "refused"]
          /\ UNCHANGED issued
  /\ UNCHANGED <<horizon, pass, storageVars, own, mem, rest, calls, lock, changed>>

RefreshDone(t) ==
  /\ Free(t) /\ refresh[t].st \in {"answered", "refused"}
  /\ IF refresh[t].st = "answered"
       THEN SetToken(t, [token |-> refresh[t].got, user |-> refresh[t].got.user])
       ELSE Expire(t)
  /\ refresh' = [refresh EXCEPT ![t] = Idle]
  /\ lock' = Nothing
  /\ UNCHANGED <<serverVars, owner, calls, changed>>

\* No answer: the refresh has failed.
RefreshLost(t) ==
  /\ refresh[t].st \in {"posted", "answered", "refused"}
  /\ refresh' = [refresh EXCEPT ![t] = Idle]
  /\ lock' = Nothing
  /\ UNCHANGED <<serverVars, storageVars, own, mem, rest, calls, changed>>

-----------------------------------------------------------------------------
(* Change of the password, expiry.                                         *)

\* The server changes the password and issues a token to this tab.
ChangePassword(t) ==
  /\ Free(t) /\ SignedIn(t) /\ changed[t] = Nothing
  /\ Valid(mem[t].token) /\ issued < MaxTokens
  /\ LET u == mem[t].token.user IN
       /\ pass' = [pass EXCEPT ![u] = @ + 1]
       /\ changed' = [changed EXCEPT ![t] = Issue(u, pass[u] + 1)]
  /\ issued' = issued + 1
  /\ UNCHANGED <<horizon, storageVars, own, mem, rest, calls, refresh, lock>>

\* scopeSessionToThisTab
PasswordChanged(t) ==
  /\ Free(t) /\ changed[t] # Nothing
  /\ LET s == [token |-> changed[t], user |-> changed[t].user] IN
       own' = [own EXCEPT ![t] = s] /\ Put(t, s)
  /\ WritePair(t, NoSession, <<>>)
  /\ changed' = [changed EXCEPT ![t] = Nothing]
  /\ UNCHANGED <<serverVars, owner, calls, refresh, lock>>

Tick ==
  /\ horizon < issued /\ horizon' = horizon + 1
  /\ UNCHANGED <<issued, pass, storageVars, own, mem, rest, callVars>>

-----------------------------------------------------------------------------
Refresh(t) ==
  RefreshStart(t) \/ RefreshRun(t) \/ RefreshServe(t) \/ RefreshDone(t) \/ RefreshLost(t)
Acting(t) ==
  (\E u \in Users : Login(t, u)) \/ Logout(t) \/ Reload(t) \/ ChangePassword(t)
Next ==
  \/ \E t \in Tabs :
       \/ Acting(t) \/ Continue(t) \/ Deliver(t)
       \/ Request(t) \/ Refused(t) \/ Timer(t)
       \/ Refresh(t) \/ PasswordChanged(t)
  \/ Tick

Spec == Init /\ [][Next]_vars

\* Tabs finish their tasks, browsers deliver events and run timers, a screen
\* polls the server and every request is answered.
FairSpec ==
  /\ Spec
  /\ \A t \in Tabs :
       /\ WF_vars(Continue(t)) /\ WF_vars(Deliver(t))
       /\ WF_vars(Request(t)) /\ WF_vars(Refused(t)) /\ WF_vars(Timer(t))

-----------------------------------------------------------------------------
(* Properties.                                                             *)

\* Every variable has values of its type.
TypeOK ==
  /\ issued \in 0..MaxTokens /\ horizon \in 0..issued
  /\ pass \in [Users -> 0..MaxTokens]
  /\ shared \in Sessions /\ owner \in Users \cup {Nothing}
  /\ own \in [Tabs -> Sessions] /\ mem \in [Tabs -> Sessions]
  /\ rest \in [Tabs -> Seq([do : {"user", "reload"}, val : Users \cup {Nothing}])]
  /\ events \in [Tabs -> Seq([key : {"token", "user"}, put : BOOLEAN])]
  /\ calls \in [Tabs -> Tokens \cup {Nothing}]
  /\ refresh \in [Tabs -> [st : {"none", "waiting", "posted", "answered", "refused"},
                           start : Tokens \cup {Nothing}, got : Tokens \cup {Nothing}]]
  /\ lock \in Tabs \cup {Nothing} /\ changed \in [Tabs -> Tokens \cup {Nothing}]

\* Nothing is under way in the tab nor on its way to it.
Quiet(t) == Free(t) /\ events[t] = <<>>

\* A signed-in tab without a session of its own that has heard of everything
\* has the token and the user that lie in localStorage: the tabs of a browser
\* do not go on with sessions of their own (authStore.ts:222).
TabsFollowStorage ==
  (\A t \in Tabs : Free(t)) =>
    \A t \in Tabs : Quiet(t) /\ SignedIn(t) /\ ~Scoped(t) => mem[t] = shared

\* The user of a tab is the user its token was issued to.
TokenIsTheUsers ==
  (\A t \in Tabs : Free(t)) =>
    \A t \in Tabs : Quiet(t) /\ SignedIn(t) => mem[t].token.user = mem[t].user

\* A refusal that comes when the tab has another token than the refused one.
Stale(t) ==
  \/ Refused(t) /\ calls[t] # mem[t].token
  \/ RefreshDone(t) /\ refresh[t].start # mem[t].token

\* The session that the tabs share is ended only by the user, or when the
\* server accepts it no longer: the expiry of an old tab ends none that goes on
\* in another (authStore.ts:184, R-7); stale refusals excepted.
OldTabEndsNobody ==
  [][Valid(shared.token) /\ shared'.token = Nothing =>
       \E t \in Tabs : Logout(t) \/ PasswordChanged(t) \/ Stale(t)]_vars

\* A tab whose token is no longer accepted does not go on with it for good.
InvalidSessionsEnd ==
  \A t \in Tabs :
    [](SignedIn(t) /\ ~Valid(mem[t].token) => <>(~SignedIn(t) \/ Valid(mem[t].token)))

-----------------------------------------------------------------------------
(* What the repository says and the code does not do; TLC finds each of    *)
(* these violated (README).                                                *)

\* OldTabEndsNobody of every refusal, as CHANGELOG.md:503 has it: the session of
\* the other tabs outlives that of an old tab.
LiveSessionsStay ==
  [][Valid(shared.token) /\ shared'.token = Nothing =>
       \E t \in Tabs : Logout(t) \/ PasswordChanged(t)]_vars

\* A refresh continues the session of the tab: "the session of the same account
\* goes on", so that it needs no change of profiles (authStore.ts:94-95).
RefreshKeepsAccount ==
  [][\A t \in Tabs : RefreshDone(t) => mem'[t].user \in {mem[t].user, Nothing}]_vars
=============================================================================
