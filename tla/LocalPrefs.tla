----------------------------- MODULE LocalPrefs -----------------------------
(***************************************************************************)
(* The personal screen settings that a browser keeps in its localStorage:  *)
(* whose settings lie there (personalStorage.ts), how they are merged with *)
(* the copy of the server when a page opens or a user logs in, how changes *)
(* are pushed while the page is up (localPrefsSync.ts), and the server's   *)
(* row, a delta merged under its lock (local_prefs.py).                    *)
(*                                                                         *)
(* What runs without an await is one step.  The tabs of a device share its *)
(* localStorage and the signed-in account.  A value of a setting is named  *)
(* by its edit; a delta maps keys to new values, Absent where the key is   *)
(* removed.  Left out: keys that are never synchronised or refused (skip), *)
(* limits of size, the pruning of old archives, rev, which decides nothing,*)
(* and a storage that is full outside of activateProfile.                  *)
(***************************************************************************)
EXTENDS Naturals, FiniteSets

CONSTANTS
  Users, Devices, Tabs, Keys,
  DeviceOf,    \* the device of each tab
  Pushes,      \* slots for the pushes of a tab that may overlap
  Nothing,     \* no user, no base, no archive
  MaxEdits, MaxLogins, MaxFaults   \* bounds on edits, logins and failures

ASSUME PrefsAssumption ==
  /\ DeviceOf \in [Tabs -> Devices] /\ IsFiniteSet(Keys)
  /\ Nothing \notin Users
  /\ MaxEdits \in Nat /\ MaxLogins \in Nat /\ MaxFaults \in Nat

Absent == [by |-> Nothing, on |-> Nothing, n |-> 0]
Values == [by : Users, on : Devices, n : 1..MaxEdits] \cup {Absent}
Profiles == [Keys -> Values]
Deltas == UNION {[K -> Values] : K \in SUBSET Keys}

ASSUME NothingAssumption == Nothing \notin Profiles

VARIABLES
  server,   \* per user: the values of the row local_prefs
  known,    \* history, per user and key: what that row has held
  live,     \* per device: the settings that lie in localStorage
  owner,    \* per device: pep:profile-owner
  archive,  \* per device and user: pep:profile:<user>
  base,     \* per device and user: pep-sync:<user>
  who,      \* per device: the account that is logged in
  failed,   \* history: the devices on which activateProfile has thrown
  page,     \* per tab: booting, starting, up, or about to reload
  sync,     \* per tab: the run of syncLocalPrefs
  push,     \* per tab and slot: the runs of pushLocalPrefs
  pushing,  \* per tab: the flag of that name
  wire,     \* requests whose page has gone or given up
  edits, logins, faults   \* how much of the bounds is used

deviceVars == <<live, owner, archive, base, who, failed>>
serverVars == <<server, known>>
bounds == <<edits, logins, faults>>
vars == <<serverVars, deviceVars, page, sync, push, pushing, wire, bounds>>

NoSync == [st |-> "none", user |-> Nothing, login |-> FALSE, prev |-> Nothing,
           got |-> Nothing, delta |-> Nothing, applied |-> FALSE]
NoPush == [st |-> "none", user |-> Nothing, delta |-> Nothing]
Untouched == [k \in Keys |-> Absent]

Init ==
  /\ server = [u \in Users |-> Untouched]
  /\ known = [u \in Users |-> [k \in Keys |-> {Absent}]]
  /\ live = [d \in Devices |-> Untouched]
  /\ owner = [d \in Devices |-> Nothing]
  /\ archive = [d \in Devices |-> [u \in Users |-> Nothing]]
  /\ base = [d \in Devices |-> [u \in Users |-> Nothing]]
  /\ who = [d \in Devices |-> Nothing]
  /\ failed = {}
  /\ page = [t \in Tabs |-> "up"]
  /\ sync = [t \in Tabs |-> NoSync]
  /\ push = [t \in Tabs |-> [s \in Pushes |-> NoPush]]
  /\ pushing = [t \in Tabs |-> FALSE]
  /\ wire = {}
  /\ edits = 0 /\ logins = 0 /\ faults = 0

-----------------------------------------------------------------------------
(* Helpers of the page.                                                    *)

\* readAuth: the account to synchronise for, unless the settings that lie in
\* localStorage are another's.
ReadAuth(o, w) == IF o \in {Nothing, w} THEN w ELSE Nothing
Account(d) == ReadAuth(owner[d], who[d])

\* The keys on which two profiles differ, as a delta that leads from b to l.
Delta(b, l) == [k \in {x \in Keys : l[x] # b[x]} |-> l[k]]
Over(delta, p) == [k \in Keys |-> IF k \in DOMAIN delta THEN delta[k] ELSE p[k]]

Fault == faults < MaxFaults /\ faults' = faults + 1

\* A sync that starts while a profile lies there.
Started(d, u, isLogin) ==
  [st |-> "get", user |-> u, login |-> isLogin, prev |-> base[d][u],
   got |-> Nothing, delta |-> Nothing, applied |-> FALSE]

\* The PATCHes of a tab that the server has not seen yet.
Unsent(t) ==
  {[user |-> push[t][s].user, delta |-> push[t][s].delta] :
      s \in {x \in Pushes : push[t][x].st = "sent"}}
  \cup {[user |-> sync[t].user, delta |-> sync[t].delta] :
      x \in {y \in {t} : sync[y].st = "patch"}}

\* Mutant of Opened: the application is loaded without a sync before it.
OpenedUnsynced(t, d) ==
  /\ wire' = wire \cup Unsent(t)
  /\ push' = [push EXCEPT ![t] = [s \in Pushes |-> NoPush]]
  /\ pushing' = [pushing EXCEPT ![t] = FALSE]
  /\ page' = [page EXCEPT ![t] = "starting"]
  /\ sync' = [sync EXCEPT ![t] = NoSync]

\* The document of the tab is replaced: its requests live on, nobody waits
\* for them, and main.tsx awaits a sync before it loads the application.
Opened(t, d) ==
  /\ wire' = wire \cup Unsent(t)
  /\ push' = [push EXCEPT ![t] = [s \in Pushes |-> NoPush]]
  /\ pushing' = [pushing EXCEPT ![t] = FALSE]
  /\ LET u == ReadAuth(owner'[d], who'[d]) IN
       IF u = Nothing
         THEN /\ page' = [page EXCEPT ![t] = "starting"]
              /\ sync' = [sync EXCEPT ![t] = NoSync]
         ELSE /\ page' = [page EXCEPT ![t] = "booting"]
              /\ sync' = [sync EXCEPT ![t] = Started(d, u, FALSE)]

\* The settings of another account than u lie there.
Foreign(d, u) == owner[d] \notin {Nothing, u}
Switches(d, u, ok) == Foreign(d, u) /\ ok

\* What the archive of u puts back, and the settings of the owner put into
\* theirs while p takes their place.
Archived(d, u) == IF archive[d][u] = Nothing THEN Untouched ELSE archive[d][u]
Replaces(d, u, rest, p) ==
  /\ archive' = [archive EXCEPT ![d][owner[d]] = live[d], ![d][u] = rest]
  /\ live' = [live EXCEPT ![d] = p]

\* Mutant of Activate: the settings of the owner are not taken out.
ActivateKept(d, u, ok) ==
  /\ owner' = IF ok THEN [owner EXCEPT ![d] = u] ELSE owner
  /\ IF ok THEN UNCHANGED <<failed, faults>>
           ELSE owner[d] # u /\ Fault /\ failed' = failed \cup {d}
  /\ \/ ~Switches(d, u, ok) /\ UNCHANGED <<archive, live>>
     \/ Switches(d, u, ok) /\
        Replaces(d, u, Nothing,
                 IF archive[d][u] = Nothing THEN live[d] ELSE archive[d][u])

\* activateProfile(u): the settings of the owner go to their archive, those of
\* u come back.  Without ok the storage is full: as the owner's are archived,
\* and nothing is changed; as those of u are put back, of which some lie there;
\* or as u is made the owner of them.
Activate(d, u, ok) ==
  /\ owner' = IF ok THEN [owner EXCEPT ![d] = u] ELSE owner
  /\ IF ok THEN UNCHANGED <<failed, faults>>
           ELSE owner[d] # u /\ Fault /\ failed' = failed \cup {d}
  /\ \/ ~Switches(d, u, ok) /\ UNCHANGED <<archive, live>>
     \/ Foreign(d, u) /\ Replaces(d, u, Nothing, Archived(d, u))
     \/ /\ Foreign(d, u) /\ ~ok /\ archive[d][u] # Nothing
        /\ \E K \in SUBSET Keys \ {Keys} :
             Replaces(d, u, archive[d][u],
                      [k \in Keys |-> IF k \in K THEN archive[d][u][k] ELSE Absent])

-----------------------------------------------------------------------------
(* Pages, accounts and edits.                                              *)

\* The user reloads a page, or a page that has to reload does.
Reload(t) ==
  /\ page[t] \in {"up", "leaving"}
  /\ UNCHANGED <<serverVars, deviceVars, bounds>>
  /\ Opened(t, DeviceOf[t])

\* The application loads after the boot sync.  authStore puts the profile of a
\* logged-in account in place and reloads if that changed anything.
AppStart(t) ==
  LET d == DeviceOf[t] IN
  /\ page[t] = "starting"
  /\ \E ok \in BOOLEAN :
       IF who[d] = Nothing
         THEN ok /\ UNCHANGED <<owner, archive, live, failed, faults>>
         ELSE Activate(d, who[d], ok)
  /\ page' = [page EXCEPT ![t] = IF owner'[d] # owner[d] /\ owner[d] # Nothing
                                   THEN "leaving" ELSE "up"]
  /\ UNCHANGED <<serverVars, base, who, sync, push, pushing, wire, edits, logins>>

\* setSession: a switched profile reloads the page, otherwise a sync starts
\* behind it.  (Bound: the tab's last sync is over.)
Login(t, u) ==
  LET d == DeviceOf[t] IN
  /\ page[t] = "up" /\ who[d] = Nothing /\ sync[t].st = "none"
  /\ logins < MaxLogins /\ logins' = logins + 1
  /\ who' = [who EXCEPT ![d] = u]
  /\ \E ok \in BOOLEAN :
       /\ Activate(d, u, ok)
       /\ IF Switches(d, u, ok)
            THEN Opened(t, d)
            ELSE /\ sync' = IF ReadAuth(owner'[d], u) = Nothing
                              THEN sync ELSE [sync EXCEPT ![t] = Started(d, u, TRUE)]
                 /\ UNCHANGED <<page, push, pushing, wire>>
  /\ UNCHANGED <<serverVars, base, edits>>

\* A screen stores a setting, or takes it out again.
Edit(t, k) ==
  LET d == DeviceOf[t] IN
  /\ page[t] = "up" /\ who[d] # Nothing
  /\ edits < MaxEdits /\ edits' = edits + 1
  /\ \E v \in {Absent, [by |-> who[d], on |-> d, n |-> edits + 1]} :
       v # live[d][k] /\ live' = [live EXCEPT ![d][k] = v]
  /\ UNCHANGED <<serverVars, owner, archive, base, who, failed, page, sync, push,
                 pushing, wire, logins, faults>>

-----------------------------------------------------------------------------
(* syncLocalPrefs: GET, merge, PATCH what changed here, store the base.    *)

\* The end of a sync.  Booting goes on; after a login the page reloads if
\* values of the server were put in place.
Ended(t, applied) ==
  /\ sync' = [sync EXCEPT ![t] = NoSync]
  /\ page' = [page EXCEPT ![t] =
                CASE ~sync[t].login -> "starting"
                  [] sync[t].login /\ applied -> "leaving"
                  [] OTHER -> @]

\* The server answers the GET: with the row, or with an empty one if it cannot
\* read its database.
SyncRead(t) ==
  /\ sync[t].st = "get"
  /\ \/ /\ sync' = [sync EXCEPT ![t].st = "got", ![t].got = server[sync[t].user]]
        /\ UNCHANGED faults
     \/ sync' = [sync EXCEPT ![t].st = "got", ![t].got = Untouched] /\ Fault
  /\ UNCHANGED <<serverVars, deviceVars, page, push, pushing, wire, edits, logins>>

\* The merge, key by key: a key unchanged since prev follows the server, a
\* changed one is sent.  Without prev the server's keys win.
\* Mutant of Changed: the server always wins.
ChangedNever(prev, local, k) == FALSE

Changed(prev, local, k) == IF prev = Nothing THEN FALSE ELSE local[k] # prev[k]

Adopted(prev, remote, local) ==
  [k \in Keys |-> IF Changed(prev, local, k) \/ (prev = Nothing /\ remote[k] = Absent)
                    THEN local[k] ELSE remote[k]]
Sent(prev, remote, local) ==
  [k \in {x \in Keys : IF prev = Nothing
                         THEN remote[x] = Absent /\ local[x] # Absent
                         ELSE Changed(prev, local, x) /\ local[x] # remote[x]}
     |-> local[k]]

SyncMerge(t) ==
  LET d == DeviceOf[t]
      s == sync[t]
      kept == Adopted(s.prev, s.got, live[d])
      delta == Sent(s.prev, s.got, live[d])
  IN
  /\ s.st = "got"
  /\ live' = [live EXCEPT ![d] = kept]
  /\ IF DOMAIN delta = {}
       THEN /\ base' = [base EXCEPT ![d][s.user] = s.got]
            /\ Ended(t, kept # live[d])
       ELSE /\ sync' = [sync EXCEPT ![t].st = "patch", ![t].delta = delta,
                                    ![t].applied = kept # live[d]]
            /\ UNCHANGED <<base, page>>
  /\ UNCHANGED <<serverVars, owner, archive, who, failed, push, pushing, wire, bounds>>

\* apply_delta under the lock of the row.
Merge(u, delta) ==
  /\ server' = [server EXCEPT ![u] = Over(delta, @)]
  /\ known' = [known EXCEPT ![u] = [k \in Keys |-> @[k] \cup {server'[u][k]}]]

\* The server applies the PATCH of a sync and answers with the whole row.
SyncPatch(t) ==
  /\ sync[t].st = "patch"
  /\ Merge(sync[t].user, sync[t].delta)
  /\ sync' = [sync EXCEPT ![t].st = "patched", ![t].got = server'[sync[t].user]]
  /\ UNCHANGED <<deviceVars, page, push, pushing, wire, bounds>>

SyncSave(t) ==
  /\ sync[t].st = "patched"
  /\ base' = [base EXCEPT ![DeviceOf[t]][sync[t].user] = sync[t].got]
  /\ Ended(t, sync[t].applied)
  /\ UNCHANGED <<serverVars, live, owner, archive, who, failed, push, pushing, wire,
                 bounds>>

\* The time runs out, or the server cannot be reached: go on with what is there.
SyncFail(t) ==
  /\ sync[t].st # "none" /\ Fault
  /\ wire' = IF sync[t].st = "patch"
               THEN wire \cup {[user |-> sync[t].user, delta |-> sync[t].delta]} ELSE wire
  /\ Ended(t, FALSE)
  /\ UNCHANGED <<serverVars, deviceVars, push, pushing, edits, logins>>

-----------------------------------------------------------------------------
(* pushLocalPrefs: send what differs from the base.                        *)

\* Nothing to send, no base or no account: no push.
Differs(d) ==
  /\ Account(d) # Nothing
  /\ base[d][Account(d)] \notin {Nothing, live[d]}
Free(t) == {s \in Pushes : push[t][s].st = "none"}

\* The delta goes out.
Pushed(t, s) ==
  LET d == DeviceOf[t]
      u == Account(d)
  IN /\ Differs(d) /\ s \in Free(t)
     /\ push' = [push EXCEPT ![t][s] =
                   [st |-> "sent", user |-> u, delta |-> Delta(base[d][u], live[d])]]
     /\ pushing' = [pushing EXCEPT ![t] = TRUE]

\* Every 15 s unless one runs, and whatever runs when the tab is hidden.
PushStart(t, s, hidden) ==
  /\ page[t] = "up" /\ (~pushing[t] \/ hidden)
  /\ Pushed(t, s)
  /\ UNCHANGED <<serverVars, deviceVars, page, sync, wire, bounds>>

\* clear: a last push on the token that is about to go.  (Bound: if all slots
\* are taken nothing is pushed.)
Logout(t) ==
  LET d == DeviceOf[t] IN
  /\ page[t] = "up" /\ who[d] # Nothing
  /\ \/ \E s \in Pushes : Pushed(t, s)
     \/ (~Differs(d) \/ Free(t) = {}) /\ UNCHANGED <<push, pushing>>
  /\ who' = [who EXCEPT ![d] = Nothing]
  /\ UNCHANGED <<serverVars, live, owner, archive, base, failed, page, sync, wire,
                 bounds>>

PushPatch(t, s) ==
  /\ push[t][s].st = "sent"
  /\ Merge(push[t][s].user, push[t][s].delta)
  /\ push' = [push EXCEPT ![t][s].st = "answered"]
  /\ UNCHANGED <<deviceVars, page, sync, pushing, wire, bounds>>

\* Mutant of PushDone: all that lies there by now enters the base.
PushDoneLive(t, s) ==
  LET d == DeviceOf[t] IN
  /\ push[t][s].st = "answered"
  /\ base' = [base EXCEPT ![d][push[t][s].user] = live[d]]
  /\ push' = [push EXCEPT ![t][s] = NoPush]
  /\ pushing' = [pushing EXCEPT ![t] = FALSE]
  /\ UNCHANGED <<serverVars, live, owner, archive, who, failed, page, sync, wire,
                 bounds>>

\* Only what was sent enters the base, which may be a newer one by now.
PushDone(t, s) ==
  LET d == DeviceOf[t] IN
  /\ push[t][s].st = "answered"
  /\ base' = [base EXCEPT ![d][push[t][s].user] = Over(push[t][s].delta, @)]
  /\ push' = [push EXCEPT ![t][s] = NoPush]
  /\ pushing' = [pushing EXCEPT ![t] = FALSE]
  /\ UNCHANGED <<serverVars, live, owner, archive, who, failed, page, sync, wire,
                 bounds>>

PushFail(t, s) ==
  /\ push[t][s].st # "none" /\ Fault
  /\ wire' = IF push[t][s].st = "sent"
               THEN wire \cup {[user |-> push[t][s].user, delta |-> push[t][s].delta]}
               ELSE wire
  /\ push' = [push EXCEPT ![t][s] = NoPush]
  /\ pushing' = [pushing EXCEPT ![t] = FALSE]
  /\ UNCHANGED <<serverVars, deviceVars, page, sync, edits, logins>>

\* A request nobody waits for reaches the server late, or never.
Late(r) ==
  /\ wire' = wire \ {r}
  /\ \/ Merge(r.user, r.delta)
     \/ UNCHANGED serverVars
  /\ UNCHANGED <<deviceVars, page, sync, push, pushing, bounds>>

-----------------------------------------------------------------------------
Syncing(t) == SyncRead(t) \/ SyncMerge(t) \/ SyncPatch(t) \/ SyncSave(t)
Pushing(t) ==
  \E s \in Pushes :
    \/ \E hidden \in BOOLEAN : PushStart(t, s, hidden)
    \/ PushPatch(t, s) \/ PushDone(t, s)
Going(t) == AppStart(t) \/ Syncing(t) \/ Pushing(t)
Acting(t) == (\E u \in Users : Login(t, u)) \/ Logout(t) \/ \E k \in Keys : Edit(t, k)
Failing(t) == SyncFail(t) \/ \E s \in Pushes : PushFail(t, s)

Next ==
  \/ \E t \in Tabs : Reload(t) \/ Going(t) \/ Acting(t) \/ Failing(t)
  \/ \E r \in wire : Late(r)

Spec == Init /\ [][Next]_vars

\* Browsers and servers go on with what they have begun, and every user opens
\* the page again some time.
FairSpec ==
  /\ Spec
  /\ \A t \in Tabs : WF_vars(Reload(t)) /\ WF_vars(Going(t))

-----------------------------------------------------------------------------
(* Properties.                                                             *)

\* Every variable has values of its type.
TypeOK ==
  /\ server \in [Users -> Profiles] /\ known \in [Users -> [Keys -> SUBSET Values]]
  /\ live \in [Devices -> Profiles] /\ owner \in [Devices -> Users \cup {Nothing}]
  /\ archive \in [Devices -> [Users -> Profiles \cup {Nothing}]]
  /\ base \in [Devices -> [Users -> Profiles \cup {Nothing}]]
  /\ who \in [Devices -> Users \cup {Nothing}] /\ failed \in SUBSET Devices
  /\ page \in [Tabs -> {"booting", "starting", "up", "leaving"}]
  /\ pushing \in [Tabs -> BOOLEAN]
  /\ edits \in 0..MaxEdits /\ logins \in 0..MaxLogins /\ faults \in 0..MaxFaults

\* A base, which stands for "this is on the server", never holds a value that
\* the server has not had, however syncs, pushes, failures and reloads
\* interleave: a change that is not on the server is never taken for sent.
BaseWasOnServer ==
  \A d \in Devices, u \in Users :
    base[d][u] # Nothing => \A k \in Keys : base[d][u][k] \in known[u][k]

\* A setting that lies in localStorage is replaced only by an edit, by a change
\* of profiles that keeps it in the archive of the owner, by the first sync of a
\* device (localPrefsSync.ts:16 lets the server win it), or if the server has
\* had the value that goes; and what lies in an archive leaves it only whole,
\* back to its account.  So no change is lost unsent in a sync or a push, nor
\* while others use the browser.  (On a device on which activateProfile has
\* thrown it does not hold: see FailedSwitchKeeps.)
Kept(d, k) ==
  \/ edits' # edits
  \/ archive'[d][owner[d]] = live[d]
  \/ \E t \in Tabs : DeviceOf[t] = d /\ sync[t].st = "got" /\ sync[t].prev = Nothing
  \/ live[d][k] \in known[owner[d]][k]
UnsentChangesSurvive ==
  [][\A d \in Devices \ failed' :
       /\ \A k \in Keys : live'[d][k] # live[d][k] => Kept(d, k)
       /\ \A u \in Users :
            archive[d][u] \notin {Nothing, archive'[d][u]} =>
              owner'[d] = u /\ live'[d] = archive[d][u]]_vars

\* As long as activateProfile has not thrown anywhere, what one account has set
\* reaches neither the row of another, nor the localStorage under which another
\* works, nor another's archive (personalStorage.ts:5-11, localPrefsSync.ts:53).
\* (Once it has, settings mix: personalStorage.ts:78 puts up with it.)
AccountsStayApart ==
  failed = {} =>
    /\ \A u \in Users, k \in Keys : server[u][k].by \in {u, Nothing}
    /\ \A d \in Devices, k \in Keys :
         /\ live[d][k].by \in {owner[d], Nothing}
         /\ \A u \in Users : archive[d][u] # Nothing => archive[d][u][k].by \in {u, Nothing}

\* Once nobody changes anything any more and pages are opened again, the
\* settings of an account are the same on the server and on its devices.
Converges ==
  <>[](\A d \in Devices :
         who[d] = owner[d] /\ who[d] # Nothing => live[d] = server[who[d]])

-----------------------------------------------------------------------------
(* What the repository says and the code does not do; TLC finds it         *)
(* violated (README).                                                      *)

\* While the page is up a device sends only keys it has changed itself
\* (localPrefsSync.ts:10): no value of another device goes back to the server.
OnlyOwnChangesArePushed ==
  \A t \in Tabs, s \in Pushes :
    push[t][s].st = "sent" =>
      \A k \in DOMAIN push[t][s].delta : push[t][s].delta[k].on \in {DeviceOf[t], Nothing}

\* If a change of profiles fails nothing is deleted, and the settings stay as
\* they are (personalStorage.ts:77-78 and 105).
FailedSwitchKeeps == [][\A d \in Devices : d \in failed' \ failed => live'[d] = live[d]]_vars
=============================================================================
