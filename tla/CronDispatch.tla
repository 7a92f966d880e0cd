---------------------------- MODULE CronDispatch ----------------------------
(***************************************************************************)
(* The minutely dispatcher of the check matrix (dispatch_due), for one row *)
(* that carries a cron: a cell's CheckMatrixSchedule, a cluster's own cron *)
(* or a DeepCheckDefinition.  Dispatchers that wait for a worker may run   *)
(* side by side, while an operator edits the row.                          *)
(*                                                                         *)
(* Time is a counter that every reading of the clock advances (timestamps  *)
(* have microseconds).  A cron expression is the set of its fire times.    *)
(***************************************************************************)
EXTENDS Integers

CONSTANTS
  Dispatchers,   \* executions of run_check_matrix_dispatch
  Crons,         \* the cron expressions in play
  Window,        \* the 61 seconds that stand in for a missing last_run_at
  MaxSends,      \* how often apply_async sends a task whose answer is lost
  MaxTime        \* bound of the clock

\* last_run_at IS NULL.
Null == 0
\* cron_expr IS NULL: nothing ever fires.
NoCron == {}

ASSUME CronAssumption ==
  /\ Crons \subseteq SUBSET (Nat \ {0})
  /\ Window \in Nat /\ MaxSends \in Nat \ {0} /\ MaxTime \in Nat \ {0}

VARIABLES
  now,       \* the clock
  row,       \* the row: cron, enabled, last (last_run_at), and see Rows
  pc,        \* where each dispatcher is
  checkAt,   \* its check_at, read once at its start
  seen,      \* the row as its session has it
  edit,      \* the operator's open PUT: {} or {the new row}
  claims,    \* history: the claims that were won
  sent,      \* how many messages of its claim a dispatcher has put in the broker
  queue,     \* the messages in the broker
  executed   \* history: the messages whose task has run the check

vars == <<now, row, pc, checkAt, seen, edit, claims, sent, queue, executed>>

\* The kind of the row: whether an edit of its cron moves last_run_at (resets: cells
\* and clusters) and whether its task looks at the row again before it runs the check
\* (rechecks: cells); a definition does neither.
Kinds == {[resets |-> TRUE, rechecks |-> TRUE], [resets |-> TRUE, rechecks |-> FALSE],
          [resets |-> FALSE, rechecks |-> FALSE]}

\* epoch numbers the cron expressions of the row, saved is when the present one was
\* saved: history.
Rows == [cron : SUBSET (Nat \ {0}), enabled : BOOLEAN, last : Nat, kind : Kinds,
         epoch : Nat, saved : Nat]

Init ==
  /\ now = 1
  /\ \E c \in Crons, k \in Kinds :
       row = [cron |-> c, enabled |-> TRUE, last |-> IF k.resets THEN 1 ELSE Null,
              kind |-> k, epoch |-> 0, saved |-> 1]
  /\ pc = [d \in Dispatchers |-> "idle"]
  /\ checkAt = [d \in Dispatchers |-> 0]
  /\ seen = [d \in Dispatchers |-> row]
  /\ edit = {}
  /\ claims = {}
  /\ sent = [d \in Dispatchers |-> 0]
  /\ queue = {}
  /\ executed = {}

-----------------------------------------------------------------------------
(* One pass of a dispatcher.                                               *)

Begin(d) ==
  /\ pc[d] = "idle" /\ now < MaxTime
  /\ now' = now + 1
  /\ checkAt' = [checkAt EXCEPT ![d] = now + 1]
  /\ pc' = [pc EXCEPT ![d] = "begun"]
  /\ UNCHANGED <<row, seen, edit, claims, sent, queue, executed>>

\* The query of the enabled rows with a cron loads the row.
Query(d) ==
  /\ pc[d] = "begun"
  /\ pc' = [pc EXCEPT ![d] = IF row.enabled /\ row.cron # NoCron THEN "loaded" ELSE "idle"]
  /\ seen' = [seen EXCEPT ![d] = row]
  /\ UNCHANGED <<now, row, checkAt, edit, claims, sent, queue, executed>>

\* _claim commits for every row before this one, which expires all of them: the
\* row is read again, but not filtered again.
Reload(d) ==
  /\ pc[d] = "loaded"
  /\ seen' = [seen EXCEPT ![d] = row]
  /\ UNCHANGED <<now, row, pc, checkAt, edit, claims, sent, queue, executed>>

\* _anchor_naive: no last_run_at means "just registered".
Anchor(r, at) == IF r.last = Null THEN at - Window ELSE r.last

\* Mutant of Due: the fire at the anchor itself counts again.
DueFromAnchor(r, at) == \E f \in r.cron : Anchor(r, at) <= f /\ f <= at

\* Some fire of the cron follows the anchor and is not in the future.
Due(r, at) == \E f \in r.cron : Anchor(r, at) < f /\ f <= at

Evaluate(d) ==
  /\ pc[d] = "loaded"
  /\ pc' = [pc EXCEPT ![d] = IF Due(seen[d], checkAt[d]) THEN "due" ELSE "idle"]
  /\ UNCHANGED <<now, row, checkAt, seen, edit, claims, sent, queue, executed>>

\* A claim covers the fires after its anchor, up to check_at.
ClaimOf(d) == [cron |-> seen[d].cron, from |-> Anchor(seen[d], checkAt[d]), to |-> checkAt[d],
               epoch |-> seen[d].epoch, saved |-> seen[d].saved]

\* Mutant of Claim: an unconditional update, as a read-modify-write would do.
ClaimBlindly(d) ==
  /\ pc[d] = "due"
  /\ row' = [row EXCEPT !.last = checkAt[d]]
  /\ claims' = claims \cup {ClaimOf(d)}
  /\ pc' = [pc EXCEPT ![d] = "won"]
  /\ UNCHANGED <<now, checkAt, seen, edit, sent, queue, executed>>

\* Mutant of Claim: the anchor moves to the time of the update.
ClaimStampsNow(d) ==
  /\ pc[d] = "due"
  /\ IF row.last = seen[d].last
       THEN /\ row' = [row EXCEPT !.last = now]
            /\ claims' = claims \cup {ClaimOf(d)}
            /\ pc' = [pc EXCEPT ![d] = "won"]
       ELSE /\ pc' = [pc EXCEPT ![d] = "idle"]
            /\ UNCHANGED <<row, claims>>
  /\ UNCHANGED <<now, checkAt, seen, edit, sent, queue, executed>>

\* _claim: UPDATE ... WHERE last_run_at is still what was read, and commit.
Claim(d) ==
  /\ pc[d] = "due"
  /\ IF row.last = seen[d].last
       THEN /\ row' = [row EXCEPT !.last = checkAt[d]]
            /\ claims' = claims \cup {ClaimOf(d)}
            /\ pc' = [pc EXCEPT ![d] = "won"]
       ELSE /\ pc' = [pc EXCEPT ![d] = "idle"]
            /\ UNCHANGED <<row, claims>>
  /\ UNCHANGED <<now, checkAt, seen, edit, sent, queue, executed>>

\* The messages of a claim are numbered as they are sent.
Message(c, k) == [of |-> c, copy |-> k]

\* apply_async: a send that lands is answered, or its answer is lost on the way.  Then
\* the publish retry policy sends the task again, and the broker knows no duplicates.
Publish(d) ==
  /\ pc[d] = "won"
  /\ queue' = queue \cup {Message(ClaimOf(d), sent[d] + 1)}
  /\ \/ pc' = [pc EXCEPT ![d] = "idle"] /\ sent' = [sent EXCEPT ![d] = 0]
     \/ /\ sent[d] + 1 < MaxSends
        /\ sent' = [sent EXCEPT ![d] = @ + 1] /\ UNCHANGED pc
  /\ UNCHANGED <<now, row, checkAt, seen, edit, claims, executed>>

\* The dispatcher is killed, or apply_async fails: the claim stays committed, and so do
\* the sends that have landed.
Stop(d) ==
  /\ pc[d] # "idle"
  /\ pc' = [pc EXCEPT ![d] = "idle"]
  /\ sent' = [sent EXCEPT ![d] = 0]
  /\ UNCHANGED <<now, row, checkAt, seen, edit, claims, queue, executed>>

-----------------------------------------------------------------------------
(* The task, and the operator.                                             *)

\* Whether the task of the row runs the check: run_check_matrix_cell_one looks at
\* the schedule again, the tasks of a cluster and of a definition do not.
Wanted == row.kind.rechecks => row.enabled /\ row.cron # NoCron

\* Mutant of Execute: a message is acknowledged after the run, and comes back when its
\* worker dies in between.
ExecuteAcksLate(m) ==
  /\ m \in queue
  /\ queue' \in {queue, queue \ {m}}
  /\ executed' = IF Wanted THEN executed \cup {m} ELSE executed
  /\ UNCHANGED <<now, row, pc, checkAt, seen, edit, claims, sent>>

\* A worker acknowledges the message and runs its task.
Execute(m) ==
  /\ m \in queue
  /\ queue' = queue \ {m}
  /\ executed' = IF Wanted THEN executed \cup {m} ELSE executed
  /\ UNCHANGED <<now, row, pc, checkAt, seen, edit, claims, sent>>

\* The message is lost: nobody queues the claim again.
Lose(m) ==
  /\ m \in queue
  /\ queue' = queue \ {m}
  /\ UNCHANGED <<now, row, pc, checkAt, seen, edit, claims, sent, executed>>

\* Mutant of Edited: a changed cron keeps the old anchor.
EditedKeepingAnchor(c, on, at) ==
  [cron |-> c, enabled |-> on, last |-> row.last, kind |-> row.kind,
   epoch |-> IF row.cron # c THEN row.epoch + 1 ELSE row.epoch,
   saved |-> IF row.cron # c THEN at ELSE row.saved]

\* Mutant of Edited: the anchor is stamped in local time, ahead of UTC.
EditedAhead(c, on, at) ==
  [cron |-> c, enabled |-> on,
   last |-> IF row.kind.resets /\ (row.cron # c \/ row.last = Null) THEN at + 1 ELSE row.last, kind |-> row.kind,
   epoch |-> IF row.cron # c THEN row.epoch + 1 ELSE row.epoch,
   saved |-> IF row.cron # c THEN at ELSE row.saved]

\* put_schedule and put_cluster_cron move the anchor to now if the cron changes or
\* has no anchor; the PUT of a definition leaves it alone.
Edited(c, on, at) ==
  [cron |-> c, enabled |-> on,
   last |-> IF row.kind.resets /\ (row.cron # c \/ row.last = Null) THEN at ELSE row.last, kind |-> row.kind,
   epoch |-> IF row.cron # c THEN row.epoch + 1 ELSE row.epoch,
   saved |-> IF row.cron # c THEN at ELSE row.saved]

\* The PUT reads the row and the clock, one request at a time.
EditRead ==
  /\ edit = {} /\ now < MaxTime
  /\ now' = now + 1
  /\ \E c \in Crons \cup {NoCron}, on \in BOOLEAN :
       edit' = {[new |-> Edited(c, on, now + 1), old |-> row.last]}
  /\ UNCHANGED <<row, pc, checkAt, seen, claims, sent, queue, executed>>

\* It commits: last_run_at is in the UPDATE only if the request has changed it.
EditCommit ==
  /\ \E e \in edit :
       row' = [e.new EXCEPT !.last = IF @ # e.old THEN @ ELSE row.last]
  /\ edit' = {}
  /\ UNCHANGED <<now, pc, checkAt, seen, claims, sent, queue, executed>>

Tick ==
  /\ now < MaxTime
  /\ now' = now + 1
  /\ UNCHANGED <<row, pc, checkAt, seen, edit, claims, sent, queue, executed>>

Dispatch(d) ==
  \/ Begin(d) \/ Query(d) \/ Reload(d) \/ Evaluate(d) \/ Claim(d) \/ Publish(d) \/ Stop(d)

Next ==
  \/ \E d \in Dispatchers : Dispatch(d)
  \/ \E m \in queue : Execute(m) \/ Lose(m)
  \/ EditRead \/ EditCommit
  \/ Tick

Spec == Init /\ [][Next]_vars

-----------------------------------------------------------------------------
Claims == [cron : SUBSET (Nat \ {0}), from : Int, to : Nat, epoch : Nat, saved : Nat]
Messages == [of : Claims, copy : 1..MaxSends]

\* Every variable keeps its type.
TypeOK ==
  /\ now \in 1..MaxTime
  /\ row \in Rows /\ row.last <= now
  /\ pc \in [Dispatchers -> {"idle", "begun", "loaded", "due", "won"}]
  /\ checkAt \in [Dispatchers -> 0..MaxTime] /\ \A d \in Dispatchers : checkAt[d] <= now
  /\ seen \in [Dispatchers -> Rows] /\ \A d \in Dispatchers : seen[d].last <= now
  /\ edit \subseteq [new : Rows, old : Nat] /\ \A e \in edit : e.new.last <= now
  /\ claims \subseteq Claims /\ queue \subseteq Messages /\ executed \subseteq Messages
  /\ sent \in [Dispatchers -> 0..(MaxSends - 1)]

\* The fires a claim stands for.
Fires(c) == {f \in c.cron : c.from < f /\ f <= c.to}

\* A fire is claimed at most once, and by at most one dispatcher, however many
\* overlap, crash, or are slow enough to act on an old check_at (_claim).
OncePerFire ==
  \A c, e \in claims : c # e /\ c.epoch = e.epoch => Fires(c) \cap Fires(e) = {}

\* A fire has a second run only where the publish of its claim was sent again: a task
\* that runs a fire another task has run is another message of the same claim, and
\* no message runs twice.
OnlyResendsRepeat ==
  [][\A m \in queue : Execute(m) =>
       /\ m \notin executed
       /\ \A e \in executed : e.of.epoch = m.of.epoch /\ e.of # m.of =>
            Fires(m.of) \cap Fires(e.of) = {}]_vars

\* A fire is executed at most once (_claim: no cell is queued twice).  Does not hold: a
\* publish whose answer was lost is sent again.
FireRunsOnce ==
  [][\A m \in queue : Execute(m) =>
       \A e \in executed : e.of.epoch = m.of.epoch => Fires(m.of) \cap Fires(e.of) = {}]_vars

\* Whatever the anchor of a cell or cluster has passed was claimed: no overlap of
\* slow and fast dispatchers skips a fire of the present cron.
NoFireIsSkipped ==
  row.kind.resets => \A f \in row.cron : row.saved < f /\ f <= row.last =>
    \E c \in claims : c.epoch = row.epoch /\ f \in Fires(c)

\* A new or changed cron first fires at its next scheduled time, never at one that
\* lies before it was saved (put_schedule, put_cluster_cron).
FiresAfterEdit ==
  row.kind.resets => \A c \in claims : \A f \in Fires(c) : f > c.saved

\* A claim moves the anchor forward, although check_at may be older than what
\* another dispatcher has written meanwhile.
ClaimMovesForward ==
  [][\A d \in Dispatchers : Claim(d) /\ row' # row => row'.last > row.last]_vars

\* The ledger of fires: pending are the messages of a claim that are in the broker, and
\* those its dispatcher may still send.
FiresOf(c) == {[epoch |-> c.epoch, at |-> f] : f \in Fires(c)}
RunOf(m) == [batch |-> FiresOf(m.of), copy |-> m.copy]
Unsent(d) == {Message(ClaimOf(d), k) : k \in (sent[d] + 1)..MaxSends}
Outstanding == queue \cup UNION {Unsent(d) : d \in {o \in Dispatchers : pc[o] = "won"}}
Ledger == INSTANCE FireLedger WITH
  Copies <- MaxSends,
  clock <- now, claimed <- UNION {FiresOf(c) : c \in claims},
  pending <- {RunOf(m) : m \in Outstanding}, ran <- {RunOf(m) : m \in executed}

\* The dispatchers keep the promise of FireLedger: overlaps, crashes, lost and repeated
\* messages and edits between any two of their steps never have a fire claimed twice,
\* early, or out of order, nor a batch split or run more often than it was sent (_claim).
KeepsLedger == Ledger!Spec
=============================================================================
