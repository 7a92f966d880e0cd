------------------------- MODULE CronDispatchProofs -------------------------
(***************************************************************************)
(* At most one claim for every fire, for any number of dispatchers, any    *)
(* crons and any history of edits.  The compare-and-set of _claim compares *)
(* last_run_at only: what makes it enough is that no timestamp is written  *)
(* twice, so that an equal anchor means an unchanged chain of claims.      *)
(***************************************************************************)
EXTENDS CronDispatch, TLAPS

\* The dispatchers whose view of the row matters, and those that have yet to
\* write their check_at.
Open     == {d \in Dispatchers : pc[d] \in {"loaded", "due"}}
Unstamped == {d \in Dispatchers : pc[d] \in {"begun", "loaded", "due"}}

\* A timestamp that is not yet written is nowhere else.
FreshInv ==
  /\ \A d \in Unstamped :
       /\ 0 < checkAt[d] /\ checkAt[d] # row.last
       /\ \A o \in Open : seen[o].last # checkAt[d]
       /\ \A o \in Unstamped : o # d => checkAt[o] # checkAt[d]
       /\ \A e \in edit : e.new.last # e.old => e.new.last # checkAt[d]
  /\ \A e \in edit : e.new.last # e.old =>
       /\ e.new.last # row.last
       /\ \A o \in Open : seen[o].last # e.new.last

\* An edit either keeps the cron and the anchor or starts an epoch of its own.
EditInv ==
  \A e \in edit :
    /\ e.new.kind = row.kind
    /\ \/ e.new.epoch = row.epoch /\ e.new.last = e.old
       \/ e.new.epoch = row.epoch + 1
    /\ e.new.last # e.old => e.new.last # Null

\* Nothing knows of epochs to come, and what is known of the present one is true.
EpochInv ==
  /\ \A c \in claims : c.epoch <= row.epoch /\ 0 < c.to
  /\ \A d \in Open : seen[d].epoch <= row.epoch
  /\ row.kind.resets => row.last # Null

\* The anchor is past every claim of its epoch, also for a dispatcher that still
\* has the old cron.
ChainInv ==
  /\ \A c \in claims : c.epoch = row.epoch => c.to <= row.last
  /\ \A d \in Open : seen[d].last = row.last =>
       \A c \in claims : c.epoch = seen[d].epoch => c.to <= row.last
  /\ \A d \in Dispatchers : pc[d] = "due" => seen[d].last < checkAt[d]

\* The claims of an epoch are intervals one after the other.
DisjointInv ==
  \A c, e \in claims : c # e /\ c.epoch = e.epoch => c.to <= e.from \/ e.to <= c.from

\* Where an edit of the cron moves the anchor, an unchanged anchor means an
\* unchanged cron.
AnchorInv == row.kind.resets =>
  /\ row.saved <= row.last
  /\ \A d \in Open :
       /\ seen[d].saved <= seen[d].last /\ seen[d].last # Null
       /\ seen[d].epoch = row.epoch => seen[d].cron = row.cron /\ seen[d].saved = row.saved
       /\ seen[d].last = row.last => seen[d].epoch = row.epoch
  /\ \A e \in edit :
       /\ e.new.epoch = row.epoch => e.new.cron = row.cron /\ e.new.saved = row.saved
       /\ e.new.epoch = row.epoch + 1 => e.new.last # e.old /\ e.new.saved = e.new.last
  /\ \A c \in claims : c.saved <= c.from

\* What the anchor has passed is claimed.
CoverInv == NoFireIsSkipped

\* A message is of a claim, and it is in the broker or carried out, not both; what a
\* dispatcher may still send of its claim is neither, and nobody else has that claim.
RunInv ==
  /\ \A m \in queue \cup executed : m.of \in claims
  /\ queue \cap executed = {}
  /\ \A d \in Dispatchers : pc[d] # "won" => sent[d] = 0
  /\ \A d \in Dispatchers : pc[d] = "won" =>
       /\ ClaimOf(d) \in claims
       /\ \A m \in queue \cup executed : m.of = ClaimOf(d) => m.copy <= sent[d]
       /\ \A o \in Dispatchers : o # d /\ pc[o] = "won" => ClaimOf(o) # ClaimOf(d)

\* What is due has a fire, none of them in the future.
FilledInv ==
  /\ \A d \in Dispatchers : pc[d] = "due" => Fires(ClaimOf(d)) # {}
  /\ \A c \in claims : Fires(c) # {} /\ c.to <= now

IInv ==
  /\ TypeOK /\ FreshInv /\ EditInv /\ EpochInv /\ ChainInv /\ DisjointInv
  /\ AnchorInv /\ CoverInv /\ RunInv /\ FilledInv

-----------------------------------------------------------------------------

\* What a claim records is a claim.
LEMMA ClaimType ==
  ASSUME TypeOK, NEW d \in Dispatchers
  PROVE  ClaimOf(d) \in Claims
BY CronAssumption DEF ClaimOf, Anchor, TypeOK, Rows, Claims, Null

\* An edited row is a row; its anchor is the old one or the time of the edit.
LEMMA EditType ==
  ASSUME TypeOK, NEW c \in Crons \cup {NoCron}, NEW on \in BOOLEAN, NEW at \in Nat
  PROVE  /\ Edited(c, on, at) \in Rows
         /\ Edited(c, on, at).last \in {row.last, at}
BY CronAssumption DEF Edited, TypeOK, Rows, NoCron

\* The variables keep their types, and no timestamp lies in the future.
LEMMA TypeStep == TypeOK /\ [Next]_vars => TypeOK'
<1> SUFFICES ASSUME TypeOK, [Next]_vars PROVE TypeOK'
  OBVIOUS
<1> USE CronAssumption DEF TypeOK
<1>1. ASSUME NEW d \in Dispatchers, Begin(d) PROVE TypeOK'
  BY <1>1 DEF Begin, Rows
<1>2. ASSUME NEW d \in Dispatchers, Query(d) PROVE TypeOK'
  BY <1>2 DEF Query
<1>3. ASSUME NEW d \in Dispatchers, Reload(d) PROVE TypeOK'
  BY <1>3 DEF Reload
<1>4. ASSUME NEW d \in Dispatchers, Evaluate(d) PROVE TypeOK'
  BY <1>4 DEF Evaluate
<1>5. ASSUME NEW d \in Dispatchers, Claim(d) PROVE TypeOK'
  <2>1. UNCHANGED <<now, checkAt, seen, edit, sent, queue, executed>>
    BY <1>5 DEF Claim
  <2>2. CASE row.last = seen[d].last
    <3>1. row' = [row EXCEPT !.last = checkAt[d]] /\ claims' = claims \cup {ClaimOf(d)}
          /\ pc' = [pc EXCEPT ![d] = "won"]
      BY <1>5, <2>2 DEF Claim
    <3>2. row' \in Rows /\ row'.last <= now
      BY <3>1 DEF Rows
    <3>3. claims' \subseteq Claims
      BY <3>1, ClaimType
    <3> QED
      BY <2>1, <3>1, <3>2, <3>3
  <2>3. CASE row.last # seen[d].last
    BY <1>5, <2>3 DEF Claim
  <2> QED
    BY <2>2, <2>3
<1>6. ASSUME NEW d \in Dispatchers, Publish(d) PROVE TypeOK'
  <2>1. sent[d] + 1 \in 1..MaxSends /\ Message(ClaimOf(d), sent[d] + 1) \in Messages
    BY ClaimType DEF Message, Messages
  <2>2. sent' \in [Dispatchers -> 0..(MaxSends - 1)] /\ queue' \subseteq Messages
    BY <1>6, <2>1 DEF Publish
  <2> QED
    BY <1>6, <2>2 DEF Publish
<1>7. ASSUME NEW d \in Dispatchers, Stop(d) PROVE TypeOK'
  BY <1>7 DEF Stop
<1>8. ASSUME NEW m \in queue, Execute(m) \/ Lose(m) PROVE TypeOK'
  BY <1>8 DEF Execute, Lose
<1>9. CASE EditRead
  <2>1. PICK c \in Crons \cup {NoCron}, on \in BOOLEAN :
          edit' = {[new |-> Edited(c, on, now + 1), old |-> row.last]}
    BY <1>9 DEF EditRead
  <2>2. Edited(c, on, now + 1) \in Rows /\ Edited(c, on, now + 1).last \in {row.last, now + 1}
    <3>1. now + 1 \in Nat
      OBVIOUS
    <3> HIDE DEF TypeOK
    <3> QED
      BY <3>1, EditType
  <2>3. row.last \in Nat
    BY DEF Rows
  <2>4. now' = now + 1 /\ now' \in 1..MaxTime /\ UNCHANGED <<row, pc, checkAt, seen, claims, sent, queue, executed>>
    BY <1>9 DEF EditRead
  <2>5. edit' \subseteq [new : Rows, old : Nat] /\ \A e \in edit' : e.new.last <= now'
    BY <2>1, <2>2, <2>3, <2>4
  <2>6. row.last <= now' /\ \A d \in Dispatchers : checkAt[d] <= now' /\ seen[d].last <= now'
    BY <2>3, <2>4 DEF Rows
  <2> QED
    BY <2>4, <2>5, <2>6
<1>10. CASE EditCommit
  <2>1. PICK e \in edit : row' = [e.new EXCEPT !.last = IF @ # e.old THEN @ ELSE row.last]
    BY <1>10 DEF EditCommit
  <2>2. row' \in Rows /\ row'.last <= now
    BY <2>1 DEF Rows
  <2> QED
    BY <1>10, <2>2 DEF EditCommit
<1>11. CASE Tick
  BY <1>11 DEF Tick, Rows
<1>12. CASE UNCHANGED vars
  BY <1>12 DEF vars
<1> QED
  BY <1>1, <1>2, <1>3, <1>4, <1>5, <1>6, <1>7, <1>8, <1>9, <1>10, <1>11, <1>12 DEF Next, Dispatch

\* Every reading of the clock is new, and is written once.
LEMMA FreshStep == IInv /\ [Next]_vars => FreshInv'
<1> SUFFICES ASSUME IInv, [Next]_vars PROVE FreshInv'
  OBVIOUS
<1> USE CronAssumption DEF IInv, TypeOK, Rows, Kinds, FreshInv, Open, Unstamped
<1>1. ASSUME NEW d \in Dispatchers, Begin(d) PROVE FreshInv'
  BY <1>1 DEF Begin
<1>2. ASSUME NEW d \in Dispatchers, Query(d) PROVE FreshInv'
  BY <1>2 DEF Query
<1>3. ASSUME NEW d \in Dispatchers, Reload(d) PROVE FreshInv'
  BY <1>3 DEF Reload
<1>4. ASSUME NEW d \in Dispatchers, Evaluate(d) PROVE FreshInv'
  BY <1>4 DEF Evaluate
<1>5. ASSUME NEW d \in Dispatchers, Claim(d) PROVE FreshInv'
  BY <1>5 DEF Claim
<1>6. ASSUME NEW d \in Dispatchers, Publish(d) PROVE FreshInv'
  BY <1>6 DEF Publish
<1>7. ASSUME NEW d \in Dispatchers, Stop(d) PROVE FreshInv'
  BY <1>7 DEF Stop
<1>8. ASSUME NEW m \in queue, Execute(m) \/ Lose(m) PROVE FreshInv'
  BY <1>8 DEF Execute, Lose
<1>9. CASE EditRead
  BY <1>9 DEF EditRead, Edited
<1>10. CASE EditCommit
  BY <1>10 DEF EditCommit
<1>11. CASE Tick
  BY <1>11 DEF Tick
<1>12. CASE UNCHANGED vars
  BY <1>12 DEF vars
<1> QED
  BY <1>1, <1>2, <1>3, <1>4, <1>5, <1>6, <1>7, <1>8, <1>9, <1>10, <1>11, <1>12 DEF Next, Dispatch

\* Edits keep the epochs in order.
LEMMA EpochStep == IInv /\ [Next]_vars => EditInv' /\ EpochInv'
<1> SUFFICES ASSUME IInv, [Next]_vars PROVE EditInv' /\ EpochInv'
  OBVIOUS
<1> USE CronAssumption DEF IInv, TypeOK, Rows, Kinds, EditInv, EpochInv, Open
<1>1. ASSUME NEW d \in Dispatchers, Begin(d) PROVE EditInv' /\ EpochInv'
  BY <1>1 DEF Begin
<1>2. ASSUME NEW d \in Dispatchers, Query(d) PROVE EditInv' /\ EpochInv'
  BY <1>2 DEF Query
<1>3. ASSUME NEW d \in Dispatchers, Reload(d) PROVE EditInv' /\ EpochInv'
  BY <1>3 DEF Reload
<1>4. ASSUME NEW d \in Dispatchers, Evaluate(d) PROVE EditInv' /\ EpochInv'
  BY <1>4 DEF Evaluate
<1>5. ASSUME NEW d \in Dispatchers, Claim(d) PROVE EditInv' /\ EpochInv'
  BY <1>5 DEF Claim, ClaimOf, Null, FreshInv, Unstamped
<1>6. ASSUME NEW d \in Dispatchers, Publish(d) PROVE EditInv' /\ EpochInv'
  BY <1>6 DEF Publish
<1>7. ASSUME NEW d \in Dispatchers, Stop(d) PROVE EditInv' /\ EpochInv'
  BY <1>7 DEF Stop
<1>8. ASSUME NEW m \in queue, Execute(m) \/ Lose(m) PROVE EditInv' /\ EpochInv'
  BY <1>8 DEF Execute, Lose
<1>9. CASE EditRead
  BY <1>9 DEF EditRead, Edited, Null
<1>10. CASE EditCommit
  <2>1. PICK e \in edit : row' = [e.new EXCEPT !.last = IF @ # e.old THEN @ ELSE row.last]
    BY <1>10 DEF EditCommit
  <2>2. row'.kind = row.kind /\ row'.epoch = e.new.epoch /\ row'.last = IF e.new.last # e.old THEN e.new.last ELSE row.last
    BY <2>1
  <2>3. row.epoch <= row'.epoch /\ (row'.kind.resets => row'.last # Null)
    BY <2>2
  <2>4. \A c \in claims : c.epoch \in Nat
    BY DEF Claims
  <2>5. edit' = {} /\ UNCHANGED <<pc, seen, claims>> /\ row' \in Rows
    BY <1>10, TypeStep DEF EditCommit
  <2> QED
    BY <2>3, <2>4, <2>5
<1>11. CASE Tick
  BY <1>11 DEF Tick
<1>12. CASE UNCHANGED vars
  BY <1>12 DEF vars
<1> QED
  BY <1>1, <1>2, <1>3, <1>4, <1>5, <1>6, <1>7, <1>8, <1>9, <1>10, <1>11, <1>12 DEF Next, Dispatch

\* A won claim moves the anchor past itself; an edit starts a new chain.
LEMMA ChainStep == IInv /\ [Next]_vars => ChainInv'
<1> SUFFICES ASSUME IInv, [Next]_vars PROVE ChainInv'
  OBVIOUS
<1> USE CronAssumption DEF IInv, TypeOK, Rows, Kinds, ChainInv, Open, EpochInv
<1>1. ASSUME NEW d \in Dispatchers, Begin(d) PROVE ChainInv'
  BY <1>1 DEF Begin
<1>2. ASSUME NEW d \in Dispatchers, Query(d) PROVE ChainInv'
  BY <1>2 DEF Query
<1>3. ASSUME NEW d \in Dispatchers, Reload(d) PROVE ChainInv'
  BY <1>3 DEF Reload
<1>4. ASSUME NEW d \in Dispatchers, Evaluate(d) PROVE ChainInv'
  BY <1>4 DEF Evaluate, Due, Anchor, Null, FreshInv, Unstamped
<1>5. ASSUME NEW d \in Dispatchers, Claim(d) PROVE ChainInv'
  <2>1. CASE row.last = seen[d].last
    <3>1. /\ pc[d] = "due" /\ row' = [row EXCEPT !.last = checkAt[d]]
          /\ claims' = claims \cup {ClaimOf(d)} /\ pc' = [pc EXCEPT ![d] = "won"]
          /\ UNCHANGED <<checkAt, seen>>
      BY <1>5, <2>1 DEF Claim
    <3>2. row'.last = checkAt[d] /\ row'.epoch = row.epoch /\ row.last < checkAt[d]
      BY <2>1, <3>1
    <3>3. ClaimOf(d).to = checkAt[d] /\ ClaimOf(d).epoch = seen[d].epoch
      BY DEF ClaimOf
    <3>4. \A o \in Open' : o \in Open /\ seen[o].last # checkAt[d]
      BY <3>1 DEF FreshInv, Unstamped
    <3>5. \A c \in claims : c.to \in Nat
      BY DEF Claims
    <3>6. \A c \in claims' : c.epoch = row'.epoch => c.to <= row'.last
      BY <3>1, <3>2, <3>3, <3>5
    <3> QED
      BY <3>1, <3>2, <3>4, <3>6
  <2>2. CASE row.last # seen[d].last
    BY <1>5, <2>2 DEF Claim
  <2> QED
    BY <2>1, <2>2
<1>6. ASSUME NEW d \in Dispatchers, Publish(d) PROVE ChainInv'
  BY <1>6 DEF Publish
<1>7. ASSUME NEW d \in Dispatchers, Stop(d) PROVE ChainInv'
  BY <1>7 DEF Stop
<1>8. ASSUME NEW m \in queue, Execute(m) \/ Lose(m) PROVE ChainInv'
  BY <1>8 DEF Execute, Lose
<1>9. CASE EditRead
  BY <1>9 DEF EditRead
<1>10. CASE EditCommit
  BY <1>10 DEF EditCommit, EditInv, FreshInv
<1>11. CASE Tick
  BY <1>11 DEF Tick
<1>12. CASE UNCHANGED vars
  BY <1>12 DEF vars
<1> QED
  BY <1>1, <1>2, <1>3, <1>4, <1>5, <1>6, <1>7, <1>8, <1>9, <1>10, <1>11, <1>12 DEF Next, Dispatch

\* A claim starts where the earlier ones of its epoch have ended.
LEMMA DisjointStep == IInv /\ [Next]_vars => DisjointInv'
<1> SUFFICES ASSUME IInv, [Next]_vars PROVE DisjointInv'
  OBVIOUS
<1> USE CronAssumption DEF IInv, TypeOK, Rows, Kinds, DisjointInv
<1>1. ASSUME NEW d \in Dispatchers, Begin(d) PROVE DisjointInv'
  BY <1>1 DEF Begin
<1>2. ASSUME NEW d \in Dispatchers, Query(d) PROVE DisjointInv'
  BY <1>2 DEF Query
<1>3. ASSUME NEW d \in Dispatchers, Reload(d) PROVE DisjointInv'
  BY <1>3 DEF Reload
<1>4. ASSUME NEW d \in Dispatchers, Evaluate(d) PROVE DisjointInv'
  BY <1>4 DEF Evaluate
<1>5. ASSUME NEW d \in Dispatchers, Claim(d) PROVE DisjointInv'
  <2>1. CASE row.last = seen[d].last
    <3>1. \A c \in claims : c.epoch = seen[d].epoch => c.to <= seen[d].last /\ 0 < c.to
      BY <1>5, <2>1 DEF Claim, ChainInv, EpochInv, Open
    <3>2. \A c \in claims : c.epoch = seen[d].epoch => c.to <= ClaimOf(d).from
      BY <3>1 DEF ClaimOf, Anchor, Null, Claims
    <3>3. ClaimOf(d).epoch = seen[d].epoch /\ claims' = claims \cup {ClaimOf(d)}
      BY <1>5, <2>1 DEF Claim, ClaimOf
    <3> QED
      BY <3>2, <3>3
  <2>2. CASE row.last # seen[d].last
    BY <1>5, <2>2 DEF Claim
  <2> QED
    BY <2>1, <2>2
<1>6. ASSUME NEW d \in Dispatchers, Publish(d) PROVE DisjointInv'
  BY <1>6 DEF Publish
<1>7. ASSUME NEW d \in Dispatchers, Stop(d) PROVE DisjointInv'
  BY <1>7 DEF Stop
<1>8. ASSUME NEW m \in queue, Execute(m) \/ Lose(m) PROVE DisjointInv'
  BY <1>8 DEF Execute, Lose
<1>9. CASE EditRead
  BY <1>9 DEF EditRead
<1>10. CASE EditCommit
  BY <1>10 DEF EditCommit
<1>11. CASE Tick
  BY <1>11 DEF Tick
<1>12. CASE UNCHANGED vars
  BY <1>12 DEF vars
<1> QED
  BY <1>1, <1>2, <1>3, <1>4, <1>5, <1>6, <1>7, <1>8, <1>9, <1>10, <1>11, <1>12 DEF Next, Dispatch

\* Moving the anchor with every changed cron ties the two together.
LEMMA AnchorStep == IInv /\ [Next]_vars => AnchorInv'
<1> SUFFICES ASSUME IInv, [Next]_vars PROVE AnchorInv'
  OBVIOUS
<1> USE CronAssumption DEF IInv, TypeOK, Rows, Kinds, AnchorInv, Open
<1>1. ASSUME NEW d \in Dispatchers, Begin(d) PROVE AnchorInv'
  BY <1>1 DEF Begin
<1>2. ASSUME NEW d \in Dispatchers, Query(d) PROVE AnchorInv'
  BY <1>2 DEF Query, EpochInv
<1>3. ASSUME NEW d \in Dispatchers, Reload(d) PROVE AnchorInv'
  BY <1>3 DEF Reload, EpochInv
<1>4. ASSUME NEW d \in Dispatchers, Evaluate(d) PROVE AnchorInv'
  BY <1>4 DEF Evaluate
<1>5. ASSUME NEW d \in Dispatchers, Claim(d) PROVE AnchorInv'
  <2>1. CASE row.last = seen[d].last
    <3>1. /\ pc[d] = "due" /\ row' = [row EXCEPT !.last = checkAt[d]]
          /\ claims' = claims \cup {ClaimOf(d)} /\ pc' = [pc EXCEPT ![d] = "won"]
          /\ UNCHANGED <<checkAt, seen, edit>>
      BY <1>5, <2>1 DEF Claim
    <3>2. /\ row'.last = checkAt[d] /\ row'.epoch = row.epoch /\ row.last < checkAt[d]
          /\ row'.cron = row.cron /\ row'.saved = row.saved /\ row'.kind = row.kind
      BY <2>1, <3>1 DEF ChainInv
    <3>3. \A o \in Open' : o \in Open /\ seen[o].last # checkAt[d]
      BY <3>1 DEF FreshInv, Unstamped
    <3>4. row.kind.resets => ClaimOf(d).saved <= ClaimOf(d).from
      BY <3>1 DEF ClaimOf, Anchor, Null
    <3>5. row.last \in Nat /\ row.saved \in Nat /\ checkAt[d] \in Nat
      BY <3>1
    <3> QED
      BY <3>1, <3>2, <3>3, <3>4, <3>5
  <2>2. CASE row.last # seen[d].last
    BY <1>5, <2>2 DEF Claim
  <2> QED
    BY <2>1, <2>2
<1>6. ASSUME NEW d \in Dispatchers, Publish(d) PROVE AnchorInv'
  BY <1>6 DEF Publish
<1>7. ASSUME NEW d \in Dispatchers, Stop(d) PROVE AnchorInv'
  BY <1>7 DEF Stop
<1>8. ASSUME NEW m \in queue, Execute(m) \/ Lose(m) PROVE AnchorInv'
  BY <1>8 DEF Execute, Lose
<1>9. CASE EditRead
  <2>1. PICK c \in Crons \cup {NoCron}, on \in BOOLEAN :
          edit' = {[new |-> Edited(c, on, now + 1), old |-> row.last]}
    BY <1>9 DEF EditRead
  <2>2. row.last < now + 1
    OBVIOUS
  <2>3. UNCHANGED <<row, pc, seen, claims>>
    BY <1>9 DEF EditRead
  <2> QED
    BY <2>1, <2>2, <2>3 DEF Edited, EpochInv
<1>10. CASE EditCommit
  <2>1. PICK e \in edit : row' = [e.new EXCEPT !.last = IF @ # e.old THEN @ ELSE row.last]
    BY <1>10 DEF EditCommit
  <2>2. /\ row'.epoch = e.new.epoch /\ row'.cron = e.new.cron /\ row'.saved = e.new.saved
        /\ row'.kind = row.kind
        /\ row'.last = IF e.new.last # e.old THEN e.new.last ELSE row.last
    BY <2>1 DEF EditInv
  <2>3. edit' = {} /\ UNCHANGED <<pc, seen, claims>>
    BY <1>10 DEF EditCommit
  <2>4. CASE e.new.epoch = row.epoch /\ e.new.last = e.old
    BY <2>2, <2>3, <2>4
  <2>5. CASE e.new.epoch = row.epoch + 1
    BY <2>2, <2>3, <2>5 DEF FreshInv, EpochInv
  <2> QED
    BY <2>4, <2>5 DEF EditInv
<1>11. CASE Tick
  BY <1>11 DEF Tick
<1>12. CASE UNCHANGED vars
  BY <1>12 DEF vars
<1> QED
  BY <1>1, <1>2, <1>3, <1>4, <1>5, <1>6, <1>7, <1>8, <1>9, <1>10, <1>11, <1>12 DEF Next, Dispatch

\* What the anchor passes is claimed in the same step.
LEMMA CoverStep == IInv /\ [Next]_vars => CoverInv'
<1> SUFFICES ASSUME IInv, [Next]_vars PROVE CoverInv'
  OBVIOUS
<1> USE CronAssumption DEF IInv, TypeOK, Rows, Kinds, CoverInv, NoFireIsSkipped, Fires
<1>1. ASSUME NEW d \in Dispatchers, Begin(d) PROVE CoverInv'
  BY <1>1 DEF Begin
<1>2. ASSUME NEW d \in Dispatchers, Query(d) PROVE CoverInv'
  BY <1>2 DEF Query
<1>3. ASSUME NEW d \in Dispatchers, Reload(d) PROVE CoverInv'
  BY <1>3 DEF Reload
<1>4. ASSUME NEW d \in Dispatchers, Evaluate(d) PROVE CoverInv'
  BY <1>4 DEF Evaluate
<1>5. ASSUME NEW d \in Dispatchers, Claim(d) PROVE CoverInv'
  <2>1. CASE row.last = seen[d].last
    <3>1. /\ row' = [row EXCEPT !.last = checkAt[d]]
          /\ claims' = claims \cup {ClaimOf(d)} /\ d \in Open
      BY <1>5, <2>1 DEF Claim, Open
    <3>2. row.kind.resets => seen[d].epoch = row.epoch /\ seen[d].cron = row.cron /\ row.last # Null
      BY <2>1, <3>1 DEF AnchorInv, EpochInv
    <3>3. row.kind.resets => /\ ClaimOf(d).cron = row.cron /\ ClaimOf(d).from = row.last
                          /\ ClaimOf(d).to = checkAt[d] /\ ClaimOf(d).epoch = row.epoch
      BY <2>1, <3>2 DEF ClaimOf, Anchor
    <3>4. /\ row'.cron = row.cron /\ row'.last = checkAt[d] /\ row'.epoch = row.epoch
          /\ row'.saved = row.saved /\ row'.kind = row.kind
      BY <3>1
    <3>5. ASSUME row.kind.resets, NEW f \in row.cron, row.saved < f, f <= checkAt[d]
          PROVE  \E c \in claims' : c.epoch = row.epoch /\ f \in Fires(c)
      <4>1. f \in Nat /\ row.last \in Nat
        OBVIOUS
      <4>2. CASE f <= row.last
        BY <3>1, <3>5, <4>2
      <4>3. CASE row.last < f
        BY <3>1, <3>3, <3>5, <4>3
      <4> QED
        BY <4>1, <4>2, <4>3
    <3> QED
      BY <3>4, <3>5
  <2>2. CASE row.last # seen[d].last
    BY <1>5, <2>2 DEF Claim
  <2> QED
    BY <2>1, <2>2
<1>6. ASSUME NEW d \in Dispatchers, Publish(d) PROVE CoverInv'
  BY <1>6 DEF Publish
<1>7. ASSUME NEW d \in Dispatchers, Stop(d) PROVE CoverInv'
  BY <1>7 DEF Stop
<1>8. ASSUME NEW m \in queue, Execute(m) \/ Lose(m) PROVE CoverInv'
  BY <1>8 DEF Execute, Lose
<1>9. CASE EditRead
  BY <1>9 DEF EditRead
<1>10. CASE EditCommit
  <2>1. PICK e \in edit : row' = [e.new EXCEPT !.last = IF @ # e.old THEN @ ELSE row.last]
    BY <1>10 DEF EditCommit
  <2>2. /\ row'.epoch = e.new.epoch /\ row'.cron = e.new.cron /\ row'.saved = e.new.saved
        /\ row'.kind = row.kind
        /\ row'.last = IF e.new.last # e.old THEN e.new.last ELSE row.last
    BY <2>1 DEF EditInv
  <2>3. UNCHANGED claims
    BY <1>10 DEF EditCommit
  <2>4. CASE e.new.epoch = row.epoch /\ e.new.last = e.old
    BY <2>2, <2>3, <2>4 DEF AnchorInv
  <2>5. CASE e.new.epoch = row.epoch + 1
    <3>1. row'.kind.resets => row'.last = row'.saved /\ row'.saved \in Nat /\ row'.cron \subseteq Nat
      BY <2>2, <2>5 DEF AnchorInv
    <3> QED
      BY <3>1
  <2> QED
    BY <2>4, <2>5 DEF EditInv
<1>11. CASE Tick
  BY <1>11 DEF Tick
<1>12. CASE UNCHANGED vars
  BY <1>12 DEF vars
<1> QED
  BY <1>1, <1>2, <1>3, <1>4, <1>5, <1>6, <1>7, <1>8, <1>9, <1>10, <1>11, <1>12 DEF Next, Dispatch

\* A claim that is won is a new one: the claims of its epoch all end before it.
LEMMA ClaimIsNew ==
  ASSUME IInv, NEW d \in Dispatchers, pc[d] = "due", row.last = seen[d].last
  PROVE  ClaimOf(d) \notin claims
<1>1. \A c \in claims : c.epoch = seen[d].epoch => c.to <= row.last
  BY DEF IInv, ChainInv, Open
<1>2. row.last < checkAt[d] /\ row.last \in Nat /\ checkAt[d] \in Nat
  BY CronAssumption DEF IInv, ChainInv, TypeOK, Rows
<1>3. ClaimOf(d).to = checkAt[d] /\ ClaimOf(d).epoch = seen[d].epoch
  BY DEF ClaimOf
<1> QED
  BY <1>1, <1>2, <1>3

\* What a dispatcher does before it claims, or when it gives up, is nobody else's business.
LEMMA OthersKept ==
  ASSUME IInv, NEW d \in Dispatchers, Begin(d) \/ Query(d) \/ Reload(d) \/ Evaluate(d) \/ Stop(d)
  PROVE  /\ pc'[d] # "won" /\ UNCHANGED <<claims, queue, executed>>
         /\ sent' = [sent EXCEPT ![d] = 0]
         /\ \A o \in Dispatchers \ {d} : pc'[o] = pc[o] /\ ClaimOf(o)' = ClaimOf(o)
<1>0. /\ pc \in [Dispatchers -> {"idle", "begun", "loaded", "due", "won"}]
      /\ sent \in [Dispatchers -> 0..(MaxSends - 1)]
      /\ checkAt \in [Dispatchers -> 0..MaxTime] /\ seen \in [Dispatchers -> Rows]
      /\ pc[d] # "won" => sent[d] = 0
  BY DEF IInv, TypeOK, RunInv
<1>1. pc'[d] # "won" /\ UNCHANGED <<claims, queue, executed>>
  BY <1>0 DEF Begin, Query, Reload, Evaluate, Stop
<1>2. sent' = [sent EXCEPT ![d] = 0]
  BY <1>0 DEF Begin, Query, Reload, Evaluate, Stop
<1>3. \A o \in Dispatchers \ {d} : pc'[o] = pc[o] /\ seen'[o] = seen[o] /\ checkAt'[o] = checkAt[o]
  BY <1>0 DEF Begin, Query, Reload, Evaluate, Stop
<1>4. \A o \in Dispatchers \ {d} : ClaimOf(o)' = ClaimOf(o)
  BY <1>3 DEF ClaimOf, Anchor
<1> QED
  BY <1>1, <1>2, <1>3, <1>4

\* Claims are handed on, and copied only by the dispatcher that has won them.
LEMMA RunStep == IInv /\ [Next]_vars => RunInv'
<1> SUFFICES ASSUME IInv, [Next]_vars PROVE RunInv'
  OBVIOUS
<1>0. /\ RunInv
      /\ pc \in [Dispatchers -> {"idle", "begun", "loaded", "due", "won"}]
      /\ sent \in [Dispatchers -> 0..(MaxSends - 1)]
      /\ queue \subseteq Messages /\ executed \subseteq Messages
  BY DEF IInv, TypeOK
<1> USE DEF RunInv
<1>2. ASSUME NEW d \in Dispatchers, Begin(d) \/ Query(d) \/ Reload(d) \/ Evaluate(d) \/ Stop(d)
      PROVE  RunInv'
  <2>1. /\ pc'[d] # "won" /\ sent'[d] = 0 /\ UNCHANGED <<claims, queue, executed>>
        /\ \A o \in Dispatchers \ {d} : pc'[o] = pc[o] /\ ClaimOf(o)' = ClaimOf(o) /\ sent'[o] = sent[o]
    BY <1>0, <1>2, OthersKept
  <2>2. \A o \in Dispatchers : pc'[o] = "won" => o # d /\ pc[o] = "won" /\ ClaimOf(o)' = ClaimOf(o)
    BY <2>1
  <2> QED
    BY <1>0, <2>1, <2>2
<1>3. ASSUME NEW d \in Dispatchers, Claim(d) PROVE RunInv'
  <2>1. \A o \in Dispatchers : ClaimOf(o)' = ClaimOf(o)
    BY <1>3 DEF Claim, ClaimOf, Anchor
  <2>2. UNCHANGED <<queue, executed, sent>> /\ pc[d] = "due"
    BY <1>3 DEF Claim
  <2>3. CASE row.last = seen[d].last
    <3>1. ClaimOf(d) \notin claims
      BY <2>2, <2>3, ClaimIsNew
    <3>2. /\ claims' = claims \cup {ClaimOf(d)}
          /\ \A o \in Dispatchers : pc'[o] = "won" <=> (o = d \/ pc[o] = "won")
      BY <1>0, <1>3, <2>3 DEF Claim
    <3>3. \A o \in Dispatchers : pc'[o] = "won" /\ o # d =>
            pc[o] = "won" /\ ClaimOf(o) \in claims /\ ClaimOf(o) # ClaimOf(d)
      BY <1>0, <3>1, <3>2
    <3>4. \A m \in queue \cup executed : m.of # ClaimOf(d)
      BY <1>0, <3>1
    <3> QED
      BY <1>0, <2>1, <2>2, <3>2, <3>3, <3>4
  <2>4. CASE row.last # seen[d].last
    <3>1. UNCHANGED claims /\ pc'[d] # "won" /\ \A o \in Dispatchers \ {d} : pc'[o] = pc[o]
      BY <1>0, <1>3, <2>4 DEF Claim
    <3> QED
      BY <1>0, <2>1, <2>2, <3>1
  <2> QED
    BY <2>3, <2>4
<1>4. ASSUME NEW d \in Dispatchers, Publish(d) PROVE RunInv'
  <2> DEFINE new == Message(ClaimOf(d), sent[d] + 1)
  <2>1. \A o \in Dispatchers : ClaimOf(o)' = ClaimOf(o)
    BY <1>4 DEF Publish, ClaimOf, Anchor
  <2>2. /\ pc[d] = "won" /\ queue' = queue \cup {new} /\ UNCHANGED <<claims, executed>>
        /\ \A o \in Dispatchers \ {d} : pc'[o] = pc[o] /\ sent'[o] = sent[o]
        /\ \/ pc'[d] = "idle" /\ sent'[d] = 0
           \/ pc'[d] = "won" /\ sent'[d] = sent[d] + 1
    BY <1>0, <1>4 DEF Publish
  <2>3. new.of = ClaimOf(d) /\ new.copy = sent[d] + 1
    BY DEF Message
  <2>4. ClaimOf(d) \in claims /\ new \notin executed /\ sent[d] \in Nat
    BY <1>0, <2>2, <2>3
  <2>5. \A m \in queue' \cup executed' : m.of \in claims'
    BY <1>0, <2>2, <2>3, <2>4
  <2>6. \A o \in Dispatchers : pc'[o] = "won" => pc[o] = "won"
    BY <2>2
  <2>7. ASSUME NEW o \in Dispatchers, pc'[o] = "won", NEW m \in queue' \cup executed', m.of = ClaimOf(o)
        PROVE  m.copy <= sent'[o]
    <3>1. CASE o = d
      <4>1. sent'[o] = sent[d] + 1 /\ sent[d] \in Nat
        BY <2>2, <2>4, <2>7, <3>1
      <4>2. m \in queue \cup executed => m.copy <= sent[d] /\ m.copy \in Nat
        BY <1>0, <2>2, <2>7, <3>1 DEF Messages
      <4> QED
        BY <2>2, <2>3, <4>1, <4>2
    <3>2. CASE o # d
      BY <1>0, <2>2, <2>3, <2>6, <2>7, <3>2
    <3> QED
      BY <3>1, <3>2
  <2>8. queue' \cap executed' = {}
    BY <1>0, <2>2, <2>4
  <2>9. \A o \in Dispatchers : pc'[o] # "won" => sent'[o] = 0
    BY <1>0, <2>2
  <2>10. \A o \in Dispatchers : pc'[o] = "won" =>
           /\ ClaimOf(o) \in claims'
           /\ \A q \in Dispatchers : q # o /\ pc'[q] = "won" => ClaimOf(q) # ClaimOf(o)
    BY <1>0, <2>2, <2>6
  <2> QED
    BY <2>1, <2>5, <2>7, <2>8, <2>9, <2>10
<1>5. ASSUME NEW m \in queue, Execute(m) \/ Lose(m) PROVE RunInv'
  <2>1. /\ queue' = queue \ {m} /\ executed' \in {executed, executed \cup {m}}
        /\ UNCHANGED <<claims, pc, sent>>
    BY <1>5 DEF Execute, Lose
  <2>2. \A o \in Dispatchers : ClaimOf(o)' = ClaimOf(o)
    BY <1>5 DEF Execute, Lose, ClaimOf, Anchor
  <2> QED
    BY <1>0, <2>1, <2>2
<1>6. CASE EditRead \/ EditCommit \/ Tick \/ UNCHANGED vars
  <2>1. UNCHANGED <<claims, sent, queue, executed, pc, seen, checkAt>>
    BY <1>6 DEF EditRead, EditCommit, Tick, vars
  <2>2. \A o \in Dispatchers : ClaimOf(o)' = ClaimOf(o)
    BY <2>1 DEF ClaimOf, Anchor
  <2> QED
    BY <1>0, <2>1, <2>2
<1> QED
  BY <1>2, <1>3, <1>4, <1>5, <1>6 DEF Next, Dispatch

\* A row that is due has a fire, and what a dispatcher has seen stays until it claims.
LEMMA FilledStep == IInv /\ [Next]_vars => FilledInv'
<1> SUFFICES ASSUME IInv, [Next]_vars PROVE FilledInv'
  OBVIOUS
<1>0. /\ FilledInv /\ TypeOK
      /\ pc \in [Dispatchers -> {"idle", "begun", "loaded", "due", "won"}]
      /\ now \in Nat /\ \A c \in claims : c.to \in Nat
  BY CronAssumption DEF IInv, TypeOK, Claims
<1> USE DEF FilledInv
<1>1. ASSUME NEW d \in Dispatchers, Begin(d) \/ Query(d) \/ Reload(d) \/ Stop(d)
      PROVE  FilledInv'
  <2>1. pc'[d] # "due" /\ UNCHANGED claims /\ now' \in {now, now + 1}
    BY <1>0, <1>1 DEF Begin, Query, Reload, Stop
  <2>2. \A o \in Dispatchers \ {d} : pc'[o] = pc[o] /\ seen'[o] = seen[o] /\ checkAt'[o] = checkAt[o]
    BY <1>0, <1>1 DEF Begin, Query, Reload, Stop, TypeOK
  <2>3. \A o \in Dispatchers \ {d} : Fires(ClaimOf(o))' = Fires(ClaimOf(o))
    BY <2>2 DEF Fires, ClaimOf, Anchor
  <2>4. \A c \in claims : c.to <= now'
    BY <1>0, <2>1
  <2> QED
    BY <1>0, <2>1, <2>2, <2>3, <2>4 DEF Fires
<1>2. ASSUME NEW d \in Dispatchers, Evaluate(d) PROVE FilledInv'
  <2>1. UNCHANGED <<claims, now, seen, checkAt>>
    BY <1>2 DEF Evaluate
  <2>2. \A o \in Dispatchers : Fires(ClaimOf(o))' = Fires(ClaimOf(o))
    BY <2>1 DEF Fires, ClaimOf, Anchor
  <2>3. \A o \in Dispatchers : pc'[o] = "due" => pc[o] = "due" \/ (o = d /\ Due(seen[d], checkAt[d]))
    BY <1>0, <1>2 DEF Evaluate
  <2>4. Due(seen[d], checkAt[d]) => Fires(ClaimOf(d)) # {}
    BY DEF Due, Fires, ClaimOf
  <2> QED
    BY <1>0, <2>1, <2>2, <2>3, <2>4 DEF Fires
<1>3. ASSUME NEW d \in Dispatchers, Claim(d) \/ Publish(d) PROVE FilledInv'
  <2>1. UNCHANGED <<now, seen, checkAt>> /\ claims' \subseteq claims \cup {ClaimOf(d)}
    BY <1>3 DEF Claim, Publish
  <2>2. \A o \in Dispatchers : Fires(ClaimOf(o))' = Fires(ClaimOf(o))
    BY <2>1 DEF Fires, ClaimOf, Anchor
  <2>3. \A o \in Dispatchers : pc'[o] = "due" => pc[o] = "due"
    BY <1>0, <1>3 DEF Claim, Publish
  <2>4. ASSUME claims' # claims PROVE Fires(ClaimOf(d)) # {} /\ ClaimOf(d).to <= now
    BY <1>0, <1>3, <2>4 DEF Claim, Publish, ClaimOf, TypeOK
  <2> QED
    BY <1>0, <2>1, <2>2, <2>3, <2>4 DEF Fires
<1>4. CASE \/ \E m \in queue : Execute(m) \/ Lose(m)
           \/ EditRead \/ EditCommit \/ Tick \/ UNCHANGED vars
  <2>1. UNCHANGED <<claims, pc, seen, checkAt>> /\ now' \in {now, now + 1}
    BY <1>4 DEF Execute, Lose, EditRead, EditCommit, Tick, vars
  <2>2. \A o \in Dispatchers : Fires(ClaimOf(o))' = Fires(ClaimOf(o))
    BY <2>1 DEF Fires, ClaimOf, Anchor
  <2> QED
    BY <1>0, <2>1, <2>2 DEF Fires
<1> QED
  BY <1>1, <1>2, <1>3, <1>4 DEF Next, Dispatch

-----------------------------------------------------------------------------

\* Nothing is claimed at the start.
LEMMA InitIInv == Init => IInv
<1> SUFFICES ASSUME Init PROVE IInv
  OBVIOUS
<1> USE CronAssumption DEF Init
<1>1. PICK c \in Crons, k \in Kinds :
        row = [cron |-> c, enabled |-> TRUE, last |-> IF k.resets THEN 1 ELSE Null,
               kind |-> k, epoch |-> 0, saved |-> 1]
  OBVIOUS
<1>2. row \in Rows /\ row.last \in {0, 1} /\ row.saved = 1 /\ (row.kind.resets => row.last = 1)
  BY <1>1 DEF Rows, Null
<1>3. TypeOK
  <2>1. now \in 1..MaxTime /\ row \in Rows /\ row.last <= now
    BY <1>2
  <2>2. /\ pc \in [Dispatchers -> {"idle", "begun", "loaded", "due", "won"}]
        /\ checkAt \in [Dispatchers -> 0..MaxTime] /\ \A d \in Dispatchers : checkAt[d] <= now
    OBVIOUS
  <2>3. seen \in [Dispatchers -> Rows] /\ \A d \in Dispatchers : seen[d].last <= now
    BY <1>2
  <2>4. sent \in [Dispatchers -> 0..(MaxSends - 1)]
    OBVIOUS
  <2> QED
    BY <2>1, <2>2, <2>3, <2>4 DEF TypeOK
<1>4. FreshInv /\ EditInv /\ EpochInv /\ ChainInv /\ DisjointInv
  BY <1>2 DEF FreshInv, EditInv, EpochInv, ChainInv, DisjointInv, Open, Unstamped, Null
<1>5. AnchorInv
  BY <1>2 DEF AnchorInv, Open
<1>6. CoverInv
  <2>1. row.kind.resets => row.last = row.saved /\ row.saved \in Nat /\ row.cron \subseteq Nat
    BY <1>2 DEF Rows
  <2> QED
    BY <2>1 DEF CoverInv, NoFireIsSkipped
<1>7. RunInv /\ FilledInv
  BY DEF RunInv, FilledInv
<1> QED
  BY <1>3, <1>4, <1>5, <1>6, <1>7 DEF IInv

\* The invariant holds at the start and survives every step.
THEOREM Inductive == Spec => []IInv
<1>1. IInv /\ [Next]_vars => IInv'
  <2>1. IInv => TypeOK
    BY DEF IInv
  <2> QED
    BY <2>1, TypeStep, FreshStep, EpochStep, ChainStep, DisjointStep, AnchorStep, CoverStep,
       RunStep, FilledStep DEF IInv
<1> QED
  BY InitIInv, <1>1, PTL DEF Spec

\* TypeOK: no timestamp of the row or of a dispatcher lies in the future.
THEOREM TypeCorrect == Spec => []TypeOK
<1>1. IInv => TypeOK
  BY DEF IInv
<1> QED
  BY Inductive, <1>1, PTL

\* OncePerFire: overlapping dispatchers, crashes and edits never have a fire
\* claimed twice.
THEOREM OncePerFireAlways == Spec => []OncePerFire
<1>1. IInv => OncePerFire
  BY DEF IInv, TypeOK, Claims, DisjointInv, OncePerFire, Fires
<1> QED
  BY Inductive, <1>1, PTL

\* ClaimMovesForward: a claim that is won is younger than the anchor it replaces.
THEOREM ClaimsMoveForward == Spec => ClaimMovesForward
<1>1. IInv => \A d \in Dispatchers : Claim(d) /\ row' # row => row'.last > row.last
  <2> SUFFICES ASSUME IInv, NEW d \in Dispatchers, Claim(d), row' # row
               PROVE  row'.last > row.last
    OBVIOUS
  <2>1. row.last = seen[d].last /\ row' = [row EXCEPT !.last = checkAt[d]] /\ pc[d] = "due"
    BY DEF Claim
  <2> QED
    BY <2>1 DEF IInv, TypeOK, Rows, Kinds, ChainInv
<1> QED
  BY Inductive, <1>1, PTL DEF Spec, ClaimMovesForward

\* NoFireIsSkipped: for cells and clusters, every fire of the present cron that the
\* anchor has passed was claimed.
THEOREM NoFireSkipped ==
  Spec => []NoFireIsSkipped
<1>1. IInv => NoFireIsSkipped
  BY DEF IInv, CoverInv
<1> QED
  BY Inductive, <1>1, PTL

\* FiresAfterEdit: for cells and clusters, no claim reaches back to before its cron
\* was saved.
THEOREM FiresOnlyAfterEdit ==
  Spec => []FiresAfterEdit
<1>1. IInv => FiresAfterEdit
  BY DEF IInv, TypeOK, Claims, AnchorInv, FiresAfterEdit, Fires
<1> QED
  BY Inductive, <1>1, PTL

\* OnlyResendsRepeat: a task is the first to run the fires of its claim, unless the other
\* runs are of further messages of that same claim.
THEOREM RepeatsAreResends == Spec => OnlyResendsRepeat
<1>1. ASSUME IInv, NEW m \in queue
      PROVE  /\ m \notin executed
             /\ \A e \in executed : e.of.epoch = m.of.epoch /\ e.of # m.of =>
                  Fires(m.of) \cap Fires(e.of) = {}
  <2>1. m \notin executed /\ m.of \in claims /\ \A e \in executed : e.of \in claims
    BY <1>1 DEF IInv, RunInv
  <2>2. OncePerFire
    BY <1>1 DEF IInv, TypeOK, Claims, DisjointInv, OncePerFire, Fires
  <2> QED
    BY <2>1, <2>2 DEF OncePerFire
<1>2. IInv => \A m \in queue : Execute(m) =>
        /\ m \notin executed
        /\ \A e \in executed : e.of.epoch = m.of.epoch /\ e.of # m.of =>
             Fires(m.of) \cap Fires(e.of) = {}
  BY <1>1
<1> QED
  BY Inductive, <1>2, PTL DEF Spec, OnlyResendsRepeat

-----------------------------------------------------------------------------
(* The ledger of fires.                                                    *)

Claimed == UNION {FiresOf(c) : c \in claims}
Pending == {RunOf(m) : m \in Outstanding}
Ran == {RunOf(m) : m \in executed}
ClaimTimes == Nat \ {0}
ledgerVars == <<now, Claimed, Pending, Ran>>

\* Two claims have no fire in common, and none is empty: a batch stands for one claim.
LEMMA BatchesDiffer ==
  ASSUME IInv, NEW c \in claims, NEW e \in claims, c # e
  PROVE  FiresOf(c) \cap FiresOf(e) = {} /\ FiresOf(c) # FiresOf(e)
<1>1. FiresOf(c) # {}
  BY DEF IInv, FilledInv, FiresOf
<1>2. OncePerFire
  BY DEF IInv, TypeOK, Claims, DisjointInv, OncePerFire, Fires
<1>3. FiresOf(c) \cap FiresOf(e) = {}
  BY <1>2 DEF OncePerFire, FiresOf
<1> QED
  BY <1>1, <1>3

\* A run stands for one message.
LEMMA RunsDiffer ==
  ASSUME IInv, NEW m \in Messages, NEW e \in Messages, m.of \in claims, e.of \in claims,
         RunOf(m) = RunOf(e)
  PROVE  m = e
<1>1. m.copy = e.copy /\ FiresOf(m.of) = FiresOf(e.of)
  BY DEF RunOf
<1>2. m.of = e.of
  BY <1>1, BatchesDiffer
<1> QED
  BY <1>1, <1>2 DEF Messages

\* What is outstanding is of a claim, and has not run.
LEMMA OutstandingIsClaimed ==
  ASSUME IInv
  PROVE  \A m \in Outstanding : m \in Messages /\ m.of \in claims /\ m \notin executed
<1>1. TypeOK /\ RunInv
  BY DEF IInv
<1>2. \A m \in queue : m \in Messages /\ m.of \in claims /\ m \notin executed
  BY <1>1 DEF TypeOK, RunInv
<1>3. ASSUME NEW d \in Dispatchers, pc[d] = "won", NEW m \in Unsent(d)
      PROVE  m \in Messages /\ m.of \in claims /\ m \notin executed
  <2>1. PICK k \in (sent[d] + 1)..MaxSends : m = Message(ClaimOf(d), k)
    BY <1>3 DEF Unsent
  <2>2. sent[d] \in Nat /\ k \in 1..MaxSends /\ k > sent[d] /\ MaxSends \in Nat
    BY <1>1, CronAssumption DEF TypeOK
  <2>3. m.of = ClaimOf(d) /\ m.copy = k /\ m \in Messages
    BY <1>1, <2>1, <2>2, ClaimType DEF Message, Messages
  <2>4. ~ (m.copy <= sent[d])
    BY <2>2, <2>3
  <2> QED
    BY <1>1, <1>3, <2>3, <2>4 DEF RunInv
<1> QED
  BY <1>2, <1>3 DEF Outstanding

\* What a step that leaves the claims alone does to the ledger depends on what becomes
\* outstanding and what has run.
LEMMA LedgerKept ==
  ASSUME IInv, UNCHANGED <<claims, executed>>
  PROVE  /\ UNCHANGED <<Claimed, Ran>>
         /\ Pending' = {RunOf(m) : m \in Outstanding'}
BY DEF Claimed, Pending, Ran, RunOf, FiresOf, Fires

\* A dispatcher's step is about its own claim only.
LEMMA OutstandingAfter ==
  ASSUME IInv, NEW d \in Dispatchers, pc'[d] # "won", UNCHANGED queue,
         \A o \in Dispatchers \ {d} :
           pc'[o] = pc[o] /\ ClaimOf(o)' = ClaimOf(o) /\ sent'[o] = sent[o]
  PROVE  /\ Outstanding' \subseteq Outstanding
         /\ pc[d] # "won" => Outstanding' = Outstanding
<1>1. \A o \in Dispatchers \ {d} : Unsent(o)' = Unsent(o)
  BY DEF Unsent, Message
<1> QED
  BY <1>1 DEF Outstanding

\* Every step is one of the ledger, or none of its business.
LEMMA LedgerStep == IInv /\ [Next]_vars => [Ledger!Next]_ledgerVars
<1> SUFFICES ASSUME IInv, [Next]_vars PROVE [Ledger!Next]_ledgerVars
  OBVIOUS
<1>0. /\ pc \in [Dispatchers -> {"idle", "begun", "loaded", "due", "won"}]
      /\ sent \in [Dispatchers -> 0..(MaxSends - 1)] /\ MaxSends \in Nat \ {0}
      /\ TypeOK /\ RunInv
  BY CronAssumption DEF IInv, TypeOK
\* A step that claims and runs nothing may drop something, or take time.
<1>d. ASSUME Outstanding' \subseteq Outstanding, UNCHANGED <<claims, executed>>,
             \/ UNCHANGED now
             \/ now' = now + 1 /\ Outstanding' = Outstanding
      PROVE  [Ledger!Next]_ledgerVars
  <2>1. UNCHANGED <<Claimed, Ran>> /\ Pending' \subseteq Pending
    BY <1>d, LedgerKept DEF Pending
  <2>2. CASE UNCHANGED now
    BY <2>1, <2>2 DEF Ledger!Next, Ledger!Drop, Claimed, Pending, Ran
  <2>3. CASE now' = now + 1 /\ Outstanding' = Outstanding
    <3>1. UNCHANGED Pending
      BY <1>d, <2>3, LedgerKept DEF Pending
    <3> QED
      BY <2>1, <2>3, <3>1 DEF Ledger!Next, Ledger!Tick, Claimed, Pending, Ran
  <2> QED
    BY <1>d, <2>2, <2>3
<1>1. ASSUME NEW d \in Dispatchers, Begin(d) \/ Query(d) \/ Reload(d) \/ Evaluate(d) \/ Stop(d)
      PROVE  [Ledger!Next]_ledgerVars
  <2>1. /\ pc'[d] # "won" /\ UNCHANGED <<claims, queue, executed>>
        /\ \A o \in Dispatchers \ {d} : pc'[o] = pc[o] /\ ClaimOf(o)' = ClaimOf(o) /\ sent'[o] = sent[o]
    BY <1>0, <1>1, OthersKept
  <2>2. Outstanding' \subseteq Outstanding /\ (pc[d] # "won" => Outstanding' = Outstanding)
    BY <2>1, OutstandingAfter
  <2>3. UNCHANGED now \/ (now' = now + 1 /\ pc[d] # "won")
    BY <1>1 DEF Begin, Query, Reload, Evaluate, Stop
  <2> QED
    BY <1>d, <2>1, <2>2, <2>3
<1>2. ASSUME NEW d \in Dispatchers, Claim(d) PROVE [Ledger!Next]_ledgerVars
  <2>1. UNCHANGED <<seen, checkAt, queue, executed, sent, now>> /\ pc[d] = "due"
    BY <1>2 DEF Claim
  <2>0. \A o \in Dispatchers : ClaimOf(o)' = ClaimOf(o)
    BY <2>1 DEF ClaimOf, Anchor
  <2>2. CASE row.last # seen[d].last
    <3>1. pc'[d] # "won" /\ UNCHANGED claims /\ \A o \in Dispatchers \ {d} : pc'[o] = pc[o]
      BY <1>0, <1>2, <2>2 DEF Claim
    <3>2. Outstanding' = Outstanding
      BY <2>0, <2>1, <3>1, OutstandingAfter
    <3> QED
      BY <1>d, <2>1, <3>1, <3>2
  <2>3. CASE row.last = seen[d].last
    <3> DEFINE F == FiresOf(ClaimOf(d))
               R == {[batch |-> F, copy |-> k] : k \in 1..MaxSends}
    <3>1. /\ claims' = claims \cup {ClaimOf(d)}
          /\ \A o \in Dispatchers : pc'[o] = "won" <=> (o = d \/ pc[o] = "won")
      BY <1>0, <1>2, <2>3 DEF Claim
    <3>2. \A o \in Dispatchers : Unsent(o)' = Unsent(o)
      BY <2>0, <2>1 DEF Unsent, Message
    <3>3. Outstanding' = Outstanding \cup Unsent(d)
      BY <2>1, <3>1, <3>2 DEF Outstanding
    <3>4. {RunOf(m) : m \in Unsent(d)} = R
      <4>1. sent[d] = 0
        BY <1>0, <2>1 DEF RunInv
      <4>2. \A k \in 1..MaxSends : RunOf(Message(ClaimOf(d), k)) = [batch |-> F, copy |-> k]
        BY DEF RunOf, Message
      <4> QED
        BY <4>1, <4>2 DEF Unsent
    <3>5. Claimed' = Claimed \cup F /\ UNCHANGED <<Ran, now>>
      BY <2>1, <3>1 DEF Claimed, Ran, RunOf, FiresOf, Fires
    <3>6. Pending' = Pending \cup R
      <4>1. Pending' = {RunOf(m) : m \in Outstanding'}
        BY DEF Pending, RunOf, FiresOf, Fires
      <4> QED
        BY <3>3, <3>4, <4>1 DEF Pending
    <3>7. F # {}
      BY <2>1 DEF IInv, FilledInv, FiresOf
    <3>8. \A f \in F : f.at <= now
      <4>1. ClaimOf(d).to <= now /\ ClaimOf(d).to \in Int /\ ClaimOf(d).cron \subseteq Int /\ now \in Int
        BY <1>0, CronAssumption DEF ClaimOf, TypeOK, Rows
      <4> QED
        BY <4>1 DEF FiresOf, Fires
    <3>9. \A f \in F, g \in Claimed : g.epoch = f.epoch => g.at < f.at
      <4>1. \A c \in claims : c.epoch = seen[d].epoch => c.to <= seen[d].last /\ 0 < c.to
        BY <2>1, <2>3 DEF IInv, ChainInv, EpochInv, Open
      <4>2. \A c \in claims : c.epoch = seen[d].epoch => c.to <= ClaimOf(d).from
        BY <1>0, <4>1 DEF ClaimOf, Anchor, Null, Claims, TypeOK, Rows
      <4>3. ClaimOf(d).epoch = seen[d].epoch /\ ClaimOf(d) \in Claims
        BY <1>0, ClaimType DEF ClaimOf
      <4>4. ASSUME NEW c \in claims, c.epoch = seen[d].epoch,
                   NEW f \in Fires(ClaimOf(d)), NEW g \in Fires(c)
            PROVE  g < f
        <5>1. c \in Claims /\ c.to <= ClaimOf(d).from
          BY <1>0, <4>2, <4>4 DEF TypeOK
        <5>2. g <= c.to /\ ClaimOf(d).from < f /\ g \in ClaimTimes /\ f \in ClaimTimes
          BY <4>3, <4>4, <5>1 DEF Fires, Claims, ClaimTimes
        <5> QED
          BY <4>3, <5>1, <5>2 DEF Claims, ClaimTimes
      <4> QED
        BY <4>3, <4>4 DEF Claimed, FiresOf
    <3>10. Ledger!Claim(F)
      BY <3>5, <3>6, <3>7, <3>8, <3>9 DEF Ledger!Claim, Claimed, Pending, Ran
    <3>11. [batch |-> F, copy |-> 1] \in Pending' \ Pending
      <4>1. [batch |-> F, copy |-> 1] \in R
        BY <1>0
      <4>2. ASSUME NEW m \in Outstanding, RunOf(m) = [batch |-> F, copy |-> 1] PROVE FALSE
        <5>1. m.of \in claims /\ FiresOf(m.of) = F
          BY <4>2, OutstandingIsClaimed DEF RunOf
        <5>2. F \subseteq Claimed
          BY <5>1 DEF Claimed
        <5>3. PICK f \in F : TRUE
          BY <3>7
        <5>4. f.at < f.at
          BY <3>9, <5>2, <5>3
        <5>5. f.at \in Int
          BY <1>0, <5>3, ClaimType DEF FiresOf, Fires, Claims
        <5> QED
          BY <5>4, <5>5
      <4> QED
        BY <3>6, <4>1, <4>2 DEF Pending
    <3>12. \E r \in Pending' \ Pending : Ledger!Claim(r.batch)
      <4>1. [batch |-> F, copy |-> 1].batch = F
        OBVIOUS
      <4> QED
        BY <3>10, <3>11, <4>1
    <3> QED
      BY <3>12 DEF Ledger!Next, Pending
  <2> QED
    BY <2>2, <2>3
<1>3. ASSUME NEW d \in Dispatchers, Publish(d) PROVE [Ledger!Next]_ledgerVars
  <2> DEFINE new == Message(ClaimOf(d), sent[d] + 1)
  <2>1. /\ queue' = queue \cup {new} /\ pc[d] = "won"
        /\ \A o \in Dispatchers \ {d} : pc'[o] = pc[o] /\ sent'[o] = sent[o]
        /\ \/ pc'[d] = "idle"
           \/ pc'[d] = "won" /\ sent'[d] = sent[d] + 1
        /\ UNCHANGED <<now, claims, executed, seen, checkAt>>
    BY <1>0, <1>3 DEF Publish
  <2>2. \A o \in Dispatchers : ClaimOf(o)' = ClaimOf(o)
    BY <2>1 DEF ClaimOf, Anchor
  <2>3. \A o \in Dispatchers \ {d} : Unsent(o)' = Unsent(o)
    BY <2>1, <2>2 DEF Unsent, Message
  <2>4. new \in Unsent(d) /\ (pc'[d] = "won" => Unsent(d)' \subseteq Unsent(d))
    <3>1. sent[d] \in Nat /\ sent[d] + 1 \in (sent[d] + 1)..MaxSends
      BY <1>0
    <3>2. new \in Unsent(d)
      BY <3>1 DEF Unsent
    <3>3. ASSUME pc'[d] = "won" PROVE Unsent(d)' \subseteq Unsent(d)
      <4>1. sent'[d] = sent[d] + 1
        BY <2>1, <3>3
      <4>2. Unsent(d)' = {Message(ClaimOf(d), k) : k \in (sent[d] + 2)..MaxSends}
        BY <2>2, <3>1, <4>1 DEF Unsent, Message
      <4>3. (sent[d] + 2)..MaxSends \subseteq (sent[d] + 1)..MaxSends
        BY <1>0, <3>1
      <4> QED
        BY <4>2, <4>3 DEF Unsent
    <3> QED
      BY <3>2, <3>3
  <2>5. Outstanding' \subseteq Outstanding
    <3>1. new \in Outstanding /\ Unsent(d) \subseteq Outstanding
      BY <2>1, <2>4 DEF Outstanding
    <3>2. ASSUME NEW m \in Outstanding' PROVE m \in Outstanding
      <4>1. CASE m \in queue'
        BY <2>1, <3>1, <4>1 DEF Outstanding
      <4>2. CASE \E o \in Dispatchers : pc'[o] = "won" /\ m \in Unsent(o)'
        BY <2>1, <2>3, <2>4, <3>1, <4>2 DEF Outstanding
      <4> QED
        BY <4>1, <4>2 DEF Outstanding
    <3> QED
      BY <3>2
  <2> QED
    BY <1>d, <2>1, <2>5
<1>4. ASSUME NEW m \in queue, Execute(m) \/ Lose(m) PROVE [Ledger!Next]_ledgerVars
  <2>1. /\ queue' = queue \ {m} /\ UNCHANGED <<now, claims, pc, seen, checkAt, sent>>
        /\ executed' \in {executed, executed \cup {m}}
    BY <1>4 DEF Execute, Lose
  <2>2. \A o \in Dispatchers : ClaimOf(o)' = ClaimOf(o)
    BY <2>1 DEF ClaimOf, Anchor
  <2>3. \A o \in Dispatchers : Unsent(o)' = Unsent(o)
    BY <2>1, <2>2 DEF Unsent, Message
  <2>4. ASSUME NEW o \in Dispatchers, pc[o] = "won" PROVE m \notin Unsent(o)
    <3>1. m.of = ClaimOf(o) => m.copy <= sent[o]
      BY <1>0, <2>4 DEF RunInv
    <3>2. \A k \in (sent[o] + 1)..MaxSends :
            Message(ClaimOf(o), k).of = ClaimOf(o) /\ Message(ClaimOf(o), k).copy = k /\ ~ (k <= sent[o])
      BY <1>0 DEF Message
    <3> QED
      BY <3>1, <3>2 DEF Unsent
  <2>5. m \in Outstanding /\ Outstanding' = Outstanding \ {m}
    BY <2>1, <2>3, <2>4 DEF Outstanding
  <2>6. CASE executed' = executed
    BY <1>d, <2>1, <2>5, <2>6
  <2>7. CASE executed' = executed \cup {m}
    <3>1. m \in Messages /\ m.of \in claims
          /\ \A e \in Outstanding \cup executed : e # m => RunOf(e) # RunOf(m)
      <4>1. \A e \in Outstanding \cup executed : e \in Messages /\ e.of \in claims
        BY <1>0, OutstandingIsClaimed DEF TypeOK, RunInv
      <4> QED
        BY <2>5, <4>1, RunsDiffer
    <3>2. Pending' = Pending \ {RunOf(m)} /\ RunOf(m) \in Pending
      <4>1. Pending' = {RunOf(e) : e \in Outstanding'}
        BY DEF Pending, RunOf, FiresOf, Fires
      <4> QED
        BY <2>5, <3>1, <4>1 DEF Pending
    <3>3. Ran' = Ran \cup {RunOf(m)} /\ UNCHANGED <<Claimed, now>>
      BY <2>1, <2>7 DEF Ran, Claimed, RunOf, FiresOf, Fires
    <3>4. RunOf(m) \notin Ran
      <4>1. m \notin executed
        BY <1>0 DEF RunInv
      <4> QED
        BY <3>1, <4>1 DEF Ran
    <3>5. Ledger!Run(RunOf(m)) /\ RunOf(m) \in Pending \ Pending'
      BY <3>2, <3>3, <3>4 DEF Ledger!Run, Claimed, Pending, Ran
    <3> QED
      BY <3>5 DEF Ledger!Next, Pending
  <2> QED
    BY <2>1, <2>6, <2>7
<1>5. CASE EditRead \/ EditCommit \/ Tick \/ UNCHANGED vars
  <2>1. UNCHANGED <<claims, sent, queue, executed, pc, seen, checkAt>> /\ now' \in {now, now + 1}
    BY <1>5 DEF EditRead, EditCommit, Tick, vars
  <2>2. \A o \in Dispatchers : ClaimOf(o)' = ClaimOf(o)
    BY <2>1 DEF ClaimOf, Anchor
  <2>3. Outstanding' = Outstanding
    BY <2>1, <2>2 DEF Outstanding, Unsent, Message
  <2> QED
    BY <1>d, <2>1, <2>3
<1> QED
  BY <1>1, <1>2, <1>3, <1>4, <1>5 DEF Next, Dispatch

\* KeepsLedger: whatever dispatchers, operators and the broker do, it is a history of the
\* ledger: fires are claimed when their time has come, in order, once, and run in the
\* batches they were claimed in, at most once for every time the batch was sent.
THEOREM ImplementsLedger == Spec => KeepsLedger
<1>1. Init => Ledger!Init
  BY DEF Init, Ledger!Init, Outstanding
<1>2. IInv /\ [Next]_vars => [Ledger!Next]_ledgerVars
  BY LedgerStep
<1> QED
  BY <1>1, <1>2, Inductive, PTL DEF Spec, KeepsLedger, Ledger!Spec, ledgerVars, Claimed, Pending, Ran
=============================================================================
