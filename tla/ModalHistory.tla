---------------------------- MODULE ModalHistory ----------------------------
(***************************************************************************)
(* The browser history of a tab and the records that modals keep in it so  *)
(* that "back" closes them (modalHistory.ts, useModalHistory.ts).          *)
(*                                                                         *)
(* A record is a screen of some path, or the mark #modal-<id> of a modal   *)
(* over it; its place is its idx.  A modal stands for one opening of it.   *)
(* history.go is asynchronous: a traversal is carried out, and popstate    *)
(* fires, after whatever was pushed in the meantime.  The operations of    *)
(* the queue run one after another as microtasks: tasks of the page come   *)
(* when the queue is empty or waits for a popstate.  A modal goes with the *)
(* path it was opened on.                                                  *)
(***************************************************************************)
EXTENDS Integers, Sequences, SequencesExt, FiniteSets, Functions

CONSTANTS Modals, Paths, Screen,
  Moves,       \* what the user may do: -1 back, 1 forward
  MaxLength,   \* bound on the records of the history
  MaxSteps     \* bound on the navigations of the user and of the screens

ASSUME ModalAssumption ==
  /\ IsFiniteSet(Modals) /\ Screen \notin Modals \cup Paths /\ Moves \subseteq Int
  /\ MaxLength \in Nat \ {0} /\ MaxSteps \in Nat

VARIABLES
  stack, cur,   \* the records and the place of the current one
  ui,           \* per modal: new, open, closed
  entries,      \* records of open modals: place, path, replaced
  deferred,     \* records of closed modals below an open one, as they came;
                \*   NoEntry for one that has been used
  queue,        \* operations to be run; the head may be waiting for popstate
  waiting,
  selfPops, lastIdx,
  going,        \* traversals asked for, not yet carried out
  checks,       \* timers: modals that may have refused to close
  hasty,        \* history: something was opened, closed or navigated to while a
                \*   traversal was carried out (some milliseconds)
  steps

historyVars == <<stack, cur, going>>
bookVars == <<entries, deferred, selfPops, lastIdx>>
vars == <<historyVars, ui, bookVars, queue, waiting, checks, hasty, steps>>

NoEntry == [idx |-> 0, path |-> Screen, replaced |-> FALSE]
Has(m) == entries[m] # NoEntry
Here == stack[cur]
OnModal == Here.mark # Screen      \* isModalHash

Init ==
  /\ \E p \in Paths : stack = <<[path |-> p, mark |-> Screen]>>
  /\ cur = 1
  /\ ui = [m \in Modals |-> "new"]
  /\ entries = [m \in Modals |-> NoEntry] /\ deferred = <<>>
  /\ queue = <<>> /\ waiting = FALSE
  /\ selfPops = 0 /\ lastIdx = 1
  /\ going = <<>> /\ checks = {} /\ hasty = FALSE /\ steps = 0

Task == queue = <<>> \/ waiting
Act == Task /\ hasty' = (hasty \/ going # <<>>)
Step == Act /\ steps < MaxSteps /\ steps' = steps + 1

-----------------------------------------------------------------------------
(* The screens.                                                            *)

PushOp(m) == [op |-> "push", of |-> m, entry |-> NoEntry, by |-> 0]
ReleaseOp(m, e) == [op |-> "release", of |-> m, entry |-> e, by |-> 0]
GoOp(d) == [op |-> "go", of |-> Screen, entry |-> NoEntry, by |-> d]

\* openModalEntry
Open(m) ==
  /\ Act /\ ui[m] = "new" /\ ui' = [ui EXCEPT ![m] = "open"]
  /\ queue' = Append(queue, PushOp(m))
  /\ UNCHANGED <<historyVars, bookVars, waiting, checks, steps>>

\* The releases of the modals S, which are closed, in the order in which their
\* components are unmounted.  (A push that has not run yet is dropped.)
Releases(S) ==
  LET T == {m \in S : Has(m)}
  IN {[i \in 1..Cardinality(T) |-> ReleaseOp(o[i], entries[o[i]])] :
        o \in Surjection(1..Cardinality(T), T)}
Forget(S) == entries' = [m \in Modals |-> IF m \in S THEN NoEntry ELSE entries[m]]

Opened == {m \in Modals : ui[m] = "open"}

\* Closed by a cross, Escape or save, not by "back": a modal, with those in it.
Close(S) ==
  /\ Act /\ S # {} /\ ui' = [m \in Modals |-> IF m \in S THEN "closed" ELSE ui[m]]
  /\ Forget(S) /\ \E r \in Releases(S) : queue' = queue \o r
  /\ UNCHANGED <<historyVars, deferred, selfPops, lastIdx, waiting, checks, steps>>

Pushed(r) ==
  /\ cur < MaxLength
  /\ stack' = Append(SubSeq(stack, 1, cur), r) /\ cur' = cur + 1

\* A link: another path unmounts the modals, another query leaves them.
Navigate(p) ==
  /\ Step /\ Pushed([path |-> p, mark |-> Screen])
  /\ LET gone == IF p = Here.path THEN {} ELSE Opened IN
       /\ ui' = [m \in Modals |-> IF m \in gone THEN "closed" ELSE ui[m]]
       /\ Forget(gone) /\ \E r \in Releases(gone) : queue' = queue \o r
  /\ UNCHANGED <<deferred, selfPops, lastIdx, going, waiting, checks>>

\* Another part of the screen replaces the URL and drops the mark.
Replace ==
  /\ OnModal /\ Step
  /\ stack' = [stack EXCEPT ![cur].mark = Screen]
  /\ UNCHANGED <<cur, going, ui, bookVars, queue, waiting, checks>>

\* The user goes back or forward.
UserGo(d) ==
  /\ Step /\ cur + d \in 1..Len(stack)
  /\ going' = Append(going, [by |-> d, self |-> FALSE])
  /\ UNCHANGED <<stack, cur, ui, bookVars, queue, waiting, checks>>

-----------------------------------------------------------------------------
(* The queue.                                                              *)

\* markReplacedAtCurrent
Marked(e) == IF ~OnModal /\ e.idx = cur THEN [e EXCEPT !.replaced = TRUE] ELSE e
MarkedEntries == [m \in Modals |-> Marked(entries[m])]
MarkedDeferred == [i \in 1..Len(deferred) |-> Marked(deferred[i])]

\* Mutant of SelfGo: a plain history.go, as it was before the queue.
SelfGoBare(d) ==
  /\ going' = Append(going, [by |-> d, self |-> TRUE])
  /\ queue' = Tail(queue) /\ UNCHANGED <<waiting, selfPops>>
SelfGo(d) ==
  /\ selfPops' = selfPops + 1
  /\ going' = Append(going, [by |-> d, self |-> TRUE])
  /\ waiting' = TRUE
  /\ UNCHANGED queue
Done == queue' = Tail(queue) /\ UNCHANGED <<waiting, selfPops, going>>

RunPush(m) ==
  IF ui[m] # "open"
    THEN UNCHANGED <<stack, cur, entries, deferred, lastIdx>>
    ELSE /\ Pushed([path |-> Here.path, mark |-> m])
         /\ lastIdx' = cur'
         /\ entries' = [MarkedEntries EXCEPT ![m] =
                          [idx |-> cur', path |-> Here.path, replaced |-> FALSE]]
         /\ deferred' = MarkedDeferred

\* Mutant of Reach: what was put off is forgotten.
ReachOne(e) == [low |-> e.idx, used |-> {}]

\* The records that are taken back in one go with the one of e: those put off
\* right below it, each time the first of its place, down to one that has
\* become a screen.
PutOff(i, p) ==
  {k \in 1..Len(deferred) : MarkedDeferred[k].idx = i /\ MarkedDeferred[k].path = p}
Reach(e) ==
  LET chain(n) == \A i \in e.idx - n..e.idx - 1 : PutOff(i, e.path) # {}
      clean(n) == \A i \in e.idx - n..e.idx - 1 :
                    ~MarkedDeferred[Min(PutOff(i, e.path))].replaced
      depth == Cardinality({n \in 1..e.idx : chain(n) /\ clean(n)})
      last == IF chain(depth + 1) THEN depth + 1 ELSE depth
  IN [low |-> e.idx - depth,
      used |-> {Min(PutOff(i, e.path)) : i \in e.idx - last..e.idx - 1}]

\* deferred.splice
Without(seq, used) == [k \in 1..Len(seq) |-> IF k \in used THEN NoEntry ELSE seq[k]]

OpenAbove(e) == \E m \in Modals : e.idx < entries[m].idx /\ entries[m].idx <= cur

RunRelease(e) ==
  IF Here.path # e.path \/ cur < e.idx
    THEN Done /\ UNCHANGED <<entries, deferred>>
    ELSE /\ entries' = MarkedEntries
         /\ CASE ~e.replaced /\ ~OpenAbove(e) /\ OnModal ->
                   /\ deferred' = Without(MarkedDeferred, Reach(e).used)
                   /\ SelfGo(Reach(e).low - cur - 1)
              [] ~e.replaced /\ OpenAbove(e) -> Done /\ deferred' = Append(MarkedDeferred, e)
              [] OTHER -> Done /\ deferred' = MarkedDeferred

Run ==
  /\ queue # <<>> /\ ~waiting
  /\ LET o == Head(queue) IN
       \/ /\ o.op = "push" /\ RunPush(o.of) /\ Done
       \/ /\ o.op = "release" /\ RunRelease(o.entry)
          /\ UNCHANGED <<stack, cur, lastIdx>>
       \/ /\ o.op = "go" /\ SelfGo(o.by)
          /\ UNCHANGED <<stack, cur, entries, deferred, lastIdx>>
  /\ UNCHANGED <<ui, checks, hasty, steps>>

\* Mutant of Check: a modal that has not closed stays without a record.
CheckNever(m) ==
  /\ Task /\ m \in checks /\ checks' = checks \ {m}
  /\ UNCHANGED <<historyVars, ui, bookVars, queue, waiting, hasty, steps>>

\* setTimeout(..., 0): a modal that has not closed gets a new record.
Check(m) ==
  /\ Task /\ m \in checks /\ checks' = checks \ {m}
  /\ queue' = IF ui[m] = "open" THEN Append(queue, PushOp(m)) ELSE queue
  /\ UNCHANGED <<historyVars, ui, bookVars, waiting, hasty, steps>>

\* A traversal takes place: popstate resolves the operation that waits, and
\* onPopState closes the modals whose records are gone, unless it takes the
\* event for its own.  S: the modals that refuse to close.
Traverse(S) ==
  /\ Task /\ going # <<>> /\ going' = Tail(going)
  /\ LET at == cur + Head(going).by
         gone == IF selfPops > 0 THEN {} ELSE {m \in Modals : entries[m].idx > at}
         left == IF stack[at].path = Here.path THEN {} ELSE Opened \ gone
         orphan == /\ selfPops = 0 /\ stack[at].mark # Screen
                   /\ \A m \in Modals : entries[m].idx # at
         rest == IF waiting THEN Tail(queue) ELSE queue IN
     /\ at \in 1..Len(stack) /\ cur' = at
     /\ S \subseteq gone /\ (stack[at].path # Here.path => S = {})
     /\ selfPops' = IF selfPops > 0 THEN selfPops - 1 ELSE 0
     /\ lastIdx' = at
     /\ waiting' = FALSE
     /\ ui' = [m \in Modals |-> IF m \in (gone \ S) \cup left THEN "closed" ELSE ui[m]]
     /\ Forget(gone \cup left)
     /\ checks' = checks \cup S
     /\ \E r \in Releases(left) :
          queue' = rest \o (IF orphan THEN <<GoOp(IF at < lastIdx THEN -1 ELSE 1)>> ELSE <<>>) \o r
  /\ UNCHANGED <<stack, deferred, hasty, steps>>

\* A traversal that leads nowhere fires nothing: what waits for it gives up.
\* (Bound: any other takes less than POP_TIMEOUT_MS.)
Nowhere ==
  /\ going # <<>> /\ cur + Head(going).by \notin 1..Len(stack)
  /\ going' = Tail(going)
  /\ UNCHANGED <<stack, cur, ui, bookVars, queue, waiting, checks, hasty, steps>>
Timeout ==
  /\ waiting /\ going = <<>>
  /\ waiting' = FALSE /\ queue' = Tail(queue)
  /\ selfPops' = IF selfPops > 0 THEN selfPops - 1 ELSE 0
  /\ UNCHANGED <<historyVars, ui, entries, deferred, lastIdx, checks, hasty, steps>>

-----------------------------------------------------------------------------
Settling == Run \/ (\E S \in SUBSET Modals : Traverse(S)) \/ Nowhere \/ Timeout
            \/ \E m \in Modals : Check(m)
Next ==
  \/ \E m \in Modals : Open(m)
  \/ \E S \in SUBSET Opened : Close(S)
  \/ \E p \in Paths : Navigate(p)
  \/ Replace
  \/ \E d \in Moves : UserGo(d)
  \/ Settling

Spec == Init /\ [][Next]_vars

-----------------------------------------------------------------------------
(* Properties.                                                             *)

\* Every variable has values of its type.
Place == [idx : 0..MaxLength, path : Paths \cup {Screen}, replaced : BOOLEAN]
Record == [path : Paths, mark : Modals \cup {Screen}]
TypeOK ==
  /\ stack \in Seq(Record) /\ Len(stack) <= MaxLength
  /\ cur \in 1..Len(stack) /\ lastIdx \in 1..MaxLength
  /\ ui \in [Modals -> {"new", "open", "closed"}]
  /\ entries \in [Modals -> Place] /\ deferred \in Seq(Place)
  /\ waiting \in BOOLEAN /\ (waiting => queue # <<>>)
  /\ selfPops \in Nat /\ checks \subseteq Modals /\ hasty \in BOOLEAN /\ steps \in 0..MaxSteps

Settled == queue = <<>> /\ going = <<>> /\ checks = {}

\* Once nothing is under way, every open modal is in the book, so that a "back"
\* past its record closes it: also one that has refused to close, and whatever
\* was asked for while the queue waited (modalHistory.ts:3, 28-31).
OpenModalsAreListed == Settled => \A m \in Opened : Has(m)

\* As long as nobody has navigated and nothing is under way, the current record
\* is the screen itself or that of an open modal: closed modals, in whatever
\* order they went, leave nothing to go back through (modalHistory.ts:9-10, 43).
CurrentRecordIsNotStale ==
  Settled /\ steps = 0 /\ cur > 1 => \E m \in Opened : entries[m].idx = cur

\* As long as nobody has navigated no popstate closes a modal: the module never
\* takes its own traversal for a "back" of the user, and no modal closes at once
\* because the record of another is being taken back (modalHistory.ts:7-9, 74).
PopstateClosesNobody == [][steps = 0 /\ Len(going') < Len(going) => ui' = ui]_vars

-----------------------------------------------------------------------------
(* What the repository says and the code does not do; TLC finds each of    *)
(* these violated (README).                                                *)

\* A tab that comes to the record of a closed modal moves on in the direction of
\* the user (modalHistory.ts:17-18).
SkipsGoOn ==
  [][~hasty /\ going # <<>> /\ ~Head(going).self /\ queue = <<>> /\ cur' = cur + Head(going).by
     /\ queue' # <<>> /\ Head(queue').op = "go" => Head(queue').by = Head(going).by]_vars

\* What the module goes back by itself removes no screen (modalHistory.ts:10-16,
\* 161-162).
ScreensSurvive ==
  [][~hasty /\ going # <<>> /\ Head(going).self /\ cur' < cur =>
       \A i \in cur' + 1..cur : stack[i].mark # Screen]_vars

\* The record of a modal that is open is not taken back (modalHistory.ts:10).
OnlyClosedAreTakenBack ==
  [][~hasty /\ going # <<>> /\ Head(going).self /\ cur' < cur =>
       \A m \in Opened : Has(m) => entries[m].idx \notin cur' + 1..cur]_vars

\* "Back" closes an open modal, or leaves it, before it leaves the screen below
\* it (modalHistory.ts:3).
BackKeepsTheScreen ==
  [][~hasty /\ Opened # {} /\ queue = <<>> /\ checks = {} /\ cur' < cur /\ selfPops = 0 =>
       stack[cur'].path = Here.path]_vars
=============================================================================
