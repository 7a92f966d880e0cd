------------------------- MODULE ModalHistoryProofs -------------------------
(***************************************************************************)
(* Proofs about ModalHistory, for any number of modals and records, any    *)
(* navigations of the user and of the screens.                             *)
(***************************************************************************)
EXTENDS ModalHistory, SequenceTheorems, FiniteSetTheorems, TLAPS

Op ==
  {o \in [op : {"push", "release", "go"}, of : Modals \cup {Screen}, entry : Place, by : Int] :
     (o.op = "push" => o.of \in Modals) /\ (o.op = "release" => o.entry # NoEntry)}
Travel == [by : Int, self : BOOLEAN]

-----------------------------------------------------------------------------
(* Types.                                                                  *)

TypeInv == TypeOK /\ queue \in Seq(Op) /\ going \in Seq(Travel)

LEMMA NoEntryType == NoEntry \in Place
BY ModalAssumption DEF NoEntry, Place

LEMMA OpTypes ==
  /\ \A m \in Modals : PushOp(m) \in Op /\ PushOp(m).op = "push" /\ PushOp(m).of = m
  /\ \A m \in Modals : \A e \in Place :
       e # NoEntry => /\ ReleaseOp(m, e) \in Op
                      /\ ReleaseOp(m, e).op = "release" /\ ReleaseOp(m, e).entry = e
  /\ \A d \in Int : GoOp(d) \in Op /\ GoOp(d).op = "go"
BY NoEntryType DEF Op, PushOp, ReleaseOp, GoOp

\* What one or more modals that go at once append to the queue: a release of
\* each that is in the book, and nothing else.
LEMMA ReleasesAre ==
  ASSUME TypeInv, NEW S \in SUBSET Modals, NEW r \in Releases(S)
  PROVE  /\ r \in Seq(Op)
         /\ \A i \in 1..Len(r) :
              \E m \in S : Has(m) /\ r[i] = ReleaseOp(m, entries[m]) /\ r[i].op = "release"
         /\ \A m \in S : Has(m) =>
              \E i \in 1..Len(r) : r[i] = ReleaseOp(m, entries[m])
<1> DEFINE T == {m \in S : Has(m)}
           n == Cardinality(T)
<1>1. IsFiniteSet(T)
  BY ModalAssumption, FS_Subset
<1>2. n \in Nat
  BY <1>1, FS_CardinalityType
<1>3. PICK o \in Surjection(1..n, T) : r = [i \in 1..n |-> ReleaseOp(o[i], entries[o[i]])]
  BY DEF Releases
<1>4. o \in [1..n -> T] /\ \A m \in T : \E i \in 1..n : o[i] = m
  BY DEF Surjection
<1>5. \A m \in T : ReleaseOp(m, entries[m]) \in Op /\ ReleaseOp(m, entries[m]).op = "release"
  BY OpTypes DEF TypeInv, TypeOK, Has
<1>6. r \in Seq(Op) /\ Len(r) = n
  <2> HIDE DEF n, T
  <2>1. \A i \in 1..n : o[i] \in T
    BY <1>4
  <2>2. r \in [1..n -> Op]
    BY <1>3, <1>5, <2>1
  <2> QED BY <1>2, <2>2 DEF Seq
<1>7. \A i \in 1..n : o[i] \in T /\ r[i] = ReleaseOp(o[i], entries[o[i]])
  BY <1>3, <1>4
<1> HIDE DEF n
<1> QED BY <1>4, <1>5, <1>6, <1>7

LEMMA InitTypes == Init => TypeInv
<1> SUFFICES ASSUME Init PROVE TypeInv
  OBVIOUS
<1>1. PICK p \in Paths : stack = <<[path |-> p, mark |-> Screen]>>
  BY DEF Init
<1>2. stack \in Seq(Record) /\ Len(stack) = 1
  BY <1>1 DEF Record
<1>3. /\ Len(stack) <= MaxLength /\ cur \in 1..Len(stack) /\ lastIdx \in 1..MaxLength
      /\ selfPops \in Nat /\ steps \in 0..MaxSteps
  BY <1>2, ModalAssumption DEF Init
<1>4. ui \in [Modals -> {"new", "open", "closed"}] /\ entries \in [Modals -> Place]
  BY NoEntryType DEF Init
<1>5. deferred \in Seq(Place) /\ queue \in Seq(Op) /\ going \in Seq(Travel)
  BY EmptySeq DEF Init
<1> QED BY <1>2, <1>3, <1>4, <1>5 DEF Init, TypeInv, TypeOK

LEMMA MarkedType ==
  ASSUME TypeInv
  PROVE  /\ \A e \in Place : /\ Marked(e) \in Place /\ Marked(e).idx = e.idx
                             /\ Marked(e).path = e.path
                             /\ Marked(e) = NoEntry <=> e = NoEntry
         /\ MarkedEntries \in [Modals -> Place] /\ MarkedDeferred \in Seq(Place)
         /\ Len(MarkedDeferred) = Len(deferred)
         /\ \A i \in 1..Len(deferred) : MarkedDeferred[i] = Marked(deferred[i])
<1>1. cur \in Nat /\ cur >= 1 /\ Len(stack) \in Nat
  BY DEF TypeInv, TypeOK
<1>2. \A e \in Place : /\ Marked(e) \in Place /\ Marked(e).idx = e.idx
                       /\ Marked(e).path = e.path
                       /\ Marked(e) = NoEntry <=> e = NoEntry
  <2> TAKE e \in Place
  <2>1. /\ e.idx \in Nat /\ e = [idx |-> e.idx, path |-> e.path, replaced |-> e.replaced]
        /\ e.idx \in 0..MaxLength /\ e.path \in Paths \cup {Screen} /\ e.replaced \in BOOLEAN
    BY ModalAssumption DEF Place
  <2>2. CASE ~OnModal /\ e.idx = cur
    <3>1. Marked(e) = [idx |-> e.idx, path |-> e.path, replaced |-> TRUE]
      BY <2>1, <2>2 DEF Marked
    <3>2. e.idx # 0
      BY <1>1, <2>2
    <3> QED BY <2>1, <3>1, <3>2 DEF Place, NoEntry
  <2>3. CASE ~(~OnModal /\ e.idx = cur)
    BY <2>1, <2>3 DEF Marked
  <2> QED BY <2>2, <2>3
<1>3. MarkedEntries \in [Modals -> Place]
  BY <1>2 DEF MarkedEntries, TypeInv, TypeOK
<1>4. \A i \in 1..Len(deferred) : deferred[i] \in Place
  BY DEF TypeInv, TypeOK
<1>5. deferred \in Seq(Place) /\ Len(deferred) \in Nat
  BY DEF TypeInv, TypeOK
<1>6. MarkedDeferred \in [1..Len(deferred) -> Place]
  BY <1>2, <1>4 DEF MarkedDeferred
<1>7. MarkedDeferred \in Seq(Place) /\ Len(MarkedDeferred) = Len(deferred)
  BY <1>5, <1>6 DEF Seq
<1> QED BY <1>2, <1>3, <1>7 DEF MarkedDeferred

LEMMA WithoutType ==
  ASSUME NEW s \in Seq(Place), NEW used
  PROVE  /\ Without(s, used) \in Seq(Place) /\ Len(Without(s, used)) = Len(s)
         /\ \A k \in 1..Len(s) : Without(s, used)[k] = IF k \in used THEN NoEntry ELSE s[k]
<1>1. Len(s) \in Nat /\ \A k \in 1..Len(s) : s[k] \in Place
  OBVIOUS
<1>2. Without(s, used) \in [1..Len(s) -> Place]
  BY <1>1, NoEntryType DEF Without
<1> QED BY <1>1, <1>2 DEF Without, Seq

LEMMA PushedType ==
  ASSUME TypeInv, NEW r \in Record, Pushed(r)
  PROVE  /\ stack' \in Seq(Record) /\ Len(stack') = cur + 1 /\ cur' = cur + 1
         /\ cur + 1 <= MaxLength
         /\ \A i \in 1..cur : stack'[i] = stack[i]
         /\ stack'[cur + 1] = r
<1>1. cur \in 1..Len(stack) /\ stack \in Seq(Record) /\ Len(stack) \in Nat /\ cur \in Int
      /\ MaxLength \in Int
  BY ModalAssumption DEF TypeInv, TypeOK
<1>2. \A i \in 1..cur : stack[i] \in Record
  BY <1>1
<1>3. /\ SubSeq(stack, 1, cur) \in Seq(Record) /\ Len(SubSeq(stack, 1, cur)) = cur
      /\ \A i \in 1..cur : SubSeq(stack, 1, cur)[i] = stack[i]
  BY <1>1, <1>2, SubSeqProperties, 1 \in Int
<1> DEFINE s == SubSeq(stack, 1, cur)
<1>4. stack' = Append(s, r) /\ cur' = cur + 1 /\ cur < MaxLength
  BY DEF Pushed
<1> HIDE DEF s
<1>5. s \in Seq(Record) /\ Len(s) = cur /\ \A i \in 1..cur : s[i] = stack[i]
  BY <1>3 DEF s
<1> QED BY <1>1, <1>4, <1>5, AppendProperties

LEMMA HereType == TypeInv => Here \in Record
BY DEF TypeInv, TypeOK, Here

LEMMA ForgetType ==
  ASSUME TypeInv, NEW S, Forget(S)
  PROVE  /\ entries' \in [Modals -> Place]
         /\ \A m \in Modals : entries'[m] = IF m \in S THEN NoEntry ELSE entries[m]
BY NoEntryType DEF TypeInv, TypeOK, Forget

LEMMA ReachType ==
  ASSUME TypeInv, NEW e \in Place
  PROVE  Reach(e).low \in Int
<1>1. e.idx \in Int
  BY ModalAssumption DEF Place
<1>2. \A D \in SUBSET (1..e.idx) : Cardinality(D) \in Nat
  BY <1>1, FS_Interval, FS_Subset, FS_CardinalityType, 1 \in Int
<1> DEFINE
  chain(n) == \A i \in e.idx - n..e.idx - 1 : PutOff(i, e.path) # {}
  clean(n) == \A i \in e.idx - n..e.idx - 1 :
                ~MarkedDeferred[Min(PutOff(i, e.path))].replaced
  D == {n \in 1..e.idx : chain(n) /\ clean(n)}
<1>3. Reach(e).low = e.idx - Cardinality(D)
  BY DEF Reach
<1>4. D \in SUBSET (1..e.idx)
  OBVIOUS
<1> HIDE DEF D
<1> QED BY <1>1, <1>2, <1>3, <1>4

\* What the operation at the head of the queue leaves there.
LEMMA DoneQueue ==
  ASSUME TypeInv, queue # <<>>
  PROVE  /\ Head(queue) \in Op /\ Head(queue) = queue[1] /\ Tail(queue) \in Seq(Op)
         /\ Len(queue) \in Nat /\ Len(queue) >= 1 /\ Len(Tail(queue)) = Len(queue) - 1
         /\ \A i \in 1..Len(queue) - 1 : Tail(queue)[i] = queue[i + 1]
BY HeadTailProperties DEF TypeInv

LEMMA SelfGoType ==
  ASSUME TypeInv, NEW d \in Int, SelfGo(d)
  PROVE  /\ selfPops' \in Nat /\ going' \in Seq(Travel) /\ waiting' = TRUE /\ queue' = queue
         /\ Len(going') = Len(going) + 1 /\ going'[Len(going) + 1] = [by |-> d, self |-> TRUE]
         /\ \A i \in 1..Len(going) : going'[i] = going[i]
<1>1. [by |-> d, self |-> TRUE] \in Travel
  BY DEF Travel
<1> QED BY <1>1, AppendProperties DEF SelfGo, TypeInv, TypeOK

LEMMA OpenTypes == ASSUME TypeInv, NEW m \in Modals, Open(m) PROVE TypeInv'
<1>1. PushOp(m) \in Op
  BY OpTypes
<1>2. queue' \in Seq(Op) /\ queue' # <<>>
  BY <1>1, AppendProperties DEF Open, TypeInv
<1> QED BY <1>2 DEF Open, Act, historyVars, bookVars, TypeInv, TypeOK

LEMMA CloseTypes == ASSUME TypeInv, NEW S \in SUBSET Opened, Close(S) PROVE TypeInv'
<1>1. S \in SUBSET Modals
  BY DEF Opened
<1>2. PICK r \in Releases(S) : queue' = queue \o r
  BY DEF Close
<1>3. queue' \in Seq(Op) /\ Len(queue') = Len(queue) + Len(r) /\ Len(r) \in Nat
  BY <1>1, <1>2, ReleasesAre, ConcatProperties DEF TypeInv
<1>4. waiting => queue' # <<>>
  BY <1>3 DEF TypeInv, TypeOK
<1>5. entries' \in [Modals -> Place]
  BY ForgetType DEF Close
<1>6. ui' \in [Modals -> {"new", "open", "closed"}]
  BY DEF Close, TypeInv, TypeOK
<1> QED BY <1>3, <1>4, <1>5, <1>6 DEF Close, Act, historyVars, TypeInv, TypeOK

LEMMA NavigateTypes == ASSUME TypeInv, NEW p \in Paths, Navigate(p) PROVE TypeInv'
<1> DEFINE gone == IF p = Here.path THEN {} ELSE Opened
<1>1. gone \in SUBSET Modals
  BY DEF Opened
<1>2. Forget(gone) /\ ui' = [m \in Modals |-> IF m \in gone THEN "closed" ELSE ui[m]]
  BY DEF Navigate
<1>3. PICK r \in Releases(gone) : queue' = queue \o r
  BY DEF Navigate
<1> HIDE DEF gone
<1>4. queue' \in Seq(Op) /\ Len(queue') = Len(queue) + Len(r) /\ Len(r) \in Nat
  BY <1>1, <1>3, ReleasesAre, ConcatProperties DEF TypeInv
<1>5. waiting => queue' # <<>>
  BY <1>4 DEF TypeInv, TypeOK
<1>6. entries' \in [Modals -> Place]
  BY <1>2, ForgetType
<1>7. ui' \in [Modals -> {"new", "open", "closed"}]
  BY <1>2 DEF TypeInv, TypeOK
<1>8. [path |-> p, mark |-> Screen] \in Record /\ Pushed([path |-> p, mark |-> Screen])
  BY DEF Record, Navigate
<1>9. /\ stack' \in Seq(Record) /\ Len(stack') <= MaxLength
      /\ cur' \in 1..Len(stack')
  BY <1>8, PushedType DEF TypeInv, TypeOK
<1>10. steps' \in 0..MaxSteps /\ hasty' \in BOOLEAN
  BY ModalAssumption DEF Navigate, Step, Act, TypeInv, TypeOK
<1> QED BY <1>4, <1>5, <1>6, <1>7, <1>9, <1>10 DEF Navigate, TypeInv, TypeOK

LEMMA StepTypes ==
  ASSUME TypeInv, Replace \/ \E d \in Moves : UserGo(d)
  PROVE  TypeInv'
<1>1. steps' \in 0..MaxSteps /\ hasty' \in BOOLEAN
  <2>1. Step
    BY DEF Replace, UserGo
  <2> QED BY <2>1, ModalAssumption DEF Step, Act, TypeInv, TypeOK
<1>2. CASE Replace
  <2>1. stack' = [stack EXCEPT ![cur].mark = Screen]
    BY <1>2 DEF Replace
  <2>2. stack[cur] \in Record /\ [stack[cur] EXCEPT !.mark = Screen] \in Record
    <3>1. stack[cur] \in Record
      BY DEF TypeInv, TypeOK
    <3> QED BY <3>1 DEF Record
  <2>3. stack' = [stack EXCEPT ![cur] = [stack[cur] EXCEPT !.mark = Screen]]
    BY <2>1
  <2>4. stack' \in Seq(Record) /\ Len(stack') = Len(stack)
    BY <2>2, <2>3, ExceptSeq DEF TypeInv, TypeOK
  <2> QED BY <1>1, <1>2, <2>4 DEF Replace, bookVars, TypeInv, TypeOK
<1>3. CASE \E d \in Moves : UserGo(d)
  <2>1. PICK d \in Moves : UserGo(d)
    BY <1>3
  <2>2. [by |-> d, self |-> FALSE] \in Travel
    BY ModalAssumption DEF Travel
  <2>3. going' \in Seq(Travel)
    BY <2>1, <2>2, AppendProperties DEF UserGo, TypeInv
  <2> QED BY <1>1, <2>1, <2>3 DEF UserGo, bookVars, TypeInv, TypeOK
<1> QED BY <1>2, <1>3

LEMMA PushTypes ==
  ASSUME TypeInv, NEW m \in Modals, queue # <<>>, RunPush(m), Done,
         UNCHANGED <<ui, checks, hasty, steps>>, ~waiting
  PROVE  TypeInv'
<1>1. queue' \in Seq(Op)
  BY DoneQueue DEF Done
<1>2. CASE ui[m] # "open"
  BY <1>1, <1>2 DEF RunPush, Done, TypeInv, TypeOK
<1>3. CASE ui[m] = "open"
  <2> DEFINE r == [path |-> Here.path, mark |-> m]
  <2>1. r \in Record /\ Here.path \in Paths
    BY HereType DEF Record
  <2>2. Pushed(r) /\ lastIdx' = cur' /\ deferred' = MarkedDeferred
        /\ entries' = [MarkedEntries EXCEPT ![m] =
                          [idx |-> cur', path |-> Here.path, replaced |-> FALSE]]
    BY <1>3 DEF RunPush
  <2> HIDE DEF r
  <2>3. /\ stack' \in Seq(Record) /\ Len(stack') = cur + 1 /\ cur' = cur + 1
        /\ cur + 1 <= MaxLength
    BY <2>1, <2>2, PushedType
  <2>4. cur + 1 \in 1..MaxLength /\ cur + 1 \in 0..MaxLength
    BY <2>3, ModalAssumption DEF TypeInv, TypeOK
  <2>5. [idx |-> cur', path |-> Here.path, replaced |-> FALSE] \in Place
    BY <2>1, <2>3, <2>4 DEF Place
  <2>6. entries' \in [Modals -> Place] /\ deferred' \in Seq(Place)
    BY <2>2, <2>5, MarkedType
  <2>7. cur' \in 1..Len(stack') /\ Len(stack') <= MaxLength /\ lastIdx' \in 1..MaxLength
    BY <2>2, <2>3, <2>4
  <2> QED BY <1>1, <2>3, <2>6, <2>7 DEF Done, TypeInv, TypeOK
<1> QED BY <1>2, <1>3

\* The ways a release may go: left alone, taken back, put off, left where it is.
LEMMA ReleaseWays ==
  ASSUME NEW e \in Place, RunRelease(e)
  PROVE  \/ (Here.path # e.path \/ cur < e.idx) /\ Done /\ UNCHANGED <<entries, deferred>>
         \/ /\ Here.path = e.path /\ ~(cur < e.idx) /\ entries' = MarkedEntries
            /\ ~e.replaced /\ ~OpenAbove(e) /\ OnModal
            /\ deferred' = Without(MarkedDeferred, Reach(e).used)
            /\ SelfGo(Reach(e).low - cur - 1)
         \/ /\ Here.path = e.path /\ ~(cur < e.idx) /\ entries' = MarkedEntries
            /\ ~e.replaced /\ OpenAbove(e) /\ Done /\ deferred' = Append(MarkedDeferred, e)
         \/ /\ Here.path = e.path /\ ~(cur < e.idx) /\ entries' = MarkedEntries
            /\ e.replaced \/ (~OpenAbove(e) /\ ~OnModal)
            /\ Done /\ deferred' = MarkedDeferred
<1>1. CASE Here.path # e.path \/ cur < e.idx
  BY <1>1 DEF RunRelease
<1>2. CASE ~(Here.path # e.path \/ cur < e.idx)
  <2>1. CASE ~e.replaced /\ ~OpenAbove(e) /\ OnModal
    BY <1>2, <2>1 DEF RunRelease
  <2>2. CASE ~e.replaced /\ OpenAbove(e)
    BY <1>2, <2>2 DEF RunRelease
  <2>3. CASE e.replaced \/ (~OpenAbove(e) /\ ~OnModal)
    BY <1>2, <2>3 DEF RunRelease
  <2>4. \/ ~e.replaced /\ ~OpenAbove(e) /\ OnModal
        \/ ~e.replaced /\ OpenAbove(e)
        \/ e.replaced \/ (~OpenAbove(e) /\ ~OnModal)
    <3>1. e.replaced \in BOOLEAN /\ OpenAbove(e) \in BOOLEAN /\ OnModal \in BOOLEAN
      BY DEF Place, OpenAbove, OnModal
    <3> QED BY <3>1
  <2> QED BY <2>1, <2>2, <2>3, <2>4, Zenon
<1> QED BY <1>1, <1>2

LEMMA ReleaseTypes ==
  ASSUME TypeInv, queue # <<>>, NEW e \in Place, RunRelease(e), ~waiting,
         UNCHANGED <<stack, cur, lastIdx, ui, checks, hasty, steps>>
  PROVE  TypeInv'
<1>1. Done => /\ queue' \in Seq(Op) /\ waiting' \in BOOLEAN /\ ~waiting' /\ selfPops' \in Nat /\ going' \in Seq(Travel)
  BY DoneQueue DEF Done, TypeInv, TypeOK
<1>2. \A d \in Int : SelfGo(d) =>
        /\ queue' \in Seq(Op) /\ waiting' \in BOOLEAN /\ queue' # <<>>
        /\ selfPops' \in Nat /\ going' \in Seq(Travel)
  BY SelfGoType DEF TypeInv
<1>3. Reach(e).low - cur - 1 \in Int
  BY ReachType DEF TypeInv, TypeOK
<1>4. /\ queue' \in Seq(Op) /\ waiting' \in BOOLEAN /\ (waiting' => queue' # <<>>)
      /\ selfPops' \in Nat /\ going' \in Seq(Travel)
  <2>1. Done \/ SelfGo(Reach(e).low - cur - 1)
    BY ReleaseWays
  <2>2. CASE Done
    BY <1>1, <2>2
  <2>3. CASE SelfGo(Reach(e).low - cur - 1)
    BY <1>2, <1>3, <2>3
  <2> QED BY <2>1, <2>2, <2>3
<1>5. MarkedEntries \in [Modals -> Place] /\ MarkedDeferred \in Seq(Place)
  BY MarkedType
<1>6. Without(MarkedDeferred, Reach(e).used) \in Seq(Place)
  BY <1>5, WithoutType
<1>7. Append(MarkedDeferred, e) \in Seq(Place)
  BY <1>5, AppendProperties
<1>8. entries' \in [Modals -> Place] /\ deferred' \in Seq(Place)
  BY <1>5, <1>6, <1>7, ReleaseWays DEF TypeInv, TypeOK
<1> QED BY <1>4, <1>8 DEF TypeInv, TypeOK

LEMMA RunTypes == ASSUME TypeInv, Run PROVE TypeInv'
<1> DEFINE o == Head(queue)
<1>1. o \in Op /\ queue # <<>> /\ ~waiting
  BY DoneQueue DEF Run
<1>2. o.of \in Modals \cup {Screen} /\ o.entry \in Place /\ o.by \in Int
      /\ (o.op = "push" => o.of \in Modals)
  BY <1>1 DEF Op
<1>3. UNCHANGED <<ui, checks, hasty, steps>>
  BY DEF Run
<1>4. CASE o.op = "push" /\ RunPush(o.of) /\ Done
  BY <1>1, <1>2, <1>3, <1>4, PushTypes
<1>5. CASE o.op = "release" /\ RunRelease(o.entry) /\ UNCHANGED <<stack, cur, lastIdx>>
  BY <1>1, <1>2, <1>3, <1>5, ReleaseTypes
<1>6. CASE o.op = "go" /\ SelfGo(o.by) /\ UNCHANGED <<stack, cur, entries, deferred, lastIdx>>
  <2>1. selfPops' \in Nat /\ going' \in Seq(Travel) /\ waiting' = TRUE /\ queue' = queue
    BY <1>2, <1>6, SelfGoType
  <2> QED BY <1>1, <1>3, <1>6, <2>1 DEF TypeInv, TypeOK
<1> QED BY <1>4, <1>5, <1>6 DEF Run

LEMMA CheckTypes == ASSUME TypeInv, NEW m \in Modals, Check(m) PROVE TypeInv'
<1>1. PushOp(m) \in Op
  BY OpTypes
<1>2. queue' \in Seq(Op) /\ (waiting => queue' # <<>>)
  <2>1. queue' \in {queue, Append(queue, PushOp(m))}
    BY DEF Check
  <2>2. Append(queue, PushOp(m)) \in Seq(Op) /\ Append(queue, PushOp(m)) # <<>>
    BY <1>1, AppendProperties DEF TypeInv
  <2> QED BY <2>1, <2>2 DEF TypeInv, TypeOK
<1> QED BY <1>2 DEF Check, historyVars, bookVars, TypeInv, TypeOK

\* The parts of a popstate.
At == cur + Head(going).by
Gone == IF selfPops > 0 THEN {} ELSE {m \in Modals : entries[m].idx > At}
Left == IF stack[At].path = Here.path THEN {} ELSE Opened \ Gone
Rest == IF waiting THEN Tail(queue) ELSE queue
Orphan == /\ selfPops = 0 /\ stack[At].mark # Screen
          /\ \A m \in Modals : entries[m].idx # At

LEMMA TraverseParts ==
  ASSUME TypeInv, NEW S, Traverse(S)
  PROVE  /\ Task /\ going # <<>> /\ going' = Tail(going)
         /\ At \in 1..Len(stack) /\ cur' = At /\ lastIdx' = At
         /\ S \subseteq Gone /\ (stack[At].path # Here.path => S = {})
         /\ selfPops' = IF selfPops > 0 THEN selfPops - 1 ELSE 0
         /\ waiting' = FALSE
         /\ ui' = [m \in Modals |-> IF m \in (Gone \ S) \cup Left THEN "closed" ELSE ui[m]]
         /\ Forget(Gone \cup Left) /\ checks' = checks \cup S
         /\ \E r \in Releases(Left) :
              queue' = Rest \o (IF Orphan THEN <<GoOp(IF At < lastIdx THEN -1 ELSE 1)>> ELSE <<>>) \o r
         /\ UNCHANGED <<stack, deferred, hasty, steps>>
BY DEF Traverse, At, Gone, Left, Rest, Orphan

\* What a popstate leaves in the queue: all but the operation that waited for it,
\* and after it a traversal over an orphan, and the releases.
LEMMA TraverseQueue ==
  ASSUME TypeInv, NEW S, Traverse(S)
  PROVE  /\ queue' \in Seq(Op)
         /\ \E n \in Nat :
              /\ Rest \in Seq(Op) /\ Len(queue') = Len(Rest) + n
              /\ \A i \in 1..Len(Rest) : queue'[i] = Rest[i]
              /\ \A i \in Len(Rest) + 1..Len(queue') : queue'[i].op \in {"go", "release"}
         /\ ~Orphan /\ Left = {} => queue' = Rest
<1> DEFINE g == IF Orphan THEN <<GoOp(IF At < lastIdx THEN -1 ELSE 1)>> ELSE <<>>
<1>1. PICK r \in Releases(Left) : queue' = Rest \o g \o r
  BY TraverseParts
<1>2. Left \in SUBSET Modals
  BY DEF Left, Opened
<1>3. r \in Seq(Op) /\ \A i \in 1..Len(r) : r[i].op = "release"
  BY <1>2, ReleasesAre
<1>4. g \in Seq(Op) /\ (\A i \in 1..Len(g) : g[i].op = "go") /\ (~Orphan => g = <<>>)
  <2>1. GoOp(-1) \in Op /\ GoOp(-1).op = "go" /\ GoOp(1) \in Op /\ GoOp(1).op = "go"
    BY OpTypes
  <2> QED BY <2>1, EmptySeq
<1>5. Rest \in Seq(Op)
  BY HeadTailProperties DEF Rest, TypeInv, TypeOK
<1> HIDE DEF g
<1> DEFINE q == Rest \o g
<1>6. /\ q \in Seq(Op) /\ Len(q) = Len(Rest) + Len(g)
      /\ \A i \in 1..Len(Rest) + Len(g) : q[i] = IF i <= Len(Rest) THEN Rest[i] ELSE g[i - Len(Rest)]
  BY <1>4, <1>5, ConcatProperties
<1> HIDE DEF q
<1>7. queue' = q \o r
  BY <1>1 DEF q
<1>8. /\ queue' \in Seq(Op) /\ Len(queue') = Len(q) + Len(r)
      /\ \A i \in 1..Len(q) + Len(r) : queue'[i] = IF i <= Len(q) THEN q[i] ELSE r[i - Len(q)]
  <2> USE <1>7
  <2>1. q \in Seq(Op) /\ r \in Seq(Op)
    BY <1>3, <1>6
  <2> QED BY <2>1, ConcatProperties
<1>9. Len(Rest) \in Nat /\ Len(g) \in Nat /\ Len(r) \in Nat
  BY <1>3, <1>4, <1>5
<1>10. \A i \in 1..Len(Rest) : queue'[i] = Rest[i]
  BY <1>6, <1>8, <1>9
<1>11. \A i \in Len(Rest) + 1..Len(queue') : queue'[i].op \in {"go", "release"}
  <2> TAKE i \in Len(Rest) + 1..Len(queue')
  <2>1. CASE i <= Len(q)
    <3>1. queue'[i] = g[i - Len(Rest)] /\ i - Len(Rest) \in 1..Len(g)
      BY <1>6, <1>8, <1>9, <2>1
    <3> QED BY <1>4, <3>1
  <2>2. CASE i > Len(q)
    <3>1. queue'[i] = r[i - Len(q)] /\ i - Len(q) \in 1..Len(r)
      BY <1>6, <1>8, <1>9, <2>2
    <3> QED BY <1>3, <3>1
  <2> QED BY <1>6, <1>9, <2>1, <2>2
<1>12. ASSUME ~Orphan, Left = {} PROVE queue' = Rest
  <2>1. Len(r) = 0
    <3>1. SUFFICES ASSUME Len(r) # 0 PROVE FALSE
      OBVIOUS
    <3>2. 1 \in 1..Len(r)
      BY <1>9, <3>1
    <3> QED BY <1>2, <1>12, <3>2, ReleasesAre
  <2>2. r = <<>>
    BY <1>3, <2>1
  <2> QED BY <1>3, <1>4, <1>5, <1>6, <1>7, <1>12, <2>2, ConcatEmptySeq DEF q
<1>13. Len(queue') = Len(Rest) + (Len(g) + Len(r)) /\ Len(g) + Len(r) \in Nat
  BY <1>6, <1>8, <1>9
<1> QED BY <1>5, <1>8, <1>10, <1>11, <1>12, <1>13

LEMMA TraverseTypes == ASSUME TypeInv, NEW S, Traverse(S) PROVE TypeInv'
<1>1. /\ going # <<>> /\ going' = Tail(going) /\ waiting' = FALSE
      /\ At \in 1..Len(stack) /\ cur' = At /\ lastIdx' = At
      /\ S \subseteq Gone /\ Forget(Gone \cup Left) /\ checks' = checks \cup S
      /\ selfPops' = IF selfPops > 0 THEN selfPops - 1 ELSE 0
      /\ ui' = [m \in Modals |-> IF m \in (Gone \ S) \cup Left THEN "closed" ELSE ui[m]]
      /\ UNCHANGED <<stack, deferred, hasty, steps>>
  BY TraverseParts
<1>2. going' \in Seq(Travel) /\ queue' \in Seq(Op)
  BY <1>1, TraverseQueue, HeadTailProperties DEF TypeInv
<1>3. S \subseteq Modals
  BY <1>1 DEF Gone
<1>4. entries' \in [Modals -> Place]
  BY <1>1, ForgetType
<1>5. ui' \in [Modals -> {"new", "open", "closed"}]
  BY <1>1 DEF TypeInv, TypeOK
<1>6. At \in 1..MaxLength /\ selfPops' \in Nat
  <2>1. Len(stack) <= MaxLength /\ Len(stack) \in Nat /\ MaxLength \in Nat /\ selfPops \in Nat
    BY ModalAssumption DEF TypeInv, TypeOK
  <2> QED BY <1>1, <2>1
<1> QED BY <1>1, <1>2, <1>3, <1>4, <1>5, <1>6 DEF TypeInv, TypeOK

LEMMA EndTypes == ASSUME TypeInv, Nowhere \/ Timeout PROVE TypeInv'
<1>1. CASE Nowhere
  <2>1. going' \in Seq(Travel)
    BY <1>1, HeadTailProperties DEF Nowhere, TypeInv
  <2> QED BY <1>1, <2>1 DEF Nowhere, bookVars, TypeInv, TypeOK
<1>2. CASE Timeout
  <2>1. queue' \in Seq(Op) /\ selfPops' \in Nat
    BY <1>2, HeadTailProperties DEF Timeout, TypeInv, TypeOK
  <2> QED BY <1>2, <2>1 DEF Timeout, historyVars, TypeInv, TypeOK
<1> QED BY <1>1, <1>2

LEMMA TypeStep == TypeInv /\ [Next]_vars => TypeInv'
<1> SUFFICES ASSUME TypeInv, [Next]_vars PROVE TypeInv'
  OBVIOUS
<1>1. CASE \E m \in Modals : Open(m)
  BY <1>1, OpenTypes
<1>2. CASE \E S \in SUBSET Opened : Close(S)
  BY <1>2, CloseTypes
<1>3. CASE \E p \in Paths : Navigate(p)
  BY <1>3, NavigateTypes
<1>4. CASE Replace \/ \E d \in Moves : UserGo(d)
  BY <1>4, StepTypes
<1>5. CASE Run
  BY <1>5, RunTypes
<1>6. CASE \E S \in SUBSET Modals : Traverse(S)
  BY <1>6, TraverseTypes
<1>7. CASE Nowhere \/ Timeout
  BY <1>7, EndTypes
<1>8. CASE \E m \in Modals : Check(m)
  BY <1>8, CheckTypes
<1>9. CASE UNCHANGED vars
  BY <1>9 DEF vars, historyVars, bookVars, TypeInv, TypeOK
<1> QED BY <1>1, <1>2, <1>3, <1>4, <1>5, <1>6, <1>7, <1>8, <1>9 DEF Next, Settling

\* Every variable keeps its type, whatever overlaps.
THEOREM TypeCorrect == Spec => []TypeOK
<1>1. Spec => []TypeInv
  BY InitTypes, TypeStep, PTL DEF Spec
<1>2. TypeInv => TypeOK
  BY DEF TypeInv
<1> QED BY <1>1, <1>2, PTL

-----------------------------------------------------------------------------
(* Open modals are listed.                                                 *)

Awaits(m) == \E i \in 1..Len(queue) : queue[i].op = "push" /\ queue[i].of = m

\* A modal that is not open is not in the book; one that is open is there, or it
\* has refused to close and the timer has not looked yet, or its push is in the
\* queue, and not as the operation that waits for a popstate and goes with it.
ListedInv ==
  /\ \A m \in Modals : ui[m] # "open" => ~Has(m)
  /\ waiting => Head(queue).op # "push"
  /\ \A m \in Opened : Has(m) \/ m \in checks \/ Awaits(m)

Kept == Len(queue) <= Len(queue') /\ \A i \in 1..Len(queue) : queue'[i] = queue[i]

LEMMA KeptQueue ==
  ASSUME TypeInv, queue' \in Seq(Op), Kept
  PROVE  /\ \A m : Awaits(m) => Awaits(m)'
         /\ queue # <<>> => queue' # <<>> /\ Head(queue') = Head(queue)
<1>1. Len(queue) \in Nat /\ Len(queue') \in Nat
  BY DEF TypeInv
<1>2. \A m : Awaits(m) => Awaits(m)'
  BY <1>1 DEF Awaits, Kept
<1>3. ASSUME queue # <<>> PROVE queue' # <<>> /\ Head(queue') = Head(queue)
  <2>1. Len(queue) >= 1 /\ Head(queue) = queue[1]
    BY <1>3, DoneQueue
  <2>2. queue' # <<>> /\ Head(queue') = queue'[1]
    BY <1>1, <2>1 DEF Kept
  <2> QED BY <1>1, <2>1, <2>2 DEF Kept
<1> QED BY <1>2, <1>3

LEMMA AppendedQueue ==
  ASSUME TypeInv
  PROVE  /\ \A o \in Op : queue' = Append(queue, o) => Kept /\ queue'[Len(queue) + 1] = o
                                                     /\ Len(queue') = Len(queue) + 1
         /\ \A r \in Seq(Op) : queue' = queue \o r => Kept
         /\ queue' = queue => Kept
<1>1. queue \in Seq(Op) /\ Len(queue) \in Nat
  BY DEF TypeInv
<1>2. \A o \in Op : queue' = Append(queue, o) => Kept /\ queue'[Len(queue) + 1] = o
                                               /\ Len(queue') = Len(queue) + 1
  BY <1>1, AppendProperties DEF Kept
<1>3. ASSUME NEW r \in Seq(Op), queue' = queue \o r PROVE Kept
  <2>1. Len(queue') = Len(queue) + Len(r) /\ Len(r) \in Nat
        /\ \A i \in 1..Len(queue) + Len(r) :
             queue'[i] = IF i <= Len(queue) THEN queue[i] ELSE r[i - Len(queue)]
    BY <1>1, <1>3, ConcatProperties
  <2> QED BY <1>1, <2>1 DEF Kept
<1> QED BY <1>1, <1>2, <1>3 DEF Kept

\* The head of the queue goes.
LEMMA DroppedQueue ==
  ASSUME TypeInv, queue # <<>>, queue' = Tail(queue)
  PROVE  /\ \A m : Awaits(m) /\ (Head(queue).op = "push" => Head(queue).of # m) => Awaits(m)'
         /\ \A i \in 2..Len(queue) : i - 1 \in 1..Len(queue') /\ queue'[i - 1] = queue[i]
<1>1. /\ Head(queue) = queue[1] /\ Len(queue) \in Nat /\ Len(queue) >= 1
      /\ Len(queue') = Len(queue) - 1
      /\ \A i \in 1..Len(queue) - 1 : queue'[i] = queue[i + 1]
  BY DoneQueue
<1>2. \A i \in 2..Len(queue) : i - 1 \in 1..Len(queue') /\ queue'[i - 1] = queue[i]
  <2> TAKE i \in 2..Len(queue)
  <2>1. i - 1 \in 1..Len(queue) - 1 /\ (i - 1) + 1 = i
    BY <1>1
  <2> QED BY <1>1, <2>1
<1>3. ASSUME NEW m, Awaits(m), Head(queue).op = "push" => Head(queue).of # m
      PROVE  Awaits(m)'
  <2>1. PICK i \in 1..Len(queue) : queue[i].op = "push" /\ queue[i].of = m
    BY <1>3 DEF Awaits
  <2>2. i \in 2..Len(queue)
    BY <1>1, <1>3, <2>1
  <2> QED BY <1>2, <2>1, <2>2 DEF Awaits
<1> QED BY <1>2, <1>3

LEMMA OpenListed == ASSUME TypeInv, ListedInv, NEW m \in Modals, Open(m) PROVE ListedInv'
<1>1. /\ PushOp(m) \in Op /\ PushOp(m).op = "push" /\ PushOp(m).of = m
      /\ queue' = Append(queue, PushOp(m))
  BY OpTypes DEF Open
<1>2. queue' \in Seq(Op) /\ Len(queue) \in Nat
  BY OpenTypes DEF TypeInv
<1>3. Kept /\ queue'[Len(queue) + 1] = PushOp(m) /\ Len(queue') = Len(queue) + 1
  BY <1>1, AppendedQueue
<1>4. Awaits(m)'
  BY <1>1, <1>2, <1>3 DEF Awaits
<1>5. \A n : Awaits(n) => Awaits(n)'
  BY <1>2, <1>3, KeptQueue
<1>6. waiting => Head(queue').op # "push"
  BY <1>2, <1>3, KeptQueue DEF ListedInv, TypeInv, TypeOK
<1>7. UNCHANGED <<entries, checks, waiting>> /\ ui' = [ui EXCEPT ![m] = "open"] /\ ui[m] = "new"
  BY DEF Open, bookVars
<1>8. \A n \in Modals : n # m => ui'[n] = ui[n]
  BY <1>7 DEF TypeInv, TypeOK
<1>9. \A n \in Modals : Has(n)' = Has(n)
  BY <1>7 DEF Has
<1>10. ui'[m] = "open"
  BY <1>7 DEF TypeInv, TypeOK
<1> QED BY <1>4, <1>5, <1>6, <1>7, <1>8, <1>9, <1>10 DEF ListedInv, Opened

\* Modals that go leave the book and append their releases.
LEMMA GoneListed ==
  ASSUME TypeInv, queue' \in Seq(Op), ListedInv, Kept, NEW S, Forget(S), UNCHANGED <<waiting, checks>>,
         ui' = [m \in Modals |-> IF m \in S THEN "closed" ELSE ui[m]]
  PROVE  ListedInv'
<1>1. \A m \in Modals : /\ m \in S => ~Has(m)' /\ ui'[m] = "closed"
                        /\ m \notin S => Has(m)' = Has(m) /\ ui'[m] = ui[m]
  BY ForgetType DEF Has
<1>2. \A m : Awaits(m) => Awaits(m)'
  BY KeptQueue
<1>3. waiting => Head(queue').op # "push"
  BY KeptQueue DEF ListedInv, TypeInv, TypeOK
<1>4. \A m \in Modals : ui'[m] # "open" => ~Has(m)'
  BY <1>1 DEF ListedInv
<1>5. \A m \in Opened' : m \in Opened /\ m \notin S
  BY <1>1 DEF Opened
<1> QED BY <1>1, <1>2, <1>3, <1>4, <1>5 DEF ListedInv, Opened

LEMMA CloseListed == ASSUME TypeInv, ListedInv, NEW S \in SUBSET Opened, Close(S) PROVE ListedInv'
<1>1. S \in SUBSET Modals
  BY DEF Opened
<1>2. PICK r \in Releases(S) : queue' = queue \o r
  BY DEF Close
<1>3. Kept
  BY <1>1, <1>2, ReleasesAre, AppendedQueue
<1>4. queue' \in Seq(Op)
  BY CloseTypes DEF TypeInv
<1> QED BY <1>3, <1>4, GoneListed DEF Close

LEMMA NavigateListed == ASSUME TypeInv, ListedInv, NEW p \in Paths, Navigate(p) PROVE ListedInv'
<1> DEFINE gone == IF p = Here.path THEN {} ELSE Opened
<1>1. gone \in SUBSET Modals
  BY DEF Opened
<1>2. PICK r \in Releases(gone) : queue' = queue \o r
  BY DEF Navigate
<1>3. Forget(gone) /\ ui' = [m \in Modals |-> IF m \in gone THEN "closed" ELSE ui[m]]
      /\ UNCHANGED <<waiting, checks>>
  BY DEF Navigate
<1> HIDE DEF gone
<1>4. Kept
  BY <1>1, <1>2, ReleasesAre, AppendedQueue
<1>5. queue' \in Seq(Op)
  BY NavigateTypes DEF TypeInv
<1> QED BY <1>3, <1>4, <1>5, GoneListed

\* Marked leaves an entry an entry.
LEMMA MarkedHas ==
  ASSUME TypeInv
  PROVE  \A m \in Modals : MarkedEntries[m] # NoEntry <=> Has(m)
BY MarkedType DEF MarkedEntries, Has, TypeInv, TypeOK

LEMMA PushListed ==
  ASSUME TypeInv, ListedInv, queue # <<>>, ~waiting, NEW m \in Modals,
         Head(queue).op = "push", Head(queue).of = m, RunPush(m), Done, UNCHANGED <<ui, checks>>
  PROVE  ListedInv'
<1>1. queue' = Tail(queue) /\ ~waiting'
  BY DEF Done
<1>2. \A n : Awaits(n) /\ n # m => Awaits(n)'
  BY <1>1, DroppedQueue
<1>3. CASE ui[m] # "open"
  <2>1. entries' = entries
    BY <1>3 DEF RunPush
  <2> QED BY <1>1, <1>2, <1>3, <2>1 DEF ListedInv, Has, Opened
<1>4. CASE ui[m] = "open"
  <2>1. /\ cur' = cur + 1 /\ cur \in Nat
        /\ entries' = [MarkedEntries EXCEPT ![m] =
                          [idx |-> cur', path |-> Here.path, replaced |-> FALSE]]
    BY <1>4 DEF RunPush, Pushed, TypeInv, TypeOK
  <2>2. /\ entries'[m] = [idx |-> cur', path |-> Here.path, replaced |-> FALSE]
        /\ \A n \in Modals : n # m => entries'[n] = MarkedEntries[n]
    BY <2>1, MarkedType
  <2>3. entries'[m].idx = cur + 1 /\ NoEntry.idx = 0
    BY <2>1, <2>2 DEF NoEntry
  <2>4. Has(m)' /\ \A n \in Modals : n # m => Has(n)' = Has(n)
    BY <2>1, <2>2, <2>3, MarkedHas DEF Has
  <2> QED BY <1>1, <1>2, <1>4, <2>4 DEF ListedInv, Opened
<1> QED BY <1>3, <1>4

LEMMA RunListed == ASSUME TypeInv, ListedInv, Run PROVE ListedInv'
<1> DEFINE o == Head(queue)
<1>1. o \in Op /\ queue # <<>> /\ ~waiting /\ UNCHANGED <<ui, checks>>
  BY DoneQueue DEF Run
<1>2. CASE o.op = "push" /\ RunPush(o.of) /\ Done
  <2>1. o.of \in Modals
    BY <1>1, <1>2 DEF Op
  <2> QED BY <1>1, <1>2, <2>1, PushListed
<1>3. CASE /\ o.op # "push"
           /\ (o.op = "release" /\ RunRelease(o.entry)) \/ (SelfGo(o.by) /\ UNCHANGED entries)
  <2>1. \A m \in Modals : Has(m)' = Has(m)
    <3>1. entries' = MarkedEntries \/ entries' = entries
      <4>1. o.entry \in Place
        BY <1>1 DEF Op
      <4> QED BY <1>3, <4>1, ReleaseWays
    <3> QED BY <3>1, MarkedHas DEF Has
  <2>2. (queue' = Tail(queue) /\ ~waiting') \/ queue' = queue
    <3>1. o.entry \in Place
      BY <1>1 DEF Op
    <3> QED BY <1>1, <1>3, <3>1, ReleaseWays DEF SelfGo, Done
  <2>3. \A m : Awaits(m) => Awaits(m)'
    BY <1>1, <1>3, <2>2, DroppedQueue DEF Awaits
  <2>4. waiting' => Head(queue').op # "push"
    BY <1>1, <1>3, <2>2
  <2> QED BY <1>1, <2>1, <2>3, <2>4 DEF ListedInv, Opened
<1>4. \/ o.op = "push" /\ RunPush(o.of) /\ Done
      \/ o.op = "release" /\ RunRelease(o.entry)
      \/ o.op = "go" /\ SelfGo(o.by) /\ UNCHANGED entries
  BY DEF Run
<1> QED BY <1>2, <1>3, <1>4

LEMMA CheckListed == ASSUME TypeInv, ListedInv, NEW m \in Modals, Check(m) PROVE ListedInv'
<1>1. UNCHANGED <<ui, entries, waiting>> /\ checks' = checks \ {m}
  BY DEF Check, bookVars
<1>2. PushOp(m) \in Op /\ PushOp(m).op = "push" /\ PushOp(m).of = m
  BY OpTypes
<1>3. queue' \in Seq(Op) /\ Len(queue) \in Nat
  BY CheckTypes DEF TypeInv
<1>4. Kept
  BY <1>2, AppendedQueue DEF Check
<1>5. \A n : Awaits(n) => Awaits(n)'
  BY <1>3, <1>4, KeptQueue
<1>6. waiting => Head(queue').op # "push"
  BY <1>3, <1>4, KeptQueue DEF ListedInv, TypeInv, TypeOK
<1>7. ASSUME ui[m] = "open" PROVE Awaits(m)'
  <2>1. queue' = Append(queue, PushOp(m))
    BY <1>7 DEF Check
  <2>2. queue'[Len(queue) + 1] = PushOp(m) /\ Len(queue') = Len(queue) + 1
    BY <1>2, <2>1, AppendedQueue
  <2> QED BY <1>2, <1>3, <2>2 DEF Awaits
<1> QED BY <1>1, <1>5, <1>6, <1>7 DEF ListedInv, Opened, Has

LEMMA TraverseListed == ASSUME TypeInv, ListedInv, NEW S, Traverse(S) PROVE ListedInv'
<1>1. /\ waiting' = FALSE /\ S \subseteq Gone /\ checks' = checks \cup S /\ Forget(Gone \cup Left)
      /\ ui' = [m \in Modals |-> IF m \in (Gone \ S) \cup Left THEN "closed" ELSE ui[m]]
  BY TraverseParts
<1>2. \A m \in Modals :
        /\ m \in Gone \cup Left => ~Has(m)'
        /\ m \notin Gone \cup Left => Has(m)' = Has(m) /\ ui'[m] = ui[m]
        /\ m \in (Gone \ S) \cup Left => ui'[m] = "closed"
  BY <1>1, ForgetType DEF Has
<1>3. \A m : Awaits(m) => Awaits(m)'
  <2> SUFFICES ASSUME NEW m, Awaits(m) PROVE Awaits(m)'
    OBVIOUS
  <2>1. PICK i \in 1..Len(queue) : queue[i].op = "push" /\ queue[i].of = m
    BY DEF Awaits
  <2>2. PICK n \in Nat : /\ Rest \in Seq(Op) /\ Len(queue') = Len(Rest) + n
                         /\ \A k \in 1..Len(Rest) : queue'[k] = Rest[k]
    BY TraverseQueue
  <2>3. \E k \in 1..Len(Rest) : Rest[k] = queue[i]
    <3>1. CASE waiting
      <4>1. queue # <<>> /\ Head(queue) = queue[1] /\ Len(queue) \in Nat
            /\ Len(Tail(queue)) = Len(queue) - 1
            /\ \A k \in 1..Len(queue) - 1 : Tail(queue)[k] = queue[k + 1]
        BY <3>1, DoneQueue DEF TypeInv, TypeOK
      <4>2. i # 1
        BY <3>1, <4>1, <2>1 DEF ListedInv
      <4>3. i - 1 \in 1..Len(queue) - 1 /\ (i - 1) + 1 = i
        BY <4>1, <4>2
      <4> QED BY <3>1, <4>1, <4>3 DEF Rest
    <3>2. CASE ~waiting
      BY <3>2 DEF Rest
    <3> QED BY <3>1, <3>2
  <2>4. Len(Rest) \in Nat
    BY <2>2
  <2> QED BY <2>1, <2>2, <2>3, <2>4 DEF Awaits
<1>4. \A m \in Modals : ui'[m] # "open" => ~Has(m)'
  BY <1>2 DEF ListedInv
<1>5. ASSUME NEW m \in Opened' PROVE Has(m)' \/ m \in checks' \/ Awaits(m)'
  <2>1. m \in Modals /\ ui'[m] = "open"
    BY <1>5 DEF Opened
  <2>2. CASE m \in Gone \cup Left
    BY <1>1, <1>2, <2>1, <2>2
  <2>3. CASE m \notin Gone \cup Left
    BY <1>1, <1>2, <1>3, <2>1, <2>3 DEF ListedInv, Opened
  <2> QED BY <2>2, <2>3
<1> QED BY <1>1, <1>4, <1>5 DEF ListedInv

LEMMA EndListed ==
  ASSUME TypeInv, ListedInv, Nowhere \/ Timeout \/ Replace \/ \E d \in Moves : UserGo(d)
  PROVE  ListedInv'
<1>1. UNCHANGED <<ui, entries, checks>>
  BY DEF Nowhere, Timeout, Replace, UserGo, bookVars
<1>2. CASE Timeout
  <2>1. queue' = Tail(queue) /\ waiting' = FALSE /\ queue # <<>> /\ Head(queue).op # "push"
    BY <1>2 DEF Timeout, ListedInv, TypeInv, TypeOK
  <2>2. \A m : Awaits(m) => Awaits(m)'
    BY <2>1, DroppedQueue
  <2> QED BY <1>1, <2>1, <2>2 DEF ListedInv, Opened, Has
<1>3. CASE ~Timeout
  <2>1. UNCHANGED <<queue, waiting>>
    BY <1>3 DEF Nowhere, Replace, UserGo
  <2> QED BY <1>1, <2>1 DEF ListedInv, Opened, Has, Awaits
<1> QED BY <1>2, <1>3

LEMMA ListedStep == TypeInv /\ ListedInv /\ [Next]_vars => ListedInv'
<1> SUFFICES ASSUME TypeInv, ListedInv, [Next]_vars PROVE ListedInv'
  OBVIOUS
<1>1. CASE \E m \in Modals : Open(m)
  BY <1>1, OpenListed
<1>2. CASE \E S \in SUBSET Opened : Close(S)
  BY <1>2, CloseListed
<1>3. CASE \E p \in Paths : Navigate(p)
  BY <1>3, NavigateListed
<1>4. CASE Nowhere \/ Timeout \/ Replace \/ \E d \in Moves : UserGo(d)
  BY <1>4, EndListed
<1>5. CASE Run
  BY <1>5, RunListed
<1>6. CASE \E S \in SUBSET Modals : Traverse(S)
  BY <1>6, TraverseListed
<1>7. CASE \E m \in Modals : Check(m)
  BY <1>7, CheckListed
<1>8. CASE UNCHANGED vars
  BY <1>8 DEF vars, historyVars, bookVars, ListedInv, Opened, Has, Awaits
<1> QED BY <1>1, <1>2, <1>3, <1>4, <1>5, <1>6, <1>7, <1>8 DEF Next, Settling

LEMMA ListedAlways == Spec => [](TypeInv /\ ListedInv)
<1>1. Init => ListedInv
  BY DEF Init, ListedInv, Has, Opened
<1> QED BY <1>1, InitTypes, TypeStep, ListedStep, PTL DEF Spec

\* Once nothing is under way, every open modal is in the book, whatever was
\* opened, closed, refused or navigated to in the meantime.
THEOREM EveryOpenModalIsListed == Spec => []OpenModalsAreListed
<1>1. TypeInv /\ ListedInv => OpenModalsAreListed
  BY DEF ListedInv, OpenModalsAreListed, Settled, Awaits
<1> QED BY <1>1, ListedAlways, PTL

-----------------------------------------------------------------------------
(* Without navigation the current record is not stale.                     *)

Base == stack[1].path
Clean(e, path) == e.idx >= 2 /\ e.path = path /\ ~e.replaced

\* Where the tab is, or will be when its traversal has taken place.
Top == IF waiting THEN cur + Head(going).by ELSE cur

\* Nobody traverses but the module, one traversal at a time; all records above
\* the first are marks, on one path, and no entry is of another.
Shape ==
  /\ checks = {}
  /\ IF waiting THEN Len(going) = 1 /\ Head(going).self ELSE going = <<>>
  /\ selfPops = IF waiting THEN 1 ELSE 0
  /\ Top \in 1..cur
  /\ \A i \in 1..Len(stack) : stack[i].path = Base
  /\ \A i \in 2..Len(stack) : stack[i].mark # Screen
  /\ \A m \in Modals : Has(m) => Clean(entries[m], Base)
  /\ \A i \in 1..Len(queue) : /\ queue[i].op # "go"
                              /\ queue[i].op = "release" => Clean(queue[i].entry, Base)
  /\ \A k \in 1..Len(deferred) : deferred[k] = NoEntry \/ Clean(deferred[k], Base)

\* A modal is pushed once.
Once ==
  /\ \A m \in Modals : Awaits(m) => ui[m] # "new" /\ ~Has(m)
  /\ \A i, j \in 1..Len(queue) :
       queue[i].op = "push" /\ queue[j].op = "push" /\ queue[i].of = queue[j].of => i = j

\* The record at p is that of a modal in the book, or is about to be released.
Owned(p) ==
  \/ \E m \in Modals : entries[m].idx = p
  \/ \E i \in 1..Len(queue) :
       (waiting => i # 1) /\ queue[i].op = "release" /\ queue[i].entry.idx = p
PutAside(p) == \E k \in 1..Len(deferred) : deferred[k].idx = p

Owners ==
  /\ \A p \in 2..Top : Owned(p) \/ PutAside(p)
  /\ Top >= 2 => Owned(Top)

Quiet == Shape /\ Once /\ Owners
QuietInv == steps = 0 => Quiet

-----------------------------------------------------------------------------
(* How far a record is taken back.                                         *)

\* A set of numbers that is not empty has a least one.
LEMMA Least ==
  ASSUME NEW S \in SUBSET Nat, S # {}
  PROVE  Min(S) \in S /\ \A y \in S : Min(S) <= y
<1> DEFINE T == {0..x : x \in S}
<1>1. IsWellFoundedOn(StrictSubsetOrdering(Nat), FiniteSubsetsOf(Nat))
  BY FS_StrictSubsetOrderingWellFounded
<1>2. T \subseteq FiniteSubsetsOf(Nat)
  <2> SUFFICES ASSUME NEW x \in S PROVE 0..x \in FiniteSubsetsOf(Nat)
    OBVIOUS
  <2>1. IsFiniteSet(0..x) /\ 0..x \subseteq Nat
    BY FS_Interval, 0 \in Int
  <2> QED BY <2>1 DEF FiniteSubsetsOf
<1>3. T # {}
  OBVIOUS
<1>4. PICK X \in T : \A Y \in T : ~(<<Y, X>> \in StrictSubsetOrdering(Nat))
  <2> HIDE DEF T
  <2> QED BY <1>1, <1>2, <1>3, WFMin
<1>5. PICK x \in S : X = 0..x
  OBVIOUS
<1>6. ASSUME NEW y \in S PROVE x <= y
  <2>1. SUFFICES ASSUME y < x PROVE FALSE
    BY <1>5, <1>6
  <2>2. 0..y \in T /\ 0..y \subseteq 0..x /\ 0..y # 0..x /\ 0..x \subseteq Nat
    <3>1. x \in 0..x /\ x \notin 0..y
      BY <2>1
    <3> QED BY <2>1, <3>1
  <2>3. <<0..y, 0..x>> \in StrictSubsetOrdering(Nat)
    BY <2>2 DEF StrictSubsetOrdering
  <2> QED BY <1>4, <1>5, <2>2, <2>3
<1>7. Min(S) \in S /\ \A y \in S : Min(S) <= y
  BY <1>6 DEF Min
<1> QED BY <1>7

\* As long as nothing has become a screen, a record goes together with all that
\* have been put aside right below it, and with nothing else.
LEMMA ReachBelow ==
  ASSUME TypeInv, NEW e \in Place, e.idx >= 1, MarkedDeferred = deferred,
         \A k \in 1..Len(deferred) :
           ~deferred[k].replaced /\ (deferred[k].path = e.path => deferred[k].idx # 0)
  PROVE  \E depth \in 0..e.idx - 1 :
           /\ Reach(e).low = e.idx - depth
           /\ PutOff(e.idx - depth - 1, e.path) = {}
           /\ depth >= 1 => PutOff(e.idx - depth, e.path) # {}
           /\ \A k \in Reach(e).used :
                deferred[k].idx \in e.idx - depth..e.idx - 1
<1> DEFINE
  chain(n) == \A i \in e.idx - n..e.idx - 1 : PutOff(i, e.path) # {}
  clean(n) == \A i \in e.idx - n..e.idx - 1 :
                ~MarkedDeferred[Min(PutOff(i, e.path))].replaced
  D == {n \in 1..e.idx : chain(n) /\ clean(n)}
  N == {n \in 1..e.idx : ~chain(n)}
  x == Min(N)
<1>1. e.idx \in Nat /\ Len(deferred) \in Nat
  BY ModalAssumption DEF Place, TypeInv, TypeOK
<1>2. \A i : PutOff(i, e.path) # {} =>
        /\ Min(PutOff(i, e.path)) \in 1..Len(deferred)
        /\ deferred[Min(PutOff(i, e.path))].idx = i
  <2> TAKE i
  <2>1. PutOff(i, e.path) \in SUBSET Nat
    BY <1>1 DEF PutOff
  <2>2. PutOff(i, e.path) # {} => Min(PutOff(i, e.path)) \in PutOff(i, e.path)
    BY <2>1, Least
  <2> QED BY <2>2 DEF PutOff
<1>3. PutOff(0, e.path) = {}
  BY DEF PutOff
<1>4. \A n \in 1..e.idx : chain(n) => clean(n)
  BY <1>2
<1>5. e.idx \in N
  <2>1. 0 \in e.idx - e.idx..e.idx - 1
    BY <1>1
  <2>2. ~chain(e.idx)
    BY <1>3, <2>1
  <2> QED BY <1>1, <2>2
<1>6. x \in N /\ \A y \in N : x <= y
  <2>1. N \in SUBSET Nat /\ N # {}
    BY <1>1, <1>5
  <2> HIDE DEF N
  <2> QED BY <2>1, Least
<1>7. x \in 1..e.idx /\ ~chain(x)
  BY <1>6
<1>8. \A n \in 1..e.idx : n < x => chain(n)
  <2>1. \A n \in 1..e.idx : ~chain(n) => n \in N
    OBVIOUS
  <2>2. x \in Nat
    BY <1>1, <1>6
  <2> HIDE DEF chain, N, x
  <2> QED BY <1>1, <1>6, <2>1, <2>2
<1>9. \A n \in 1..e.idx : chain(n) => n < x
  <2> SUFFICES ASSUME NEW n \in 1..e.idx, chain(n), ~(n < x) PROVE FALSE
    OBVIOUS
  <2>1. x \in Nat /\ x <= n
    <3>1. x \in 1..e.idx
      BY <1>7
    <3> HIDE DEF x, chain
    <3> QED BY <1>1, <3>1
  <2>2. \A i \in e.idx - x..e.idx - 1 : i \in e.idx - n..e.idx - 1
    <3> HIDE DEF x, chain
    <3> QED BY <1>1, <2>1
  <2> QED BY <1>7, <2>2
<1>10. D = 1..x - 1
  <2>1. \A n \in D : n \in 1..x - 1
    <3>1. \A n \in D : n \in 1..e.idx /\ chain(n)
      OBVIOUS
    <3>2. x \in 1..e.idx
      BY <1>7
    <3> HIDE DEF x, chain, D
    <3> QED BY <1>1, <1>9, <3>1, <3>2
  <2>2. \A n \in 1..x - 1 : n \in 1..e.idx /\ n < x
    BY <1>1, <1>7
  <2>3. \A n \in 1..x - 1 : n \in D
    BY <1>4, <1>8, <2>2
  <2> QED BY <2>1, <2>3
<1>11. Cardinality(D) = x - 1
  <2>1. x \in Int /\ x >= 1
    BY <1>1, <1>7
  <2> HIDE DEF x, D
  <2> QED BY <1>10, <2>1, FS_Interval, 1 \in Int
<1> DEFINE depth == Cardinality(D)
           last == IF chain(depth + 1) THEN depth + 1 ELSE depth
<1>12. Reach(e) = [low |-> e.idx - depth,
                   used |-> {Min(PutOff(i, e.path)) : i \in e.idx - last..e.idx - 1}]
  BY DEF Reach
<1>13. depth + 1 = x /\ depth \in 0..e.idx - 1
  <2> HIDE DEF D, x
  <2> QED BY <1>1, <1>7, <1>11
<1>14. last = depth
  <2>1. ~chain(depth + 1)
    BY <1>7, <1>13
  <2> QED BY <2>1
<1>0. x \in 1..e.idx /\ ~chain(x)
  BY <1>7
<1> HIDE DEF depth, last, D, x, N
<1>15. \A i \in e.idx - depth..e.idx - 1 : PutOff(i, e.path) # {}
  <2> SUFFICES ASSUME NEW i \in e.idx - depth..e.idx - 1 PROVE PutOff(i, e.path) # {}
    OBVIOUS
  <2>1. depth \in 1..e.idx /\ depth < x
    BY <1>1, <1>7, <1>13
  <2> QED BY <1>8, <2>1
<1>16. PutOff(e.idx - depth - 1, e.path) = {}
  <2>1. PICK i \in e.idx - x..e.idx - 1 : PutOff(i, e.path) = {}
    BY <1>7
  <2>2. i \notin e.idx - depth..e.idx - 1
    BY <1>15, <2>1
  <2>3. i = e.idx - depth - 1
    <3> HIDE DEF chain, clean
    <3> QED BY <1>1, <1>0, <1>13, <2>1, <2>2
  <2> QED BY <2>1, <2>3
<1>17. \A k \in Reach(e).used : deferred[k].idx \in e.idx - depth..e.idx - 1
  <2> SUFFICES ASSUME NEW k \in Reach(e).used
               PROVE  deferred[k].idx \in e.idx - depth..e.idx - 1
    OBVIOUS
  <2>1. PICK i \in e.idx - depth..e.idx - 1 : k = Min(PutOff(i, e.path))
    BY <1>12, <1>14
  <2> QED BY <1>2, <1>15, <2>1
<1>18. depth >= 1 => PutOff(e.idx - depth, e.path) # {}
  <2>1. depth >= 1 => e.idx - depth \in e.idx - depth..e.idx - 1
    BY <1>1, <1>13
  <2> QED BY <1>15, <2>1
<1>19. Reach(e).low = e.idx - depth
  BY <1>12
<1> QED BY <1>13, <1>16, <1>17, <1>18, <1>19

-----------------------------------------------------------------------------
(* Every step without navigation keeps Quiet.                              *)

LEMMA QuietFacts ==
  ASSUME TypeInv, Shape
  PROVE  /\ MarkedEntries = entries /\ MarkedDeferred = deferred
         /\ cur \in Nat /\ cur >= 1 /\ Top \in Nat /\ Len(queue) \in Nat /\ Len(stack) \in Nat
         /\ Here.path = Base /\ (cur >= 2 => OnModal)
         /\ \A m \in Modals : entries[m].idx >= 1 => Has(m) /\ entries[m].idx >= 2
         /\ \A m \in Modals : entries[m].idx \in Nat
<1>1. cur \in 1..Len(stack) /\ cur \in Nat /\ cur >= 1 /\ Len(stack) \in Nat /\ Len(queue) \in Nat
  BY DEF TypeInv, TypeOK
<1>2. Here.path = Base /\ (cur >= 2 => OnModal)
  BY <1>1 DEF Shape, Here, OnModal
<1>3. \A e : e = NoEntry \/ Clean(e, Base) => Marked(e) = e
  <2> SUFFICES ASSUME NEW e, e = NoEntry \/ Clean(e, Base) PROVE Marked(e) = e
    OBVIOUS
  <2>1. OnModal \/ e.idx # cur
    BY <1>1, <1>2 DEF Clean, NoEntry
  <2> QED BY <2>1 DEF Marked
<1>4. MarkedEntries = entries
  <2>1. \A m \in Modals : entries[m] = NoEntry \/ Clean(entries[m], Base)
    BY DEF Shape, Has
  <2>2. entries = [m \in Modals |-> entries[m]]
    BY DEF TypeInv, TypeOK
  <2>3. \A m \in Modals : Marked(entries[m]) = entries[m]
    BY <1>3, <2>1
  <2> QED BY <2>2, <2>3 DEF MarkedEntries
<1>5. MarkedDeferred = deferred
  <2>1. \A k \in 1..Len(deferred) : Marked(deferred[k]) = deferred[k]
    BY <1>3 DEF Shape
  <2>2. deferred \in Seq(Place) /\ MarkedDeferred \in Seq(Place) /\ Len(MarkedDeferred) = Len(deferred)
        /\ \A k \in 1..Len(deferred) : MarkedDeferred[k] = Marked(deferred[k])
    BY MarkedType DEF TypeInv, TypeOK
  <2>3. \A k \in 1..Len(deferred) : MarkedDeferred[k] = deferred[k]
    BY <2>1, <2>2
  <2> HIDE DEF MarkedDeferred
  <2> QED BY <2>2, <2>3, SeqEqual
<1>6. \A m \in Modals : entries[m].idx >= 1 => Has(m) /\ entries[m].idx >= 2
  <2> SUFFICES ASSUME NEW m \in Modals, entries[m].idx >= 1
               PROVE  Has(m) /\ entries[m].idx >= 2
    OBVIOUS
  <2>1. Has(m)
    BY DEF Has, NoEntry
  <2> QED BY <2>1 DEF Shape, Clean
<1>7. \A m \in Modals : entries[m].idx \in Nat
  BY ModalAssumption DEF TypeInv, TypeOK, Place
<1>8. Top \in Nat
  BY <1>1 DEF Shape
<1> QED BY <1>1, <1>2, <1>4, <1>5, <1>6, <1>7, <1>8

\* Nothing in the queue is lost: what owns a record still owns it.
LEMMA OwnedKept ==
  ASSUME TypeInv, Kept, queue' \in Seq(Op), UNCHANGED <<waiting, entries>>, NEW p, Owned(p)
  PROVE  Owned(p)'
<1>1. \A i \in 1..Len(queue) : i \in 1..Len(queue') /\ queue'[i] = queue[i]
  BY DEF Kept, TypeInv
<1> QED BY <1>1 DEF Owned

\* The head of the queue goes, that waited or does not own the record.
LEMMA OwnedDropped ==
  ASSUME TypeInv, queue # <<>>, queue' = Tail(queue), ~waiting', UNCHANGED entries, NEW p, Owned(p),
         waiting \/ Head(queue).op # "release" \/ Head(queue).entry.idx # p
  PROVE  Owned(p)'
<1>1. CASE \E m \in Modals : entries[m].idx = p
  BY <1>1 DEF Owned
<1>2. CASE \E i \in 1..Len(queue) :
             (waiting => i # 1) /\ queue[i].op = "release" /\ queue[i].entry.idx = p
  <2>1. PICK i \in 1..Len(queue) :
               (waiting => i # 1) /\ queue[i].op = "release" /\ queue[i].entry.idx = p
    BY <1>2
  <2>2. Head(queue) = queue[1] /\ Len(queue) \in Nat
    BY DoneQueue
  <2>3. i # 1
    BY <2>1, <2>2
  <2>4. i \in 2..Len(queue)
    BY <2>2, <2>3
  <2>5. i - 1 \in 1..Len(queue') /\ queue'[i - 1] = queue[i]
    BY <2>4, DroppedQueue
  <2> QED BY <2>1, <2>5 DEF Owned
<1> QED BY <1>1, <1>2 DEF Owned

\* The pushes of a queue whose head goes are those that were behind it.
LEMMA OnceDropped ==
  ASSUME TypeInv, queue # <<>>, queue' = Tail(queue), Once
  PROVE  /\ \A m : Awaits(m)' => Awaits(m) /\ (Head(queue).op = "push" => Head(queue).of # m)
         /\ \A i, j \in 1..Len(queue') :
              queue'[i].op = "push" /\ queue'[j].op = "push" /\ queue'[i].of = queue'[j].of => i = j
<1>1. /\ Head(queue) = queue[1] /\ Len(queue) \in Nat /\ Len(queue) >= 1
      /\ Len(queue') = Len(queue) - 1
      /\ \A i \in 1..Len(queue) - 1 : queue'[i] = queue[i + 1]
  BY DoneQueue
<1>2. \A i \in 1..Len(queue') : i + 1 \in 1..Len(queue) /\ i + 1 # 1 /\ queue'[i] = queue[i + 1]
  BY <1>1
<1>3. 1 \in 1..Len(queue)
  BY <1>1
<1>4. ASSUME NEW m, Awaits(m)'
      PROVE  Awaits(m) /\ (Head(queue).op = "push" => Head(queue).of # m)
  <2>1. PICK i \in 1..Len(queue') : queue'[i].op = "push" /\ queue'[i].of = m
    BY <1>4 DEF Awaits
  <2> QED BY <1>1, <1>2, <1>3, <2>1 DEF Once, Awaits
<1>5. ASSUME NEW i \in 1..Len(queue'), NEW j \in 1..Len(queue'),
             queue'[i].op = "push", queue'[j].op = "push", queue'[i].of = queue'[j].of
      PROVE  i = j
  <2>1. i + 1 = j + 1
    BY <1>2, <1>5 DEF Once
  <2> QED BY <1>1, <2>1
<1> QED BY <1>4, <1>5

LEMMA OpenQuiet ==
  ASSUME TypeInv, ListedInv, Quiet, NEW m \in Modals, Open(m)
  PROVE  Quiet'
<1>1. /\ UNCHANGED <<stack, cur, going, entries, deferred, selfPops, waiting, checks>>
      /\ ui' = [ui EXCEPT ![m] = "open"] /\ ui[m] = "new" /\ queue' = Append(queue, PushOp(m))
  BY DEF Open, historyVars, bookVars
<1>2. PushOp(m) \in Op /\ PushOp(m).op = "push" /\ PushOp(m).of = m
  BY OpTypes
<1>3. queue' \in Seq(Op) /\ Len(queue) \in Nat
  BY OpenTypes DEF TypeInv
<1>4. Kept /\ queue'[Len(queue) + 1] = PushOp(m) /\ Len(queue') = Len(queue) + 1
  BY <1>1, <1>2, AppendedQueue
<1>5. \A i \in 1..Len(queue') : \/ i \in 1..Len(queue) /\ queue'[i] = queue[i]
                                \/ i = Len(queue) + 1 /\ queue'[i] = PushOp(m)
  BY <1>3, <1>4 DEF Kept
<1>6. Shape'
  BY <1>1, <1>2, <1>5 DEF Quiet, Shape, Top, Has, Base, Clean
<1>7. ~Awaits(m) /\ ~Has(m)
  BY <1>1 DEF Quiet, Once, ListedInv
<1>8. Once'
  <2>1. \A n \in Modals : Awaits(n)' => Awaits(n) \/ n = m
    BY <1>2, <1>5 DEF Awaits
  <2>2. ui'[m] = "open" /\ \A n \in Modals : n # m => ui'[n] = ui[n]
    BY <1>1 DEF TypeInv, TypeOK
  <2>3. \A n \in Modals : Has(n)' = Has(n)
    BY <1>1 DEF Has
  <2>4. \A n \in Modals : Awaits(n)' => ui'[n] # "new" /\ ~Has(n)'
    BY <1>7, <2>1, <2>2, <2>3 DEF Quiet, Once
  <2>5. ASSUME NEW i \in 1..Len(queue'), NEW j \in 1..Len(queue'),
               queue'[i].op = "push", queue'[j].op = "push", queue'[i].of = queue'[j].of
        PROVE  i = j
    BY <1>2, <1>5, <1>7, <2>5 DEF Quiet, Once, Awaits
  <2> QED BY <2>4, <2>5 DEF Once
<1>9. \A p : Owned(p) => Owned(p)'
  BY <1>1, <1>3, <1>4, OwnedKept
<1>10. Owners'
  BY <1>1, <1>9 DEF Quiet, Owners, Top, PutAside
<1> QED BY <1>6, <1>8, <1>10 DEF Quiet

LEMMA CloseQuiet ==
  ASSUME TypeInv, ListedInv, Quiet, NEW S \in SUBSET Opened, Close(S)
  PROVE  Quiet'
<1>1. /\ UNCHANGED <<stack, cur, going, deferred, selfPops, waiting, checks>> /\ Forget(S)
      /\ ui' = [m \in Modals |-> IF m \in S THEN "closed" ELSE ui[m]]
  BY DEF Close, historyVars
<1>2. S \in SUBSET Modals
  BY DEF Opened
<1>3. PICK r \in Releases(S) : queue' = queue \o r
  BY DEF Close
<1>4. /\ r \in Seq(Op)
      /\ \A i \in 1..Len(r) : \E m \in S : Has(m) /\ r[i] = ReleaseOp(m, entries[m])
                                                  /\ r[i].op = "release"
      /\ \A m \in S : Has(m) => \E i \in 1..Len(r) : r[i] = ReleaseOp(m, entries[m])
  BY <1>2, ReleasesAre
<1>5. queue' \in Seq(Op) /\ queue \in Seq(Op) /\ Len(queue) \in Nat /\ Len(r) \in Nat
  BY <1>4, CloseTypes DEF TypeInv
<1>6. Len(queue') = Len(queue) + Len(r) /\ \A i \in 1..Len(queue) + Len(r) :
        queue'[i] = IF i <= Len(queue) THEN queue[i] ELSE r[i - Len(queue)]
  BY <1>3, <1>4, <1>5, ConcatProperties
<1>7. \A i \in 1..Len(queue') :
        \/ i \in 1..Len(queue) /\ queue'[i] = queue[i]
        \/ \E m \in S : Has(m) /\ queue'[i] = ReleaseOp(m, entries[m]) /\ queue'[i].op = "release"
  <2> TAKE i \in 1..Len(queue')
  <2>1. CASE i <= Len(queue)
    BY <1>5, <1>6, <2>1
  <2>2. CASE i > Len(queue)
    <3>1. i - Len(queue) \in 1..Len(r) /\ queue'[i] = r[i - Len(queue)]
      BY <1>5, <1>6, <2>2
    <3> QED BY <1>4, <3>1
  <2> QED BY <1>5, <2>1, <2>2
<1>8. \A m \in Modals : /\ m \in S => ~Has(m)' /\ ui'[m] = "closed"
                        /\ m \notin S => Has(m)' = Has(m) /\ ui'[m] = ui[m] /\ entries'[m] = entries[m]
  BY <1>1, ForgetType DEF Has
<1>9. Shape'
  <2>1. \A m \in Modals : Has(m)' => Clean(entries'[m], Base')
    BY <1>1, <1>8 DEF Quiet, Shape, Clean, Base
  <2>2. \A i \in 1..Len(queue') : /\ queue'[i].op # "go"
                                  /\ queue'[i].op = "release" => Clean(queue'[i].entry, Base')
    <3> TAKE i \in 1..Len(queue')
    <3>1. CASE i \in 1..Len(queue) /\ queue'[i] = queue[i]
      BY <1>1, <3>1 DEF Quiet, Shape, Clean, Base
    <3>2. CASE \E m \in S : Has(m) /\ queue'[i] = ReleaseOp(m, entries[m]) /\ queue'[i].op = "release"
      BY <1>1, <1>2, <3>2 DEF Quiet, Shape, Clean, Base, ReleaseOp
    <3> QED BY <1>7, <3>1, <3>2
  <2> QED BY <1>1, <2>1, <2>2 DEF Quiet, Shape, Top, Base, Clean
<1>10. Once'
  <2>1. \A m \in Modals : Awaits(m)' => Awaits(m)
    BY <1>7 DEF Awaits
  <2>2. \A m \in Modals : Awaits(m)' => ui'[m] # "new" /\ ~Has(m)'
    BY <1>8, <2>1 DEF Quiet, Once
  <2>3. \A i \in 1..Len(queue') : queue'[i].op = "push" => i \in 1..Len(queue) /\ queue'[i] = queue[i]
    BY <1>7
  <2> QED BY <2>2, <2>3 DEF Quiet, Once
<1>11. ASSUME NEW p \in 2..Top, Owned(p) PROVE Owned(p)'
  <2>1. CASE \E m \in Modals : entries[m].idx = p
    <3>1. PICK m \in Modals : entries[m].idx = p
      BY <2>1
    <3>2. CASE m \in S
      <4>1. Has(m)
        BY <3>1, QuietFacts DEF Quiet
      <4>2. PICK i \in 1..Len(r) : r[i] = ReleaseOp(m, entries[m])
        BY <1>4, <3>2, <4>1
      <4>3. Len(queue) + i \in 1..Len(queue') /\ queue'[Len(queue) + i] = r[i]
        <5>1. /\ Len(queue) + i \in 1..Len(queue) + Len(r) /\ ~(Len(queue) + i <= Len(queue))
              /\ (Len(queue) + i) - Len(queue) = i
          BY <1>5
        <5> QED BY <1>6, <5>1
      <4>4. waiting => Len(queue) + i # 1
        BY <1>5, DoneQueue DEF TypeInv, TypeOK
      <4>5. r[i].op = "release" /\ r[i].entry.idx = p
        BY <3>1, <4>2 DEF ReleaseOp
      <4> QED BY <1>1, <4>3, <4>4, <4>5 DEF Owned
    <3>3. CASE m \notin S
      BY <1>8, <3>1, <3>3 DEF Owned
    <3> QED BY <3>2, <3>3
  <2>2. CASE \E i \in 1..Len(queue) :
               (waiting => i # 1) /\ queue[i].op = "release" /\ queue[i].entry.idx = p
    <3>1. \A i \in 1..Len(queue) : i \in 1..Len(queue') /\ queue'[i] = queue[i]
      BY <1>5, <1>6
    <3> QED BY <1>1, <2>2, <3>1 DEF Owned
  <2> QED BY <1>11, <2>1, <2>2 DEF Owned
<1>12. Owners'
  <2>1. Top' = Top /\ \A p : PutAside(p)' = PutAside(p)
    BY <1>1 DEF Top, PutAside
  <2>2. Top \in Nat
    BY QuietFacts DEF Quiet
  <2> QED BY <1>11, <2>1, <2>2 DEF Quiet, Owners
<1> QED BY <1>9, <1>10, <1>12 DEF Quiet

LEMMA PushQuiet ==
  ASSUME TypeInv, ListedInv, Quiet, queue # <<>>, ~waiting, NEW m \in Modals,
         Head(queue).op = "push", Head(queue).of = m, RunPush(m), Done, UNCHANGED <<ui, checks>>
  PROVE  Quiet'
<1>1. queue' = Tail(queue) /\ UNCHANGED <<waiting, selfPops, going>>
  BY DEF Done
<1>2. \A i \in 1..Len(queue') : i + 1 \in 1..Len(queue) /\ queue'[i] = queue[i + 1]
  BY <1>1, DoneQueue
<1>3. /\ \A n : Awaits(n)' => Awaits(n) /\ n # m
      /\ \A i, j \in 1..Len(queue') :
           queue'[i].op = "push" /\ queue'[j].op = "push" /\ queue'[i].of = queue'[j].of => i = j
  BY <1>1, OnceDropped DEF Quiet
<1>4. Awaits(m)
  BY DoneQueue DEF Awaits
<1>5. ~Has(m)
  BY <1>4 DEF Quiet, Once
<1>6. CASE ui[m] # "open"
  <2>1. UNCHANGED <<stack, cur, entries, deferred, lastIdx>>
    BY <1>6 DEF RunPush
  <2>2. Shape'
    BY <1>1, <1>2, <2>1 DEF Quiet, Shape, Top, Has, Base
  <2>3. Once'
    BY <1>3, <2>1 DEF Quiet, Once, Has
  <2>4. \A p : Owned(p) => Owned(p)'
    BY <1>1, <2>1, OwnedDropped
  <2>5. Owners'
    BY <1>1, <2>1, <2>4 DEF Quiet, Owners, Top, PutAside
  <2> QED BY <2>2, <2>3, <2>5 DEF Quiet
<1>7. CASE ui[m] = "open"
  <2> DEFINE r == [path |-> Here.path, mark |-> m]
             new == [idx |-> cur', path |-> Here.path, replaced |-> FALSE]
  <2>1. /\ MarkedEntries = entries /\ MarkedDeferred = deferred /\ Here.path = Base
        /\ cur \in Nat /\ cur >= 1 /\ Len(stack) \in Nat
    BY QuietFacts DEF Quiet
  <2>2. Pushed(r) /\ deferred' = deferred /\ entries' = [entries EXCEPT ![m] = new]
    BY <1>7, <2>1 DEF RunPush
  <2>3. r \in Record
    BY HereType DEF Record
  <2>4. /\ Len(stack') = cur + 1 /\ cur' = cur + 1
        /\ (\A i \in 1..cur : stack'[i] = stack[i]) /\ stack'[cur + 1] = r
    BY <2>2, <2>3, PushedType
  <2>5. Base' = Base
    BY <2>1, <2>4 DEF Base
  <2>6. /\ entries'[m] = new /\ \A n \in Modals : n # m => entries'[n] = entries[n]
    BY <2>2 DEF TypeInv, TypeOK
  <2>7. cur <= Len(stack)
    BY DEF TypeInv, TypeOK
  <2>8. \A i \in 1..Len(stack') : stack'[i].path = Base /\ (i # 1 => stack'[i].mark # Screen)
    <3> TAKE i \in 1..Len(stack')
    <3>1. CASE i <= cur
      BY <2>1, <2>4, <2>7, <3>1 DEF Quiet, Shape
    <3>2. CASE i > cur
      <4>1. i = cur + 1
        BY <2>1, <2>4, <3>2
      <4> QED BY <2>1, <2>4, <4>1, ModalAssumption
    <3> QED BY <2>1, <2>4, <3>1, <3>2
  <2>9. Clean(new, Base) /\ new.idx = cur + 1 /\ NoEntry.idx = 0
    BY <2>1, <2>4 DEF Clean, NoEntry
  <2>10. \A n \in Modals : Has(n)' => Clean(entries'[n], Base)
    BY <2>6, <2>9 DEF Has, Quiet, Shape
  <2>11. Top = cur /\ Top' = cur + 1
    BY <1>1, <2>4 DEF Top
  <2>12. Shape'
    <3>1. Top' \in 1..cur'
      BY <2>1, <2>4, <2>11
    <3>2. /\ checks' = {} /\ ~waiting' /\ going' = <<>> /\ selfPops' = 0
      BY <1>1 DEF Quiet, Shape
    <3>3. \A i \in 1..Len(queue') : /\ queue'[i].op # "go"
                                    /\ queue'[i].op = "release" => Clean(queue'[i].entry, Base')
      BY <1>2, <2>5 DEF Quiet, Shape
    <3>4. \A k \in 1..Len(deferred') : deferred'[k] = NoEntry \/ Clean(deferred'[k], Base')
      BY <2>2, <2>5 DEF Quiet, Shape
    <3>5. \A i \in 2..Len(stack') : stack'[i].mark # Screen
      BY <2>1, <2>4, <2>8
    <3> QED BY <2>5, <2>8, <2>10, <3>1, <3>2, <3>3, <3>4, <3>5 DEF Shape
  <2>13. \A n \in Modals : n # m => Has(n)' = Has(n)
    BY <2>6 DEF Has
  <2>14. Once'
    BY <1>3, <2>13 DEF Quiet, Once
  <2>15. ASSUME NEW p \in 2..Top, Owned(p) PROVE Owned(p)'
    <3>1. CASE \E n \in Modals : entries[n].idx = p
      <4>1. PICK n \in Modals : entries[n].idx = p
        BY <3>1
      <4>2. n # m
        BY <1>5, <2>1, <4>1, <2>9 DEF Has
      <4> QED BY <2>6, <4>1, <4>2 DEF Owned
    <3>2. CASE \E i \in 1..Len(queue) : queue[i].op = "release" /\ queue[i].entry.idx = p
      <4>1. PICK i \in 1..Len(queue) : queue[i].op = "release" /\ queue[i].entry.idx = p
        BY <3>2
      <4>2. i # 1 /\ Len(queue) \in Nat
        BY <4>1, DoneQueue
      <4>3. i - 1 \in 1..Len(queue') /\ queue'[i - 1] = queue[i]
        BY <1>1, <4>2, DroppedQueue
      <4> QED BY <1>1, <4>1, <4>3 DEF Owned
    <3> QED BY <2>15, <3>1, <3>2 DEF Owned
  <2>16. \A p : p = cur + 1 => Owned(p)'
    BY <2>6, <2>9 DEF Owned
  <2>17. Owners'
    <3>1. \A p \in 2..Top' : p \in 2..Top \/ p = cur + 1
      BY <2>1, <2>11
    <3>2. \A p : PutAside(p)' = PutAside(p)
      BY <2>2 DEF PutAside
    <3>3. Owned(Top)'
      BY <2>6, <2>9, <2>11 DEF Owned
    <3> QED BY <2>15, <2>16, <3>1, <3>2, <3>3 DEF Quiet, Owners
  <2> QED BY <2>12, <2>14, <2>17 DEF Quiet
<1> QED BY <1>6, <1>7

\* The record of a modal that has closed is taken back, with those put aside
\* right below it.
LEMMA TakenBackQuiet ==
  ASSUME TypeInv, Quiet, queue # <<>>, ~waiting, NEW e \in Place, Head(queue).op = "release",
         Head(queue).entry = e, e.idx <= cur, ~OpenAbove(e), OnModal,
         entries' = MarkedEntries, deferred' = Without(MarkedDeferred, Reach(e).used),
         SelfGo(Reach(e).low - cur - 1), UNCHANGED <<stack, cur, ui, checks>>
  PROVE  Quiet'
<1>1. /\ MarkedEntries = entries /\ MarkedDeferred = deferred /\ cur \in Nat /\ cur >= 1
      /\ Top = cur /\ Len(queue) \in Nat /\ Len(stack) \in Nat
  BY QuietFacts DEF Quiet, Top
<1>2. Head(queue) = queue[1] /\ 1 \in 1..Len(queue)
  BY DoneQueue
<1>3. Clean(e, Base) /\ e.idx \in Nat
  BY <1>2, ModalAssumption DEF Quiet, Shape, Place
<1>4. PICK depth \in 0..e.idx - 1 :
           /\ Reach(e).low = e.idx - depth
           /\ PutOff(e.idx - depth - 1, e.path) = {}
           /\ depth >= 1 => PutOff(e.idx - depth, e.path) # {}
           /\ \A k \in Reach(e).used : deferred[k].idx \in e.idx - depth..e.idx - 1
  <2>1. \A k \in 1..Len(deferred) :
          ~deferred[k].replaced /\ (deferred[k].path = e.path => deferred[k].idx # 0)
    <3> TAKE k \in 1..Len(deferred)
    <3>1. CASE deferred[k] = NoEntry
      <4>1. Base \in Paths
        <5>1. stack[1] \in Record
          BY <1>1 DEF TypeInv, TypeOK
        <5> QED BY <5>1 DEF Base, Record
      <4>2. Base # Screen
        BY <4>1, ModalAssumption
      <4> QED BY <1>3, <3>1, <4>2 DEF NoEntry, Clean
    <3>2. CASE Clean(deferred[k], Base)
      <4>1. deferred[k].idx # 0
        BY <3>2 DEF Clean
      <4> QED BY <3>2, <4>1 DEF Clean
    <3> QED BY <3>1, <3>2 DEF Quiet, Shape
  <2>2. e.idx >= 1
    BY <1>3 DEF Clean
  <2> QED BY <1>1, <2>1, <2>2, ReachBelow
<1> DEFINE top == e.idx - depth - 1
<1>5. top \in Nat /\ top < e.idx /\ top < cur /\ top >= 1
  <2>1. top \in Nat /\ top < e.idx /\ top < cur
    BY <1>1, <1>3, <1>4
  <2>2. ASSUME top = 0 PROVE FALSE
    <3>1. depth >= 1 /\ e.idx - depth = 1
      BY <1>3, <1>4, <2>2 DEF Clean
    <3>2. PICK k \in 1..Len(deferred) : deferred[k].idx = 1
      BY <1>1, <1>4, <3>1 DEF PutOff
    <3> QED BY <3>2 DEF Quiet, Shape, Clean, NoEntry
  <2> HIDE DEF top
  <2> QED BY <2>1, <2>2
<1>6. /\ waiting' = TRUE /\ queue' = queue /\ going = <<>>
      /\ Len(going') = 1 /\ going'[1] = [by |-> top - cur, self |-> TRUE]
      /\ going' \in Seq(Travel) /\ selfPops' = 1
  <2>1. Reach(e).low - cur - 1 = top - cur /\ top - cur \in Int
    BY <1>1, <1>3, <1>4
  <2> HIDE DEF top
  <2>2. going = <<>> /\ selfPops = 0 /\ Len(going) = 0
    BY DEF Quiet, Shape
  <2>3. SelfGo(top - cur)
    BY <2>1
  <2>4. going' \in Seq(Travel) /\ waiting' = TRUE /\ queue' = queue
        /\ Len(going') = Len(going) + 1 /\ going'[Len(going) + 1] = [by |-> top - cur, self |-> TRUE]
    BY <2>1, <2>3, SelfGoType
  <2>5. Len(going') = 1 /\ going'[1] = [by |-> top - cur, self |-> TRUE]
    BY <2>2, <2>4
  <2>6. selfPops' = 1
    BY <2>2, <2>3 DEF SelfGo
  <2> QED BY <2>2, <2>4, <2>5, <2>6
<1>7. Head(going') = [by |-> top - cur, self |-> TRUE] /\ Top' = top
  <2>1. Head(going') = going'[1]
    BY <1>6
  <2> HIDE DEF top
  <2> QED BY <1>1, <1>5, <1>6, <2>1 DEF Top
<1>8. /\ entries' = entries /\ Len(deferred') = Len(deferred)
      /\ \A k \in 1..Len(deferred) :
           deferred'[k] = IF k \in Reach(e).used THEN NoEntry ELSE deferred[k]
  <2>1. deferred \in Seq(Place)
    BY DEF TypeInv, TypeOK
  <2> QED BY <1>1, <2>1, WithoutType
<1> HIDE DEF top
\* What owned a record below, and is not the head of the queue, still owns it.
<1>9. ASSUME NEW p \in 2..top, Owned(p) PROVE Owned(p)'
  <2>1. CASE \E m \in Modals : entries[m].idx = p
    BY <1>8, <2>1 DEF Owned
  <2>2. CASE \E i \in 1..Len(queue) : queue[i].op = "release" /\ queue[i].entry.idx = p
    <3>1. PICK i \in 1..Len(queue) : queue[i].op = "release" /\ queue[i].entry.idx = p
      BY <2>2
    <3>2. i # 1
      BY <1>2, <1>5, <1>9, <3>1
    <3> QED BY <1>6, <3>1, <3>2 DEF Owned
  <2> QED BY <1>9, <2>1, <2>2 DEF Owned
<1>10. ASSUME NEW p \in 2..top, PutAside(p) PROVE PutAside(p)'
  <2>1. PICK k \in 1..Len(deferred) : deferred[k].idx = p
    BY <1>10 DEF PutAside
  <2>2. k \notin Reach(e).used
    <3>1. p \notin e.idx - depth..e.idx - 1
      BY <1>3, <1>5 DEF top
    <3> QED BY <1>4, <2>1, <3>1
  <2> QED BY <1>8, <2>1, <2>2 DEF PutAside
\* Nothing that is put aside is on top.
<1>11. top >= 2 => ~PutAside(top)
  <2> SUFFICES ASSUME top >= 2, PutAside(top) PROVE FALSE
    OBVIOUS
  <2>1. PICK k \in 1..Len(deferred) : deferred[k].idx = top
    BY DEF PutAside
  <2>2. deferred[k] # NoEntry
    BY <2>1, <1>5 DEF NoEntry
  <2>3. deferred[k].path = e.path
    BY <1>3, <2>2 DEF Quiet, Shape, Clean
  <2>4. k \in PutOff(top, e.path)
    BY <1>1, <2>1, <2>3 DEF PutOff
  <2> QED BY <1>4, <2>4 DEF top
<1>12. Owners'
  <2>1. \A p \in 2..top : p \in 2..Top
    BY <1>1, <1>5
  <2>2. top >= 2 => top \in 2..top
    BY <1>5
  <2> QED BY <1>7, <1>9, <1>10, <1>11, <2>1, <2>2 DEF Quiet, Owners
<1>13. Base' = Base
  BY DEF Base
<1>14. \A m \in Modals : Has(m)' = Has(m)
  BY <1>8 DEF Has
<1>15. Shape'
  <2>1. Top' \in 1..cur'
    BY <1>1, <1>5, <1>7
  <2>2. \A k \in 1..Len(deferred') : deferred'[k] = NoEntry \/ Clean(deferred'[k], Base')
    BY <1>8, <1>13 DEF Quiet, Shape
  <2>3. waiting' /\ Len(going') = 1 /\ Head(going').self /\ selfPops' = 1
    BY <1>6, <1>7
  <2> QED BY <1>6, <1>8, <1>13, <1>14, <2>1, <2>2, <2>3 DEF Quiet, Shape
<1>16. Once'
  BY <1>6, <1>14 DEF Quiet, Once, Awaits
<1> QED BY <1>12, <1>15, <1>16 DEF Quiet

\* The release that is run goes; its record is above the current one, or is put
\* aside below that of a modal.
LEMMA LeftQuiet ==
  ASSUME TypeInv, Quiet, queue # <<>>, ~waiting, NEW e \in Place, Head(queue).op = "release",
         Head(queue).entry = e, Done, UNCHANGED <<stack, cur, ui, checks, entries>>,
         \/ cur < e.idx /\ deferred' = deferred
         \/ OpenAbove(e) /\ deferred' = Append(deferred, e)
  PROVE  Quiet'
<1>1. queue' = Tail(queue) /\ UNCHANGED <<waiting, selfPops, going>>
  BY DEF Done
<1>2. \A i \in 1..Len(queue') : i + 1 \in 1..Len(queue) /\ queue'[i] = queue[i + 1]
  BY <1>1, DoneQueue
<1>3. Head(queue) = queue[1] /\ 1 \in 1..Len(queue)
  BY DoneQueue
<1>4. Clean(e, Base) /\ e.idx \in Nat /\ cur \in Nat /\ Top = cur
  BY <1>3, QuietFacts, ModalAssumption DEF Quiet, Shape, Place, Top
<1>5. /\ \A k \in 1..Len(deferred) : k \in 1..Len(deferred') /\ deferred'[k] = deferred[k]
      /\ \A k \in 1..Len(deferred') : deferred'[k] = e \/ (k \in 1..Len(deferred) /\ deferred'[k] = deferred[k])
      /\ ~(cur < e.idx) => \E k \in 1..Len(deferred') : deferred'[k] = e
  <2>1. deferred \in Seq(Place) /\ Len(deferred) \in Nat
    BY DEF TypeInv, TypeOK
  <2>2. CASE deferred' = deferred /\ cur < e.idx
    BY <2>2
  <2>3. CASE deferred' = Append(deferred, e)
    <3>1. /\ Len(deferred') = Len(deferred) + 1 /\ deferred'[Len(deferred) + 1] = e
          /\ \A k \in 1..Len(deferred) : deferred'[k] = deferred[k]
      BY <2>1, <2>3, AppendProperties
    <3> QED BY <2>1, <3>1
  <2> QED BY <2>2, <2>3
<1>6. Shape'
  <2>1. Base' = Base /\ Top' = Top /\ \A m \in Modals : Has(m)' = Has(m)
    BY <1>1 DEF Base, Top, Has
  <2>2. \A k \in 1..Len(deferred') : deferred'[k] = NoEntry \/ Clean(deferred'[k], Base')
    BY <1>4, <1>5, <2>1 DEF Quiet, Shape
  <2> QED BY <1>1, <1>2, <2>1, <2>2 DEF Quiet, Shape
<1>7. Once'
  <2>1. /\ \A m : Awaits(m)' => Awaits(m)
        /\ \A i, j \in 1..Len(queue') :
             queue'[i].op = "push" /\ queue'[j].op = "push" /\ queue'[i].of = queue'[j].of => i = j
    BY <1>1, OnceDropped DEF Quiet
  <2> QED BY <2>1 DEF Quiet, Once, Has
<1>8. \A p : Owned(p) /\ p # e.idx => Owned(p)'
  BY <1>1, OwnedDropped
<1>9. \A p : PutAside(p) => PutAside(p)'
  BY <1>5 DEF PutAside
<1>10. ~(cur < e.idx) => PutAside(e.idx)'
  BY <1>5 DEF PutAside
<1>11. Top' = Top
  BY <1>1 DEF Top
\* A record that is put aside is not on top.
<1>12. e.idx # cur
  <2>1. OpenAbove(e) => e.idx # cur
    BY <1>4, QuietFacts DEF OpenAbove, Quiet
  <2> QED BY <1>4, <2>1
<1>13. \A p \in 2..Top : Owned(p)' \/ PutAside(p)'
  <2> TAKE p \in 2..Top
  <2>1. CASE p # e.idx
    BY <1>8, <1>9, <2>1 DEF Quiet, Owners
  <2>2. CASE p = e.idx
    <3>1. ~(cur < e.idx)
      BY <1>4, <2>2
    <3>2. \E k \in 1..Len(deferred') : deferred'[k].idx = p
      BY <1>5, <2>2, <3>1
    <3> QED BY <3>2 DEF PutAside
  <2> QED BY <2>1, <2>2
<1>14. \A p : p = Top /\ p >= 2 => Owned(p)'
  BY <1>4, <1>8, <1>12 DEF Quiet, Owners
<1>15. Owners'
  <2>1. Top >= 2 => Owned(Top)'
    BY <1>11, <1>14 DEF Owned
  <2> QED BY <1>11, <1>13, <2>1 DEF Owners
<1> QED BY <1>6, <1>7, <1>15 DEF Quiet

LEMMA RunQuiet == ASSUME TypeInv, ListedInv, Quiet, Run PROVE Quiet'
<1> DEFINE o == Head(queue)
<1>1. o \in Op /\ queue # <<>> /\ ~waiting /\ UNCHANGED <<ui, checks>>
  BY DoneQueue DEF Run
<1>2. o = queue[1] /\ 1 \in 1..Len(queue)
  BY <1>1, DoneQueue
<1>3. CASE o.op = "push" /\ RunPush(o.of) /\ Done
  <2>1. o.of \in Modals
    BY <1>1, <1>3 DEF Op
  <2> QED BY <1>1, <1>3, <2>1, PushQuiet
<1>4. CASE o.op = "release" /\ RunRelease(o.entry) /\ UNCHANGED <<stack, cur, lastIdx>>
  <2> DEFINE e == o.entry
  <2>1. e \in Place /\ Clean(e, Base)
    BY <1>1, <1>2, <1>4 DEF Op, Quiet, Shape
  <2>2. /\ MarkedEntries = entries /\ MarkedDeferred = deferred /\ Here.path = Base
        /\ cur \in Nat /\ (cur >= 2 => OnModal) /\ e.idx \in Nat
    BY <2>1, QuietFacts, ModalAssumption DEF Quiet, Place
  <2>3. e.path = Base /\ ~e.replaced /\ e.idx >= 2
    BY <2>1 DEF Clean
  <2> HIDE DEF e
  <2>4. RunRelease(e)
    BY <1>4 DEF e
  <2>5. Head(queue).op = "release" /\ Head(queue).entry = e
    BY <1>4 DEF e
  <2>6. CASE (Here.path # e.path \/ cur < e.idx) /\ Done /\ UNCHANGED <<entries, deferred>>
    BY <1>1, <1>4, <2>1, <2>2, <2>3, <2>5, <2>6, LeftQuiet
  <2>7. CASE /\ Here.path = e.path /\ ~(cur < e.idx) /\ entries' = MarkedEntries
             /\ ~e.replaced /\ ~OpenAbove(e) /\ OnModal
             /\ deferred' = Without(MarkedDeferred, Reach(e).used)
             /\ SelfGo(Reach(e).low - cur - 1)
    <3>1. e.idx <= cur
      BY <2>2, <2>7
    <3> QED BY <1>1, <1>4, <2>1, <2>5, <2>7, <3>1, TakenBackQuiet
  <2>8. CASE /\ Here.path = e.path /\ ~(cur < e.idx) /\ entries' = MarkedEntries
             /\ ~e.replaced /\ OpenAbove(e) /\ Done /\ deferred' = Append(MarkedDeferred, e)
    BY <1>1, <1>4, <2>1, <2>2, <2>5, <2>8, LeftQuiet
  <2>9. CASE ~(cur < e.idx) /\ (e.replaced \/ (~OpenAbove(e) /\ ~OnModal))
    BY <2>2, <2>3, <2>9
  <2> QED BY <2>1, <2>4, <2>6, <2>7, <2>8, <2>9, ReleaseWays
<1>5. o.op # "go"
  BY <1>2 DEF Quiet, Shape
<1> QED BY <1>3, <1>4, <1>5 DEF Run

\* The traversal takes place: nobody is closed by it.
LEMMA TraverseQuiet ==
  ASSUME TypeInv, ListedInv, Quiet, NEW S, Traverse(S)
  PROVE  Quiet' /\ UNCHANGED <<ui, entries>>
<1>1. waiting /\ Len(going) = 1 /\ selfPops = 1 /\ going \in Seq(Travel)
  BY TraverseParts, EmptySeq DEF Quiet, Shape, TypeInv
<1>2. At = Top
  BY <1>1 DEF At, Top
<1>3. Gone = {} /\ ~Orphan
  BY <1>1 DEF Gone, Orphan
<1>4. At \in 1..Len(stack) /\ cur' = At /\ waiting' = FALSE /\ selfPops' = 0 /\ checks' = checks \cup S
      /\ S \subseteq Gone /\ Forget(Gone \cup Left) /\ UNCHANGED <<stack, deferred>>
      /\ ui' = [m \in Modals |-> IF m \in (Gone \ S) \cup Left THEN "closed" ELSE ui[m]]
  <2>1. selfPops' = IF selfPops > 0 THEN selfPops - 1 ELSE 0
    BY TraverseParts
  <2>2. selfPops' = 0
    BY <1>1, <2>1
  <2> QED BY <2>2, TraverseParts
<1>5. Left = {}
  BY <1>4, QuietFacts DEF Quiet, Shape, Left
<1>6. UNCHANGED <<ui, entries, checks>>
  BY <1>3, <1>4, <1>5 DEF Forget, TypeInv, TypeOK
<1>7. queue' = Tail(queue) /\ queue # <<>>
  BY <1>1, <1>3, <1>5, TraverseQueue DEF Rest, TypeInv, TypeOK
<1>8. going' = <<>>
  <2>1. going # <<>> /\ going' = Tail(going)
    BY TraverseParts
  <2>2. Len(going') = 0 /\ going' \in Seq(Travel)
    BY <1>1, <2>1, HeadTailProperties
  <2> QED BY <2>2
<1>9. Top' = Top /\ Base' = Base
  BY <1>2, <1>4 DEF Top, Base
<1>10. \A i \in 1..Len(queue') : i + 1 \in 1..Len(queue) /\ queue'[i] = queue[i + 1]
  BY <1>7, DoneQueue
<1>11. Shape'
  <2>1. Top' \in 1..cur'
    BY <1>2, <1>4, <1>9
  <2> QED BY <1>4, <1>6, <1>8, <1>9, <1>10, <2>1 DEF Quiet, Shape, Has
<1>12. Once'
  <2>1. /\ \A m : Awaits(m)' => Awaits(m)
        /\ \A i, j \in 1..Len(queue') :
             queue'[i].op = "push" /\ queue'[j].op = "push" /\ queue'[i].of = queue'[j].of => i = j
    BY <1>7, OnceDropped DEF Quiet
  <2> QED BY <1>6, <2>1 DEF Quiet, Once, Has
<1>13. \A p : Owned(p) => Owned(p)'
  BY <1>1, <1>4, <1>6, <1>7, OwnedDropped
<1>14. \A p : PutAside(p) => PutAside(p)'
  BY <1>4 DEF PutAside
<1>15. Owners'
  <2>1. Top >= 2 => Owned(Top)'
    <3>1. \A p : p = Top /\ p >= 2 => Owned(p)'
      BY <1>13 DEF Quiet, Owners
    <3> QED BY <1>9, <3>1 DEF Owned
  <2> QED BY <1>9, <1>13, <1>14, <2>1 DEF Quiet, Owners
<1> QED BY <1>6, <1>11, <1>12, <1>15 DEF Quiet

\* A traversal of the module always leads somewhere.
LEMMA NeverNowhere ==
  ASSUME TypeInv, Quiet
  PROVE  ~Nowhere /\ ~Timeout /\ \A m \in Modals : ~Check(m)
<1>1. ASSUME Nowhere PROVE FALSE
  <2>1. waiting /\ cur + Head(going).by \notin 1..Len(stack)
    BY <1>1 DEF Nowhere, Quiet, Shape
  <2> QED BY <2>1, QuietFacts DEF Quiet, Shape, Top, TypeInv, TypeOK
<1>2. ASSUME Timeout PROVE FALSE
  <2>1. waiting /\ going = <<>> /\ Len(going) = 1
    BY <1>2 DEF Timeout, Quiet, Shape
  <2> QED BY <2>1, EmptySeq
<1>3. \A m \in Modals : ~Check(m)
  BY DEF Check, Quiet, Shape
<1> QED BY <1>1, <1>2, <1>3

LEMMA QuietStep == TypeInv /\ ListedInv /\ QuietInv /\ [Next]_vars => QuietInv'
<1> SUFFICES ASSUME TypeInv, ListedInv, QuietInv, [Next]_vars, steps' = 0 PROVE Quiet'
  BY DEF QuietInv
<1>1. CASE (\E p \in Paths : Navigate(p)) \/ Replace \/ \E d \in Moves : UserGo(d)
  <2>1. Step
    BY <1>1 DEF Navigate, Replace, UserGo
  <2>2. steps' = steps + 1 /\ steps \in 0..MaxSteps
    BY <2>1 DEF Step, TypeInv, TypeOK
  <2> QED BY <2>2
<1>2. CASE ~((\E p \in Paths : Navigate(p)) \/ Replace \/ \E d \in Moves : UserGo(d))
  <2>1. CASE UNCHANGED vars
    <3>1. Quiet
      BY <2>1 DEF vars, QuietInv
    <3> QED BY <2>1, <3>1 DEF vars, historyVars, bookVars, Quiet, Shape, Once, Owners, Owned, PutAside,
                              Top, Base, Has, Awaits
  <2>2. CASE Next
    <3>1. steps' = steps
      BY <1>2, <2>2, TraverseParts DEF Next, Settling, Open, Close, Run, Check, Nowhere, Timeout
    <3>2. Quiet
      BY <3>1 DEF QuietInv
    <3>3. CASE \E m \in Modals : Open(m)
      BY <3>2, <3>3, OpenQuiet
    <3>4. CASE \E S \in SUBSET Opened : Close(S)
      BY <3>2, <3>4, CloseQuiet
    <3>5. CASE Run
      BY <3>2, <3>5, RunQuiet
    <3>6. CASE \E S \in SUBSET Modals : Traverse(S)
      BY <3>2, <3>6, TraverseQuiet
    <3>7. ~Nowhere /\ ~Timeout /\ \A m \in Modals : ~Check(m)
      BY <3>2, NeverNowhere
    <3> QED BY <1>2, <2>2, <3>3, <3>4, <3>5, <3>6, <3>7 DEF Next, Settling
  <2> QED BY <2>1, <2>2
<1> QED BY <1>1, <1>2

LEMMA InitQuiet == Init => QuietInv
<1> SUFFICES ASSUME Init PROVE Quiet
  BY DEF QuietInv
<1>1. PICK p \in Paths : stack = <<[path |-> p, mark |-> Screen]>>
  BY DEF Init
<1>2. Len(stack) = 1 /\ Len(queue) = 0 /\ Len(deferred) = 0 /\ Top = 1 /\ \A m \in Modals : ~Has(m)
  BY <1>1 DEF Init, Top, Has
<1>3. Shape
  BY <1>1, <1>2 DEF Init, Shape, Base
<1>4. Once
  BY <1>2 DEF Once, Awaits
<1>5. Owners
  BY <1>2 DEF Owners
<1> QED BY <1>3, <1>4, <1>5 DEF Quiet

LEMMA QuietAlways == Spec => [](TypeInv /\ ListedInv /\ QuietInv)
<1>1. Init => ListedInv
  BY DEF Init, ListedInv, Has, Opened
<1> QED BY <1>1, InitTypes, InitQuiet, TypeStep, ListedStep, QuietStep, PTL DEF Spec

\* As long as nobody has navigated and nothing is under way, the current record
\* is the screen itself or that of an open modal, in whatever order, and how
\* quickly, modals were opened and closed.
THEOREM NoStaleRecordOnTop == Spec => []CurrentRecordIsNotStale
<1>1. TypeInv /\ ListedInv /\ QuietInv => CurrentRecordIsNotStale
  <2> SUFFICES ASSUME TypeInv, ListedInv, QuietInv, Settled, steps = 0, cur > 1
               PROVE  \E m \in Opened : entries[m].idx = cur
    BY DEF CurrentRecordIsNotStale
  <2>1. Quiet
    BY DEF QuietInv
  <2>2. Top = cur /\ Len(queue) = 0 /\ cur >= 2
    BY <2>1, QuietFacts, EmptySeq DEF Settled, Quiet, Shape, Top, TypeInv, TypeOK
  <2>3. PICK m \in Modals : entries[m].idx = cur
    BY <2>1, <2>2 DEF Quiet, Owners, Owned
  <2>4. Has(m)
    BY <2>1, <2>2, <2>3, QuietFacts DEF Quiet
  <2> QED BY <2>3, <2>4 DEF ListedInv, Opened
<1> QED BY <1>1, QuietAlways, PTL

\* As long as nobody has navigated, no popstate closes a modal: what the module
\* takes back itself is never understood as a "back" of the user, and a modal
\* that opens while a record is taken back stays (modalHistory.ts:7-8).
THEOREM OwnTraversalsCloseNobody == Spec => PopstateClosesNobody
<1>1. TypeInv /\ ListedInv /\ QuietInv /\ [Next]_vars
        => [steps = 0 /\ Len(going') < Len(going) => ui' = ui]_vars
  <2> SUFFICES ASSUME TypeInv, ListedInv, QuietInv, Next, steps = 0, Len(going') < Len(going)
               PROVE  ui' = ui
    OBVIOUS
  <2>1. Quiet /\ Len(going) \in Nat
    BY DEF QuietInv, TypeInv
  <2>2. CASE \E S \in SUBSET Modals : Traverse(S)
    BY <2>1, <2>2, TraverseQuiet
  <2>3. CASE (\E m \in Modals : Open(m)) \/ (\E S \in SUBSET Opened : Close(S))
             \/ (\E p \in Paths : Navigate(p))
    <3>1. going' = going
      BY <2>3 DEF Open, Close, Navigate, historyVars
    <3> QED BY <2>1, <3>1
  <2>4. CASE Run \/ Replace \/ (\E d \in Moves : UserGo(d)) \/ Nowhere \/ Timeout
             \/ \E m \in Modals : Check(m)
    BY <2>4 DEF Run, Replace, UserGo, Nowhere, Timeout, Check
  <2> QED BY <2>2, <2>3, <2>4 DEF Next, Settling
<1> QED BY <1>1, QuietAlways, PTL DEF Spec, PopstateClosesNobody
=============================================================================
