-------------------------- MODULE SnapshotJobsProofs --------------------------
(***************************************************************************)
(* Shared snapshots, for any number of requests and builds, any timeout    *)
(* and any set of processes that may hang.                                 *)
(***************************************************************************)
EXTENDS SnapshotJobs, TLAPS

\* Once the progress of a build is closed no thread of it is about to write meta, and
\* none about to extend the lock, unless its process hung.
ClosedInv ==
  \A j \in Jobs :
    /\ pc[j] # "building" => writer[j] # "builder"
    /\ Closed(j) => /\ writer[j] = "nobody"
                    /\ beat[j] = "off" \/ (beat[j] \in {"renew", "retake"} /\ stall[j] = "past")
    /\ pc[j] = "ended" /\ stall[j] = "no" => lock # j

\* No record names a request that has not announced a build.
Early == {"idle", "evict", "evicting", "acquire", "announce"}
EarlyInv == \A j \in Jobs : pc[j] \in Early => ~Computing(j)

\* The heartbeat of a build that goes on has stopped only for a build that is superseded, and
\* while a build keeps up, its record is no older than its last beat and a request.
AgeInv ==
  \A j \in Jobs :
    /\ pc[j] = "building" /\ beat[j] = "off" => superseded[j]
    /\ Computing(j) /\ Live(j) /\ stall[j] = "no" /\ ~superseded[j] => meta.beat <= clock[j] + Pace

IInv == TypeOK /\ ClosedInv /\ EarlyInv /\ AgeInv

-----------------------------------------------------------------------------

\* The variables keep their types.
LEMMA TypeStep == TypeOK /\ [Next]_vars => TypeOK'
<1> SUFFICES ASSUME TypeOK, [Next]_vars PROVE TypeOK'
  OBVIOUS
<1> USE SnapshotAssumption DEF TypeOK, redisVars
<1>1. ASSUME NEW j \in Jobs, ReadMeta(j) PROVE TypeOK'
  BY <1>1 DEF ReadMeta
<1>2. ASSUME NEW j \in Jobs, EvictCheck(j) PROVE TypeOK'
  BY <1>2 DEF EvictCheck
<1>3. ASSUME NEW j \in Jobs, Evict(j) PROVE TypeOK'
  BY <1>3 DEF Evict
<1>4. ASSUME NEW j \in Jobs, Acquire(j) PROVE TypeOK'
  BY <1>4 DEF Acquire
<1>5. ASSUME NEW j \in Jobs, Announce(j) PROVE TypeOK'
  BY <1>5 DEF Announce, ComputingMeta
<1>6. ASSUME NEW j \in Jobs, RenewCheck(j) PROVE TypeOK'
  BY <1>6 DEF RenewCheck
<1>7. ASSUME NEW j \in Jobs, Renew(j) PROVE TypeOK'
  BY <1>7 DEF Renew, Closed
<1>8. ASSUME NEW j \in Jobs, RetakeFails(j) PROVE TypeOK'
  BY <1>8 DEF RetakeFails
<1>9. ASSUME NEW j \in Jobs, WriteCheck(j, "heartbeat") PROVE TypeOK'
  BY <1>9 DEF WriteCheck, Beaten
<1>10. ASSUME NEW j \in Jobs, WriteCheck(j, "builder") PROVE TypeOK'
  BY <1>10 DEF WriteCheck, Beaten
<1>11. ASSUME NEW j \in Jobs, Return(j) PROVE TypeOK'
  BY <1>11 DEF Return
<1>12. ASSUME NEW j \in Jobs, WriteMeta(j) PROVE TypeOK'
  BY <1>12 DEF WriteMeta, Beaten, ComputingMeta
<1>13. ASSUME NEW j \in Jobs, StopHeartbeat(j) PROVE TypeOK'
  BY <1>13 DEF StopHeartbeat
<1>14. ASSUME NEW j \in Jobs, FinalCheck(j) PROVE TypeOK'
  BY <1>14 DEF FinalCheck
<1>15. ASSUME NEW j \in Jobs, Finish(j) PROVE TypeOK'
  BY <1>15 DEF Finish, Settled
<1>16. ASSUME NEW j \in Jobs, Fail(j) PROVE TypeOK'
  BY <1>16 DEF Fail, Settled
<1>17. ASSUME NEW j \in Jobs, ReleaseCheck(j) PROVE TypeOK'
  <2>1. CASE lock = j
    BY <1>17, <2>1 DEF ReleaseCheck
  <2>2. CASE lock # j
    <3>1. Ends(j) /\ UNCHANGED <<lock, ttl, meta, seen, beat, writer, stall, overdue>>
      BY <1>17, <2>2 DEF ReleaseCheck
    <3> QED
      BY <3>1 DEF Ends
  <2> QED
    BY <2>1, <2>2
<1>18. ASSUME NEW j \in Jobs, Release(j) PROVE TypeOK'
  BY <1>18 DEF Release, Ends
<1>19. ASSUME NEW j \in Jobs, Stall(j) PROVE TypeOK'
  BY <1>19 DEF Stall, Live
<1>20. ASSUME NEW j \in Jobs, Resume(j) PROVE TypeOK'
  BY <1>20 DEF Resume
<1>21. ASSUME NEW j \in Jobs, Die(j) PROVE TypeOK'
  BY <1>21 DEF Die, Live
<1>22. ASSUME NEW j \in Jobs, GrowOld(j) PROVE TypeOK'
  BY <1>22 DEF GrowOld
<1>23. CASE Overwrite
  BY <1>23 DEF Overwrite, Settled
<1>24. CASE Tick
  BY <1>24 DEF Tick, UpTo, Timely
<1>25. CASE UNCHANGED vars
  BY <1>25 DEF vars, redisVars
<1> QED
  BY <1>1, <1>2, <1>3, <1>4, <1>5, <1>6, <1>7, <1>8, <1>9, <1>10, <1>11, <1>12, <1>13, <1>14, <1>15, <1>16, <1>17, <1>18, <1>19, <1>20, <1>21, <1>22, <1>23, <1>24, <1>25 DEF Next, Poll, Heartbeat, Progress, End

\* What closes a build stays closed.
LEMMA ClosedStep == TypeOK /\ ClosedInv /\ [Next]_vars => ClosedInv'
<1> SUFFICES ASSUME TypeOK, ClosedInv, [Next]_vars PROVE ClosedInv'
  OBVIOUS
<1> USE SnapshotAssumption DEF TypeOK, redisVars, ClosedInv, Closed, Runs
<1>1. ASSUME NEW j \in Jobs, ReadMeta(j) PROVE ClosedInv'
  BY <1>1 DEF ReadMeta
<1>2. ASSUME NEW j \in Jobs, EvictCheck(j) PROVE ClosedInv'
  BY <1>2 DEF EvictCheck
<1>3. ASSUME NEW j \in Jobs, Evict(j) PROVE ClosedInv'
  BY <1>3 DEF Evict
<1>4. ASSUME NEW j \in Jobs, Acquire(j) PROVE ClosedInv'
  BY <1>4 DEF Acquire
<1>5. ASSUME NEW j \in Jobs, Announce(j) PROVE ClosedInv'
  BY <1>5 DEF Announce, ComputingMeta
<1>6. ASSUME NEW j \in Jobs, RenewCheck(j) PROVE ClosedInv'
  BY <1>6 DEF RenewCheck
<1>7. ASSUME NEW j \in Jobs, Renew(j) PROVE ClosedInv'
  BY <1>7 DEF Renew, Closed
<1>8. ASSUME NEW j \in Jobs, RetakeFails(j) PROVE ClosedInv'
  BY <1>8 DEF RetakeFails
<1>9. ASSUME NEW j \in Jobs, WriteCheck(j, "heartbeat") PROVE ClosedInv'
  BY <1>9 DEF WriteCheck, Beaten
<1>10. ASSUME NEW j \in Jobs, WriteCheck(j, "builder") PROVE ClosedInv'
  BY <1>10 DEF WriteCheck, Beaten
<1>11. ASSUME NEW j \in Jobs, Return(j) PROVE ClosedInv'
  BY <1>11 DEF Return
<1>12. ASSUME NEW j \in Jobs, WriteMeta(j) PROVE ClosedInv'
  BY <1>12 DEF WriteMeta, Beaten, ComputingMeta
<1>13. ASSUME NEW j \in Jobs, StopHeartbeat(j) PROVE ClosedInv'
  BY <1>13 DEF StopHeartbeat
<1>14. ASSUME NEW j \in Jobs, FinalCheck(j) PROVE ClosedInv'
  BY <1>14 DEF FinalCheck
<1>15. ASSUME NEW j \in Jobs, Finish(j) PROVE ClosedInv'
  BY <1>15 DEF Finish, Settled
<1>16. ASSUME NEW j \in Jobs, Fail(j) PROVE ClosedInv'
  BY <1>16 DEF Fail, Settled
<1>17. ASSUME NEW j \in Jobs, ReleaseCheck(j) PROVE ClosedInv'
  BY <1>17 DEF ReleaseCheck, Ends
<1>18. ASSUME NEW j \in Jobs, Release(j) PROVE ClosedInv'
  BY <1>18 DEF Release, Ends
<1>19. ASSUME NEW j \in Jobs, Stall(j) PROVE ClosedInv'
  BY <1>19 DEF Stall, Live
<1>20. ASSUME NEW j \in Jobs, Resume(j) PROVE ClosedInv'
  BY <1>20 DEF Resume
<1>21. ASSUME NEW j \in Jobs, Die(j) PROVE ClosedInv'
  BY <1>21 DEF Die, Live
<1>22. ASSUME NEW j \in Jobs, GrowOld(j) PROVE ClosedInv'
  BY <1>22 DEF GrowOld
<1>23. CASE Overwrite
  BY <1>23 DEF Overwrite, Settled
<1>24. CASE Tick
  BY <1>24 DEF Tick, UpTo, Timely
<1>25. CASE UNCHANGED vars
  BY <1>25 DEF vars, redisVars
<1> QED
  BY <1>1, <1>2, <1>3, <1>4, <1>5, <1>6, <1>7, <1>8, <1>9, <1>10, <1>11, <1>12, <1>13, <1>14, <1>15, <1>16, <1>17, <1>18, <1>19, <1>20, <1>21, <1>22, <1>23, <1>24, <1>25 DEF Next, Poll, Heartbeat, Progress, End

\* A record in the name of a build is written by the build only.
LEMMA EarlyStep == TypeOK /\ ClosedInv /\ EarlyInv /\ [Next]_vars => EarlyInv'
<1> SUFFICES ASSUME TypeOK, ClosedInv, EarlyInv, [Next]_vars PROVE EarlyInv'
  OBVIOUS
<1> USE SnapshotAssumption DEF TypeOK, redisVars, ClosedInv, Closed, EarlyInv, Early, Computing
<1>1. ASSUME NEW j \in Jobs, ReadMeta(j) PROVE EarlyInv'
  BY <1>1 DEF ReadMeta
<1>2. ASSUME NEW j \in Jobs, EvictCheck(j) PROVE EarlyInv'
  BY <1>2 DEF EvictCheck
<1>3. ASSUME NEW j \in Jobs, Evict(j) PROVE EarlyInv'
  BY <1>3 DEF Evict
<1>4. ASSUME NEW j \in Jobs, Acquire(j) PROVE EarlyInv'
  BY <1>4 DEF Acquire
<1>5. ASSUME NEW j \in Jobs, Announce(j) PROVE EarlyInv'
  BY <1>5 DEF Announce, ComputingMeta
<1>6. ASSUME NEW j \in Jobs, RenewCheck(j) PROVE EarlyInv'
  BY <1>6 DEF RenewCheck
<1>7. ASSUME NEW j \in Jobs, Renew(j) PROVE EarlyInv'
  BY <1>7 DEF Renew, Closed
<1>8. ASSUME NEW j \in Jobs, RetakeFails(j) PROVE EarlyInv'
  BY <1>8 DEF RetakeFails
<1>9. ASSUME NEW j \in Jobs, WriteCheck(j, "heartbeat") PROVE EarlyInv'
  BY <1>9 DEF WriteCheck, Beaten
<1>10. ASSUME NEW j \in Jobs, WriteCheck(j, "builder") PROVE EarlyInv'
  BY <1>10 DEF WriteCheck, Beaten
<1>11. ASSUME NEW j \in Jobs, Return(j) PROVE EarlyInv'
  BY <1>11 DEF Return
<1>12. ASSUME NEW j \in Jobs, WriteMeta(j) PROVE EarlyInv'
  BY <1>12 DEF WriteMeta, Beaten, ComputingMeta
<1>13. ASSUME NEW j \in Jobs, StopHeartbeat(j) PROVE EarlyInv'
  BY <1>13 DEF StopHeartbeat
<1>14. ASSUME NEW j \in Jobs, FinalCheck(j) PROVE EarlyInv'
  BY <1>14 DEF FinalCheck
<1>15. ASSUME NEW j \in Jobs, Finish(j) PROVE EarlyInv'
  BY <1>15 DEF Finish, Settled
<1>16. ASSUME NEW j \in Jobs, Fail(j) PROVE EarlyInv'
  BY <1>16 DEF Fail, Settled
<1>17. ASSUME NEW j \in Jobs, ReleaseCheck(j) PROVE EarlyInv'
  BY <1>17 DEF ReleaseCheck, Ends
<1>18. ASSUME NEW j \in Jobs, Release(j) PROVE EarlyInv'
  BY <1>18 DEF Release, Ends
<1>19. ASSUME NEW j \in Jobs, Stall(j) PROVE EarlyInv'
  BY <1>19 DEF Stall, Live
<1>20. ASSUME NEW j \in Jobs, Resume(j) PROVE EarlyInv'
  BY <1>20 DEF Resume
<1>21. ASSUME NEW j \in Jobs, Die(j) PROVE EarlyInv'
  BY <1>21 DEF Die, Live
<1>22. ASSUME NEW j \in Jobs, GrowOld(j) PROVE EarlyInv'
  BY <1>22 DEF GrowOld
<1>23. CASE Overwrite
  BY <1>23 DEF Overwrite, Settled
<1>24. CASE Tick
  BY <1>24 DEF Tick, UpTo, Timely
<1>25. CASE UNCHANGED vars
  BY <1>25 DEF vars, redisVars
<1> QED
  BY <1>1, <1>2, <1>3, <1>4, <1>5, <1>6, <1>7, <1>8, <1>9, <1>10, <1>11, <1>12, <1>13, <1>14, <1>15, <1>16, <1>17, <1>18, <1>19, <1>20, <1>21, <1>22, <1>23, <1>24, <1>25 DEF Next, Poll, Heartbeat, Progress, End

\* Heartbeats come in time.
LEMMA AgeStep == IInv /\ [Next]_vars => AgeInv'
<1> SUFFICES ASSUME IInv, [Next]_vars PROVE AgeInv'
  OBVIOUS
<1> USE SnapshotAssumption DEF IInv, TypeOK, redisVars, ClosedInv, Closed, EarlyInv, Early, AgeInv, Computing, Live, Runs
<1>1. ASSUME NEW j \in Jobs, ReadMeta(j) PROVE AgeInv'
  BY <1>1 DEF ReadMeta
<1>2. ASSUME NEW j \in Jobs, EvictCheck(j) PROVE AgeInv'
  BY <1>2 DEF EvictCheck
<1>3. ASSUME NEW j \in Jobs, Evict(j) PROVE AgeInv'
  BY <1>3 DEF Evict
<1>4. ASSUME NEW j \in Jobs, Acquire(j) PROVE AgeInv'
  BY <1>4 DEF Acquire
<1>5. ASSUME NEW j \in Jobs, Announce(j) PROVE AgeInv'
  BY <1>5 DEF Announce, ComputingMeta
<1>6. ASSUME NEW j \in Jobs, RenewCheck(j) PROVE AgeInv'
  <2>1. beat'[j] = "off" => superseded'[j]
    BY <1>6 DEF RenewCheck
  <2>2. superseded[j] => superseded'[j]
    BY <1>6 DEF RenewCheck
  <2>3. \A k \in Jobs \ {j} : beat'[k] = beat[k] /\ superseded'[k] = superseded[k]
    BY <1>6 DEF RenewCheck
  <2> QED
    BY <1>6, <2>1, <2>2, <2>3 DEF RenewCheck
<1>7. ASSUME NEW j \in Jobs, Renew(j) PROVE AgeInv'
  BY <1>7 DEF Renew, Closed
<1>8. ASSUME NEW j \in Jobs, RetakeFails(j) PROVE AgeInv'
  BY <1>8 DEF RetakeFails
<1>9. ASSUME NEW j \in Jobs, WriteCheck(j, "heartbeat") PROVE AgeInv'
  BY <1>9 DEF WriteCheck, Beaten
<1>10. ASSUME NEW j \in Jobs, WriteCheck(j, "builder") PROVE AgeInv'
  BY <1>10 DEF WriteCheck, Beaten
<1>11. ASSUME NEW j \in Jobs, Return(j) PROVE AgeInv'
  BY <1>11 DEF Return
<1>12. ASSUME NEW j \in Jobs, WriteMeta(j) PROVE AgeInv'
  BY <1>12 DEF WriteMeta, Beaten, ComputingMeta
<1>13. ASSUME NEW j \in Jobs, StopHeartbeat(j) PROVE AgeInv'
  BY <1>13 DEF StopHeartbeat
<1>14. ASSUME NEW j \in Jobs, FinalCheck(j) PROVE AgeInv'
  BY <1>14 DEF FinalCheck
<1>15. ASSUME NEW j \in Jobs, Finish(j) PROVE AgeInv'
  BY <1>15 DEF Finish, Settled
<1>16. ASSUME NEW j \in Jobs, Fail(j) PROVE AgeInv'
  BY <1>16 DEF Fail, Settled
<1>17. ASSUME NEW j \in Jobs, ReleaseCheck(j) PROVE AgeInv'
  BY <1>17 DEF ReleaseCheck, Ends
<1>18. ASSUME NEW j \in Jobs, Release(j) PROVE AgeInv'
  BY <1>18 DEF Release, Ends
<1>19. ASSUME NEW j \in Jobs, Stall(j) PROVE AgeInv'
  BY <1>19 DEF Stall, Live
<1>20. ASSUME NEW j \in Jobs, Resume(j) PROVE AgeInv'
  BY <1>20 DEF Resume
<1>21. ASSUME NEW j \in Jobs, Die(j) PROVE AgeInv'
  BY <1>21 DEF Die, Live
<1>22. ASSUME NEW j \in Jobs, GrowOld(j) PROVE AgeInv'
  BY <1>22 DEF GrowOld
<1>23. CASE Overwrite
  BY <1>23 DEF Overwrite, Settled
<1>24. CASE Tick
  BY <1>24 DEF Tick, UpTo, Timely
<1>25. CASE UNCHANGED vars
  BY <1>25 DEF vars, redisVars
<1> QED
  BY <1>1, <1>2, <1>3, <1>4, <1>5, <1>6, <1>7, <1>8, <1>9, <1>10, <1>11, <1>12, <1>13, <1>14, <1>15, <1>16, <1>17, <1>18, <1>19, <1>20, <1>21, <1>22, <1>23, <1>24, <1>25 DEF Next, Poll, Heartbeat, Progress, End

\* Every reachable state satisfies the invariant.
THEOREM Inductive == Spec => []IInv
<1>1. Init => IInv
  BY SnapshotAssumption DEF Init, IInv, TypeOK, ClosedInv, EarlyInv, AgeInv, Computing, Settled, Live, Closed
<1>2. IInv /\ [Next]_vars => IInv'
  BY TypeStep, ClosedStep, EarlyStep, AgeStep DEF IInv
<1> QED
  BY <1>1, <1>2, PTL DEF Spec

\* The type invariant.
THEOREM TypeCorrect == Spec => []TypeOK
<1>1. IInv => TypeOK
  BY DEF IInv
<1> QED
  BY <1>1, Inductive, PTL

\* _meta_alive never takes the build of a process that keeps up for dead.
THEOREM LiveOwnersLookAlive == Spec => []LiveOwnerLooksAlive
<1>1. IInv => LiveOwnerLooksAlive
  BY SnapshotAssumption DEF IInv, TypeOK, AgeInv, LiveOwnerLooksAlive, Timely
<1> QED
  BY <1>1, Inductive, PTL

\* _stop_heartbeat: nothing of a build follows its final record and the release of its lock.
THEOREM DoneStays == Spec => DoneStaysDone
<1>1. IInv /\ IInv' /\ [Next]_vars =>
        [\A j \in Jobs :
           /\ pc[j] \in {"check", "finish", "fail", "release", "releasing", "ended"}
                => (Computing(j)' => Computing(j))
           /\ pc[j] = "ended" /\ stall[j] = "no" => lock' # j]_vars
  <2> SUFFICES ASSUME IInv, IInv', [Next]_vars, NEW k \in Jobs
               PROVE  /\ pc[k] \in {"check", "finish", "fail", "release", "releasing", "ended"}
                           => (Computing(k)' => Computing(k))
                      /\ pc[k] = "ended" /\ stall[k] = "no" => lock' # k
    OBVIOUS
  <2> USE SnapshotAssumption DEF IInv, TypeOK, redisVars, ClosedInv, Closed, Computing
  <2>1. ASSUME NEW j \in Jobs, ReadMeta(j) PROVE /\ pc[k] \in {"check", "finish", "fail", "release", "releasing", "ended"} => (Computing(k)' => Computing(k)) /\ (pc[k] = "ended" /\ stall[k] = "no" => lock' # k)
    BY <2>1 DEF ReadMeta
  <2>2. ASSUME NEW j \in Jobs, EvictCheck(j) PROVE /\ pc[k] \in {"check", "finish", "fail", "release", "releasing", "ended"} => (Computing(k)' => Computing(k)) /\ (pc[k] = "ended" /\ stall[k] = "no" => lock' # k)
    BY <2>2 DEF EvictCheck
  <2>3. ASSUME NEW j \in Jobs, Evict(j) PROVE /\ pc[k] \in {"check", "finish", "fail", "release", "releasing", "ended"} => (Computing(k)' => Computing(k)) /\ (pc[k] = "ended" /\ stall[k] = "no" => lock' # k)
    BY <2>3 DEF Evict
  <2>4. ASSUME NEW j \in Jobs, Acquire(j) PROVE /\ pc[k] \in {"check", "finish", "fail", "release", "releasing", "ended"} => (Computing(k)' => Computing(k)) /\ (pc[k] = "ended" /\ stall[k] = "no" => lock' # k)
    BY <2>4 DEF Acquire
  <2>5. ASSUME NEW j \in Jobs, Announce(j) PROVE /\ pc[k] \in {"check", "finish", "fail", "release", "releasing", "ended"} => (Computing(k)' => Computing(k)) /\ (pc[k] = "ended" /\ stall[k] = "no" => lock' # k)
    BY <2>5 DEF Announce, ComputingMeta
  <2>6. ASSUME NEW j \in Jobs, RenewCheck(j) PROVE /\ pc[k] \in {"check", "finish", "fail", "release", "releasing", "ended"} => (Computing(k)' => Computing(k)) /\ (pc[k] = "ended" /\ stall[k] = "no" => lock' # k)
    BY <2>6 DEF RenewCheck
  <2>7. ASSUME NEW j \in Jobs, Renew(j) PROVE /\ pc[k] \in {"check", "finish", "fail", "release", "releasing", "ended"} => (Computing(k)' => Computing(k)) /\ (pc[k] = "ended" /\ stall[k] = "no" => lock' # k)
    BY <2>7 DEF Renew, Closed
  <2>8. ASSUME NEW j \in Jobs, RetakeFails(j) PROVE /\ pc[k] \in {"check", "finish", "fail", "release", "releasing", "ended"} => (Computing(k)' => Computing(k)) /\ (pc[k] = "ended" /\ stall[k] = "no" => lock' # k)
    BY <2>8 DEF RetakeFails
  <2>9. ASSUME NEW j \in Jobs, WriteCheck(j, "heartbeat") PROVE /\ pc[k] \in {"check", "finish", "fail", "release", "releasing", "ended"} => (Computing(k)' => Computing(k)) /\ (pc[k] = "ended" /\ stall[k] = "no" => lock' # k)
    BY <2>9 DEF WriteCheck, Beaten
  <2>10. ASSUME NEW j \in Jobs, WriteCheck(j, "builder") PROVE /\ pc[k] \in {"check", "finish", "fail", "release", "releasing", "ended"} => (Computing(k)' => Computing(k)) /\ (pc[k] = "ended" /\ stall[k] = "no" => lock' # k)
    BY <2>10 DEF WriteCheck, Beaten
  <2>11. ASSUME NEW j \in Jobs, Return(j) PROVE /\ pc[k] \in {"check", "finish", "fail", "release", "releasing", "ended"} => (Computing(k)' => Computing(k)) /\ (pc[k] = "ended" /\ stall[k] = "no" => lock' # k)
    BY <2>11 DEF Return
  <2>12. ASSUME NEW j \in Jobs, WriteMeta(j) PROVE /\ pc[k] \in {"check", "finish", "fail", "release", "releasing", "ended"} => (Computing(k)' => Computing(k)) /\ (pc[k] = "ended" /\ stall[k] = "no" => lock' # k)
    BY <2>12 DEF WriteMeta, Beaten, ComputingMeta
  <2>13. ASSUME NEW j \in Jobs, StopHeartbeat(j) PROVE /\ pc[k] \in {"check", "finish", "fail", "release", "releasing", "ended"} => (Computing(k)' => Computing(k)) /\ (pc[k] = "ended" /\ stall[k] = "no" => lock' # k)
    BY <2>13 DEF StopHeartbeat
  <2>14. ASSUME NEW j \in Jobs, FinalCheck(j) PROVE /\ pc[k] \in {"check", "finish", "fail", "release", "releasing", "ended"} => (Computing(k)' => Computing(k)) /\ (pc[k] = "ended" /\ stall[k] = "no" => lock' # k)
    BY <2>14 DEF FinalCheck
  <2>15. ASSUME NEW j \in Jobs, Finish(j) PROVE /\ pc[k] \in {"check", "finish", "fail", "release", "releasing", "ended"} => (Computing(k)' => Computing(k)) /\ (pc[k] = "ended" /\ stall[k] = "no" => lock' # k)
    BY <2>15 DEF Finish, Settled
  <2>16. ASSUME NEW j \in Jobs, Fail(j) PROVE /\ pc[k] \in {"check", "finish", "fail", "release", "releasing", "ended"} => (Computing(k)' => Computing(k)) /\ (pc[k] = "ended" /\ stall[k] = "no" => lock' # k)
    BY <2>16 DEF Fail, Settled
  <2>17. ASSUME NEW j \in Jobs, ReleaseCheck(j) PROVE /\ pc[k] \in {"check", "finish", "fail", "release", "releasing", "ended"} => (Computing(k)' => Computing(k)) /\ (pc[k] = "ended" /\ stall[k] = "no" => lock' # k)
    BY <2>17 DEF ReleaseCheck, Ends
  <2>18. ASSUME NEW j \in Jobs, Release(j) PROVE /\ pc[k] \in {"check", "finish", "fail", "release", "releasing", "ended"} => (Computing(k)' => Computing(k)) /\ (pc[k] = "ended" /\ stall[k] = "no" => lock' # k)
    BY <2>18 DEF Release, Ends
  <2>19. ASSUME NEW j \in Jobs, Stall(j) PROVE /\ pc[k] \in {"check", "finish", "fail", "release", "releasing", "ended"} => (Computing(k)' => Computing(k)) /\ (pc[k] = "ended" /\ stall[k] = "no" => lock' # k)
    BY <2>19 DEF Stall, Live
  <2>20. ASSUME NEW j \in Jobs, Resume(j) PROVE /\ pc[k] \in {"check", "finish", "fail", "release", "releasing", "ended"} => (Computing(k)' => Computing(k)) /\ (pc[k] = "ended" /\ stall[k] = "no" => lock' # k)
    BY <2>20 DEF Resume
  <2>21. ASSUME NEW j \in Jobs, Die(j) PROVE /\ pc[k] \in {"check", "finish", "fail", "release", "releasing", "ended"} => (Computing(k)' => Computing(k)) /\ (pc[k] = "ended" /\ stall[k] = "no" => lock' # k)
    BY <2>21 DEF Die, Live
  <2>22. ASSUME NEW j \in Jobs, GrowOld(j) PROVE /\ pc[k] \in {"check", "finish", "fail", "release", "releasing", "ended"} => (Computing(k)' => Computing(k)) /\ (pc[k] = "ended" /\ stall[k] = "no" => lock' # k)
    BY <2>22 DEF GrowOld
  <2>23. CASE Overwrite
    BY <2>23 DEF Overwrite, Settled
  <2>24. CASE Tick
    BY <2>24 DEF Tick, UpTo, Timely
  <2>25. CASE UNCHANGED vars
    BY <2>25 DEF vars, redisVars
  <2> QED
    BY <2>1, <2>2, <2>3, <2>4, <2>5, <2>6, <2>7, <2>8, <2>9, <2>10, <2>11, <2>12, <2>13, <2>14, <2>15, <2>16, <2>17, <2>18, <2>19, <2>20, <2>21, <2>22, <2>23, <2>24, <2>25 DEF Next, Poll, Heartbeat, Progress, End
<1> QED
  BY <1>1, Inductive, PTL DEF Spec, DoneStaysDone
=============================================================================
