--------------------------- MODULE WorkQueue_proofs ---------------------------
(***************************************************************************)
(* Machine-checked proofs about WorkQueue, for any number of rows,         *)
(* instances, slots and attempts and for every set of Faults.              *)
(***************************************************************************)
EXTENDS WorkQueue, TLAPS

-----------------------------------------------------------------------------
(* What the operators on rows and executions return.                       *)

\* An execution belongs to an instance.
LEMMA HomeType == \A e \in Execs : Home(e) \in Procs
  BY ExecsAssumption DEF Home

\* Counting an attempt stays below the cap.
LEMMA BumpType ==
  ASSUME NEW n \in 0 .. AttemptCap
  PROVE  Bump(n) \in 0 .. AttemptCap
  BY AttemptsAssumption DEF Bump

\* Every writer of the table writes a row.
LEMMA UnclockedType == \A r \in Row : Unclocked(r) \in Row
  BY DEF Unclocked, Row

LEMMA UnleasedType == \A r \in Row : Unleased(r) \in Row
  BY DEF Unleased, Row

LEMMA GivenUpType ==
  ASSUME NEW r \in Row, NEW st \in {"pending"} \cup Terminal
  PROVE  GivenUp(r, st) \in Row
  <1> DEFINE n == Bump(r.attempts)
  <1>1. n \in 0 .. AttemptCap
    BY BumpType DEF Row
  <1> HIDE DEF n
  <1>2. [r EXCEPT !.status = st, !.attempts = n] \in Row
    BY <1>1 DEF Row
  <1> QED
    BY <1>2, UnclockedType DEF GivenUp, n

LEMMA HandedBackType == \A r \in Row : HandedBack(r) \in Row
  BY GivenUpType, UnleasedType DEF HandedBack

LEMMA ZombieType == \A r \in Row : Zombie(r) \in Row
  BY GivenUpType DEF Zombie, Terminal

LEMMA TakenType ==
  ASSUME NEW r \in Row, NEW st \in {"leased", "processing"}, NEW p \in Procs,
         NEW s \in Stamps \cup {AtDequeue}
  PROVE  Taken(r, st, p, s) \in Row
  BY DEF Taken, Row

LEMMA PingedType ==
  ASSUME NEW r \in Row, NEW ls \in {"live", "expired"}
  PROVE  Pinged(r, ls) \in Row
  BY DEF Pinged, Row

LEMMA DeadLetteredType ==
  ASSUME NEW r \in Row, NEW n \in 0 .. AttemptCap
  PROVE  DeadLettered(r, n) \in Row
  <1>1. Bump(n) \in 0 .. AttemptCap
    BY BumpType
  <1> QED
    BY <1>1 DEF DeadLettered, Row, Terminal

LEMMA RetriedType ==
  ASSUME NEW r \in Row, NEW n \in 0 .. AttemptCap
  PROVE  Retried(r, n) \in Row
  <1>1. Bump(n) \in 0 .. AttemptCap
    BY BumpType
  <1> QED
    BY <1>1 DEF Retried, Row

LEMMA IdleType == Idle \in ExecRecord /\ Idle.pc = "idle"
  BY AttemptsAssumption DEF Idle, ExecRecord

LEMMA DispatchedType ==
  ASSUME NEW n \in 0 .. AttemptCap, NEW j \in Jobs
  PROVE  /\ Dispatched(n, j) \in ExecRecord
         /\ Dispatched(n, j).job = j
         /\ Dispatched(n, j).pc = "dispatched"
  BY AttemptsAssumption DEF Dispatched, Idle, ExecRecord

LEMMA BegunType ==
  ASSUME NEW x \in ExecRecord, NEW s \in Stamps
  PROVE  /\ Begun(x, s) \in ExecRecord
         /\ Begun(x, s).job = x.job
         /\ Begun(x, s).pc = "running"
         /\ Begun(x, s).stamp = s
  BY DEF Begun, ExecRecord

\* A cancelled row is one that waited; nothing else moves.
LEMMA CancelMoves ==
  ASSUME TypeOK, CancelPending
  PROVE  /\ row' \in [Jobs -> Row]
         /\ \A k \in Jobs : \/ row'[k] = row[k]
                            \/ row[k].status = "pending" /\ row'[k].status = "cancelled"
         /\ UNCHANGED <<holder, exec, proc, cycle, poll, force>>
  <1>1. PICK S \in SUBSET {j \in Jobs : row[j].status = "pending"} :
          /\ row' = [j \in Jobs |-> IF j \in S THEN [row[j] EXCEPT !.status = "cancelled"]
                                           ELSE row[j]]
          /\ UNCHANGED <<holder, exec, proc, cycle, poll, force>>
    BY DEF CancelPending
  <1>2. \A r \in Row : /\ [r EXCEPT !.status = "cancelled"] \in Row
                       /\ [r EXCEPT !.status = "cancelled"].status = "cancelled"
    BY DEF Row, Terminal
  <1>3. \A k \in Jobs : row[k] \in Row
    BY DEF TypeOK
  <1>4. ASSUME NEW k \in Jobs
        PROVE  \/ row'[k] = row[k]
               \/ row[k].status = "pending" /\ row'[k].status = "cancelled"
    BY <1>1, <1>2, <1>3
  <1>5. \A k \in Jobs : (IF k \in S THEN [row[k] EXCEPT !.status = "cancelled"]
                                   ELSE row[k]) \in Row
    BY <1>2, <1>3
  <1>6. row' \in [Jobs -> Row]
    BY <1>1, <1>5, Zenon
  <1>7. UNCHANGED <<holder, exec, proc, cycle, poll, force>>
    BY <1>1
  <1> QED
    BY <1>4, <1>6, <1>7

-----------------------------------------------------------------------------
(* TypeOK is an invariant.                                                 *)

LEMMA TypeInit == Init => TypeOK
  BY AttemptsAssumption, IdleType DEF Init, TypeOK, NoRow, Row, Idle

LEMMA TypeStep == ASSUME TypeOK, [Next]_vars PROVE TypeOK'
  <1>1. ASSUME NEW j \in Jobs, Enqueue(j) PROVE TypeOK'
    <2>1. \A d \in BOOLEAN : [NoRow EXCEPT !.status = "pending", !.due = d] \in Row
      <3>1. NoRow \in Row
        BY AttemptsAssumption DEF NoRow, Row
      <3> QED
        BY <3>1 DEF Row
    <2> QED
      BY <1>1, <2>1 DEF Enqueue, TypeOK
  <1>2. ASSUME NEW j \in Jobs, Replay(j) PROVE TypeOK'
    <2>1. [Unleased(row[j]) EXCEPT !.attempts = 0, !.due = TRUE] \in Row
      <3>1. Unleased(row[j]) \in Row
        BY UnleasedType DEF TypeOK
      <3>2. 0 \in 0 .. AttemptCap
        BY AttemptsAssumption
      <3> QED
        BY <3>1, <3>2 DEF Row
    <2> QED
      BY <1>2, <2>1 DEF Replay, TypeOK
  <1>c. ASSUME CancelPending PROVE TypeOK'
    BY <1>c, CancelMoves DEF TypeOK
  <1>3. ASSUME NEW j \in Jobs, ForceRead(j) PROVE TypeOK'
    BY <1>3 DEF ForceRead, TypeOK
  <1>4. ASSUME NEW j \in Jobs, ForceWrite(j) PROVE TypeOK'
    <2>1. \A k \in Jobs : GivenUp(row[k], "failed") \in Row /\ HandedBack(row[k]) \in Row
      BY GivenUpType, HandedBackType DEF TypeOK, Terminal
    <2>2. row' \in [Jobs -> Row]
      BY <1>4, <2>1 DEF ForceWrite, TypeOK
    <2> QED
      BY <1>4, <2>2 DEF ForceWrite, Vacate, TypeOK
  <1>5. ASSUME NEW j \in Jobs,
               LeaseLapses(j) \/ HeartbeatFades(j) \/ RowOverruns(j) \/ RetryComesDue(j)
        PROVE  TypeOK'
    <2>1. /\ [row[j] EXCEPT !.lease = "expired"] \in Row
          /\ [row[j] EXCEPT !.silent = TRUE] \in Row
          /\ [row[j] EXCEPT !.over = TRUE] \in Row
          /\ [row[j] EXCEPT !.due = TRUE] \in Row
      <3>1. row[j] \in Row
        BY DEF TypeOK
      <3> QED
        BY <3>1 DEF Row
    <2> QED
      BY <1>5, <2>1 DEF LeaseLapses, HeartbeatFades, RowOverruns, RetryComesDue, TypeOK
  <1>6. ASSUME NEW e \in Execs, HandlerOverruns(e) PROVE TypeOK'
    <2>1. /\ [exec[e] EXCEPT !.over = TRUE] \in ExecRecord
          /\ [exec[e] EXCEPT !.over = TRUE].job = exec[e].job
          /\ [exec[e] EXCEPT !.over = TRUE].pc = exec[e].pc
      BY DEF TypeOK, ExecRecord
    <2> QED
      BY <1>6, <2>1 DEF HandlerOverruns, TypeOK
  <1>7. ASSUME NEW p \in Procs, SweepExhaust(p) PROVE TypeOK'
    <2>1. \A j \in Jobs : GivenUp(row[j], "failed") \in Row
      BY GivenUpType DEF TypeOK, Terminal
    <2>2. row' \in [Jobs -> Row]
      BY <1>7, <2>1 DEF SweepExhaust, TypeOK
    <2> QED
      BY <1>7, <2>2 DEF SweepExhaust, Vacate, TypeOK
  <1>8. ASSUME NEW p \in Procs, SweepRelease(p) PROVE TypeOK'
    <2>1. row' \in [Jobs -> Row]
      BY <1>8, HandedBackType DEF SweepRelease, TypeOK
    <2> QED
      BY <1>8, <2>1 DEF SweepRelease, Vacate, TypeOK
  <1>9. ASSUME NEW p \in Procs, CycleEnd(p) \/ PollStart(p) \/ PollEnd(p) PROVE TypeOK'
    BY <1>9 DEF CycleEnd, PollStart, PollEnd, TypeOK
  <1>10. ASSUME NEW e \in Execs, Dequeue(e) \/ PollDequeue(e) PROVE TypeOK'
    <2>1. PICK j \in Jobs : Lease(e, j)
      BY <1>10, JobsAssumption DEF Dequeue, PollDequeue, NextJobs, Due, Lapsed
    <2>2. Taken(row[j], "leased", Home(e), AtDequeue) \in Row
      BY TakenType, HomeType DEF TypeOK
    <2>3. row[j].attempts \in 0 .. AttemptCap
      BY DEF TypeOK, Row
    <2> QED
      BY <1>10, <2>1, <2>2, <2>3, DispatchedType
      DEF Dequeue, PollDequeue, Lease, TypeOK
  <1>11. ASSUME NEW e \in Execs, StartWrite(e) PROVE TypeOK'
    <2>1. exec[e].job \in Jobs
      BY <1>11 DEF StartWrite, TypeOK
    <2>2. \A s \in Stamps : Taken(row[exec[e].job], "processing", Home(e), s) \in Row
      BY <2>1, TakenType, HomeType DEF TypeOK
    <2>3. \A s \in FreshStamps(Home(e)) : s \in Stamps
      BY DEF FreshStamps
    <2> QED
      BY <1>11, <2>1, <2>2, <2>3, BegunType DEF StartWrite, TypeOK
  <1>12. ASSUME NEW e \in Execs, NoHandlerFail(e) PROVE TypeOK'
    <2>1. exec[e].job \in Jobs
      BY <1>12 DEF NoHandlerFail, TypeOK
    <2>2. [row[exec[e].job] EXCEPT !.status = "failed"] \in Row
      BY <2>1 DEF TypeOK, Row, Terminal
    <2> QED
      BY <1>12, <2>1, <2>2, UnclockedType, IdleType
      DEF NoHandlerFail, Ends, TypeOK
  <1>13. ASSUME NEW e \in Execs, StartFails(e) \/ OutcomeIgnored(e) \/ OutcomeLost(e)
         PROVE  TypeOK'
    BY <1>13, IdleType DEF StartFails, OutcomeIgnored, OutcomeLost, Ends, TypeOK
  <1>14. ASSUME NEW e \in Execs, Heartbeat(e) \/ HeartbeatAborts(e) PROVE TypeOK'
    <2>1. exec[e].job \in Jobs
      BY <1>14 DEF Heartbeat, HeartbeatAborts, Running, TypeOK
    <2>2. \A ls \in {"live", "expired"} : Pinged(row[exec[e].job], ls) \in Row
      BY <2>1, PingedType DEF TypeOK
    <2>3. /\ [exec[e] EXCEPT !.beating = FALSE] \in ExecRecord
          /\ [exec[e] EXCEPT !.beating = FALSE].job = exec[e].job
          /\ [exec[e] EXCEPT !.beating = FALSE].pc = exec[e].pc
      BY DEF TypeOK, ExecRecord
    <2> QED
      BY <1>14, <2>1, <2>2, <2>3 DEF Heartbeat, HeartbeatAborts, TypeOK
  <1>15. ASSUME NEW e \in Execs, NEW r \in Row, Outcome(e, r) PROVE TypeOK'
    BY <1>15, UnclockedType, IdleType DEF Outcome, Ends, TypeOK
  <1>16. ASSUME NEW e \in Execs, Complete(e) \/ DeadLetter(e) \/ Retry(e) PROVE TypeOK'
    <2>1. exec[e].job \in Jobs /\ exec[e].attempts \in 0 .. AttemptCap
      BY <1>16 DEF Complete, DeadLetter, Retry, Running, TypeOK, ExecRecord
    <2>2. [row[exec[e].job] EXCEPT !.status = "completed"] \in Row
      BY <2>1 DEF TypeOK, Row, Terminal
    <2>3. /\ DeadLettered(row[exec[e].job], exec[e].attempts) \in Row
          /\ Retried(row[exec[e].job], exec[e].attempts) \in Row
      BY <2>1, DeadLetteredType, RetriedType DEF TypeOK
    <2> QED
      BY <1>15, <1>16, <2>2, <2>3 DEF Complete, DeadLetter, Retry
  <1>17. ASSUME NEW p \in Procs, BootZombies(p) PROVE TypeOK'
    <2>1. row' \in [Jobs -> Row]
      BY <1>17, ZombieType DEF BootZombies, TypeOK
    <2> QED
      BY <1>17, <2>1 DEF BootZombies, Vacate, TypeOK
  <1>18. ASSUME NEW p \in Procs, BootOrphans(p) PROVE TypeOK'
    <2>1. row' \in [Jobs -> Row]
      BY <1>18, UnleasedType DEF BootOrphans, TypeOK
    <2> QED
      BY <1>18, <2>1 DEF BootOrphans, Vacate, TypeOK
  <1>19. ASSUME NEW p \in Procs, BootUncleaned(p) \/ Stop(p) PROVE TypeOK'
    BY <1>19 DEF BootUncleaned, Stop, TypeOK
  <1>20. ASSUME NEW p \in Procs, Release(p) \/ ReleaseFails(p) PROVE TypeOK'
    <2>1. HeartbeatsStop(p)
      BY <1>20 DEF Release, ReleaseFails
    <2>2. exec' \in [Execs -> ExecRecord]
      <3>1. \A x \in ExecRecord : [x EXCEPT !.beating = FALSE] \in ExecRecord
        BY DEF ExecRecord
      <3> QED
        BY <2>1, <3>1 DEF HeartbeatsStop, TypeOK
    <2>3. \A e \in Execs : exec'[e].pc = exec[e].pc /\ exec'[e].job = exec[e].job
      BY <2>1 DEF HeartbeatsStop, TypeOK, ExecRecord
    <2>4. row' \in [Jobs -> Row]
      BY <1>20, UnleasedType DEF Release, ReleaseFails, TypeOK
    <2> QED
      BY <1>20, <2>2, <2>3, <2>4 DEF Release, ReleaseFails, Vacate, TypeOK
  <1>21. ASSUME NEW p \in Procs, Exit(p) \/ Crash(p) PROVE TypeOK'
    <2>1. PICK how \in {"exited", "crashed"} : Gone(p, how)
      BY <1>21 DEF Exit, Crash
    <2>2. exec' \in [Execs -> ExecRecord]
      BY <2>1, IdleType DEF Gone, TypeOK
    <2>3. \A e \in Execs : exec'[e].pc # "idle" => exec'[e].job \in Jobs
      BY <2>1, IdleType DEF Gone, TypeOK
    <2> QED
      BY <2>1, <2>2, <2>3 DEF Gone, TypeOK
  <1>22. CASE UNCHANGED vars
    BY <1>22 DEF vars, TypeOK
  <1> QED
    BY <1>1, <1>2, <1>c, <1>3, <1>4, <1>5, <1>6, <1>7, <1>8, <1>9, <1>10, <1>11,
       <1>12, <1>13, <1>14, <1>16, <1>17, <1>18, <1>19, <1>20, <1>21, <1>22
    DEF Next, Time, Client, Loops, Execution, Lifecycle

\* Every variable keeps its type.
THEOREM TypeCorrect == Spec => []TypeOK
  BY TypeInit, TypeStep, PTL DEF Spec

-----------------------------------------------------------------------------
(* The lease guard.  FencedOutcome is preserved by every step that takes a *)
(* row out of "processing" or leaves its lease alone (RowsKept) and starts *)
(* no execution (ExecsKept); the start write is the one step that is       *)
(* neither, and there the new stamp is what tells the executions of one    *)
(* instance apart.                                                         *)

RowsKept ==
  \A j \in Jobs :
    row'[j].status = "processing" =>
      /\ row[j].status = "processing"
      /\ row'[j].owner = row[j].owner
      /\ row'[j].stamp = row[j].stamp
      /\ holder'[j] = holder[j]

ExecsKept ==
  \A e \in Execs :
    exec'[e].pc = "running" =>
      /\ exec[e].pc = "running"
      /\ exec'[e].job = exec[e].job
      /\ exec'[e].stamp = exec[e].stamp

LEMMA FencedFrame ==
  ASSUME TypeOK, FencedOutcome, RowsKept, ExecsKept
  PROVE  FencedOutcome'
  <1> SUFFICES ASSUME NEW e \in Execs, Running(e)', LeaseGuard(e)'
               PROVE  holder'[exec'[e].job] = e
    BY DEF FencedOutcome
  <1>1. Running(e) /\ exec'[e].job = exec[e].job /\ exec'[e].stamp = exec[e].stamp
    BY DEF ExecsKept, Running
  <1>2. exec[e].job \in Jobs
    BY <1>1 DEF Running, TypeOK
  <1>3. LeaseGuard(e) /\ holder'[exec[e].job] = holder[exec[e].job]
    BY <1>1, <1>2 DEF LeaseGuard, RowsKept
  <1> QED
    BY <1>1, <1>3 DEF FencedOutcome

\* The status each operator on rows leaves.
LEMMA StatusAfter ==
  ASSUME NEW r \in Row
  PROVE  /\ Unleased(r).status = "pending"
         /\ HandedBack(r).status = "pending"
         /\ \A st \in {"pending"} \cup Terminal : GivenUp(r, st).status = st
         /\ Zombie(r).status \in Terminal
         /\ Unclocked(r).status = r.status
  BY DEF Unleased, HandedBack, GivenUp, Zombie, Unclocked, Row, Terminal

LEMMA FencedStep == ASSUME TypeOK, FencedOutcome, [Next]_vars PROVE FencedOutcome'
  <1>1. ASSUME NEW j \in Jobs, Enqueue(j) PROVE FencedOutcome'
    <2>1. RowsKept
      BY <1>1 DEF Enqueue, TypeOK, RowsKept, NoRow
    <2> QED
      BY <1>1, <2>1, FencedFrame DEF Enqueue, ExecsKept
  <1>2. ASSUME NEW j \in Jobs, Replay(j) PROVE FencedOutcome'
    <2>1. RowsKept
      BY <1>2, StatusAfter DEF Replay, TypeOK, RowsKept, Unleased
    <2> QED
      BY <1>2, <2>1, FencedFrame DEF Replay, ExecsKept
  <1>c. ASSUME CancelPending PROVE FencedOutcome'
    <2>1. RowsKept
      BY <1>c, CancelMoves DEF RowsKept
    <2> QED
      BY <1>c, <2>1, CancelMoves, FencedFrame DEF ExecsKept
  <1>3. ASSUME NEW j \in Jobs, ForceRead(j) PROVE FencedOutcome'
    BY <1>3, FencedFrame DEF ForceRead, RowsKept, ExecsKept
  <1>4. ASSUME NEW j \in Jobs, ForceWrite(j) PROVE FencedOutcome'
    <2>1. RowsKept
      BY <1>4, StatusAfter DEF ForceWrite, Vacate, TypeOK, RowsKept, Terminal
    <2> QED
      BY <1>4, <2>1, FencedFrame DEF ForceWrite, ExecsKept
  <1>5. ASSUME NEW j \in Jobs,
               LeaseLapses(j) \/ HeartbeatFades(j) \/ RowOverruns(j) \/ RetryComesDue(j)
        PROVE  FencedOutcome'
    <2>1. UNCHANGED holder /\ \E r \in Row : /\ row' = [row EXCEPT ![j] = r]
                                          /\ r.status = row[j].status
                                          /\ r.owner = row[j].owner
                                          /\ r.stamp = row[j].stamp
      <3> DEFINE r1 == [row[j] EXCEPT !.lease = "expired"]
                 r2 == [row[j] EXCEPT !.silent = TRUE]
                 r3 == [row[j] EXCEPT !.over = TRUE]
                 r4 == [row[j] EXCEPT !.due = TRUE]
      <3>1. row[j] \in Row
        BY DEF TypeOK
      <3>2. \A r \in {r1, r2, r3, r4} : /\ r \in Row
                                       /\ r.status = row[j].status
                                       /\ r.owner = row[j].owner
                                       /\ r.stamp = row[j].stamp
        BY <3>1 DEF Row
      <3>3. \E r \in {r1, r2, r3, r4} : row' = [row EXCEPT ![j] = r]
        BY <1>5 DEF LeaseLapses, HeartbeatFades, RowOverruns, RetryComesDue
      <3> HIDE DEF r1, r2, r3, r4
      <3>4. UNCHANGED holder
        BY <1>5 DEF LeaseLapses, HeartbeatFades, RowOverruns, RetryComesDue
      <3> QED
        BY <3>2, <3>3, <3>4
    <2>3. RowsKept
      BY <2>1 DEF TypeOK, RowsKept
    <2>2. ExecsKept
      BY <1>5 DEF LeaseLapses, HeartbeatFades, RowOverruns, RetryComesDue, ExecsKept
    <2> QED
      BY <2>2, <2>3, FencedFrame
  <1>6. ASSUME NEW e \in Execs, HandlerOverruns(e) PROVE FencedOutcome'
    <2>1. ExecsKept
      BY <1>6 DEF HandlerOverruns, TypeOK, ExecRecord, ExecsKept
    <2> QED
      BY <1>6, <2>1, FencedFrame DEF HandlerOverruns, RowsKept
  <1>7. ASSUME NEW p \in Procs, SweepExhaust(p) \/ SweepRelease(p) PROVE FencedOutcome'
    <2>1. RowsKept
      BY <1>7, StatusAfter
      DEF SweepExhaust, SweepRelease, Vacate, TypeOK, RowsKept, Terminal
    <2>2. ExecsKept
      BY <1>7 DEF SweepExhaust, SweepRelease, ExecsKept
    <2> QED
      BY <2>1, <2>2, FencedFrame
  <1>8. ASSUME NEW p \in Procs, CycleEnd(p) \/ PollStart(p) \/ PollEnd(p)
        PROVE  FencedOutcome'
    BY <1>8, FencedFrame DEF CycleEnd, PollStart, PollEnd, RowsKept, ExecsKept
  <1>9. ASSUME NEW e \in Execs, Dequeue(e) \/ PollDequeue(e) PROVE FencedOutcome'
    <2>1. PICK j \in Jobs : Lease(e, j)
      BY <1>9, JobsAssumption DEF Dequeue, PollDequeue, NextJobs, Due, Lapsed
    <2>2. Taken(row[j], "leased", Home(e), AtDequeue).status = "leased"
      BY <2>1 DEF Taken, TypeOK, Row
    <2>3. RowsKept
      BY <2>1, <2>2 DEF Lease, TypeOK, RowsKept
    <2>4. row[j].attempts \in 0 .. AttemptCap
      BY DEF TypeOK, Row
    <2>5. ExecsKept
      BY <2>1, <2>4, DispatchedType DEF Lease, TypeOK, ExecsKept
    <2> QED
      BY <2>3, <2>5, FencedFrame
  <1>10. ASSUME NEW e \in Execs, StartWrite(e) PROVE FencedOutcome'
    <2> DEFINE j == exec[e].job
    <2>1. PICK s \in FreshStamps(Home(e)) :
            /\ row' = [row EXCEPT ![j] = Taken(row[j], "processing", Home(e), s)]
            /\ exec' = [exec EXCEPT ![e] = Begun(exec[e], s)]
      BY <1>10 DEF StartWrite
    <2>2. j \in Jobs /\ s \in Stamps
      BY <1>10 DEF StartWrite, TypeOK, FreshStamps
    <2>3. holder' = [holder EXCEPT ![j] = e]
      BY <1>10 DEF StartWrite
    <2>4. SUFFICES ASSUME NEW f \in Execs, Running(f)', LeaseGuard(f)'
                   PROVE  holder'[exec'[f].job] = f
      BY DEF FencedOutcome
    <2>5. CASE f = e
      BY <2>1, <2>2, <2>3, <2>5, BegunType DEF TypeOK
    <2>6. CASE f # e
      <3>1. exec'[f] = exec[f] /\ Running(f) /\ exec[f].job \in Jobs
        BY <2>1, <2>4, <2>6 DEF TypeOK, Running
      <3>2. CASE exec[f].job = j
        <4>1. /\ row'[j].owner = Home(e)
              /\ row'[j].stamp = s
          BY <2>1, <2>2 DEF Taken, TypeOK, Row
        <4>2. Home(f) = Home(e) /\ exec[f].stamp = s
          BY <2>4, <3>1, <3>2, <4>1 DEF LeaseGuard
        <4> QED
          BY <2>1, <4>2 DEF FreshStamps
      <3>3. CASE exec[f].job # j
        <4>1. LeaseGuard(f)
          BY <2>1, <2>2, <2>4, <3>1, <3>3 DEF LeaseGuard, TypeOK
        <4> QED
          BY <2>2, <2>3, <3>1, <3>3, <4>1 DEF FencedOutcome, TypeOK
      <3> QED
        BY <3>2, <3>3
    <2> QED
      BY <2>5, <2>6
  <1>11. ASSUME NEW e \in Execs, NoHandlerFail(e) PROVE FencedOutcome'
    <2>1. exec[e].job \in Jobs
      BY <1>11 DEF NoHandlerFail, TypeOK
    <2>2. Unclocked([row[exec[e].job] EXCEPT !.status = "failed"]).status = "failed"
      BY <2>1 DEF Unclocked, TypeOK, Row
    <2>3. RowsKept
      BY <1>11, <2>1, <2>2 DEF NoHandlerFail, TypeOK, RowsKept
    <2>4. ExecsKept
      BY <1>11, IdleType DEF NoHandlerFail, Ends, TypeOK, ExecsKept
    <2> QED
      BY <2>3, <2>4, FencedFrame
  <1>12. ASSUME NEW e \in Execs, StartFails(e) \/ OutcomeIgnored(e) \/ OutcomeLost(e)
         PROVE  FencedOutcome'
    <2>1. RowsKept
      BY <1>12 DEF StartFails, OutcomeIgnored, OutcomeLost, RowsKept
    <2>2. ExecsKept
      BY <1>12, IdleType
      DEF StartFails, OutcomeIgnored, OutcomeLost, Ends, TypeOK, ExecsKept
    <2> QED
      BY <2>1, <2>2, FencedFrame
  <1>13. ASSUME NEW e \in Execs, Heartbeat(e) \/ HeartbeatAborts(e) PROVE FencedOutcome'
    <2>1. exec[e].job \in Jobs
      BY <1>13 DEF Heartbeat, HeartbeatAborts, Running, TypeOK
    <2>2. \A r \in Row, ls \in {"live", "expired"} :
            /\ Pinged(r, ls).status = r.status
            /\ Pinged(r, ls).owner = r.owner
            /\ Pinged(r, ls).stamp = r.stamp
      BY DEF Pinged, Row
    <2>3. RowsKept
      BY <1>13, <2>1, <2>2 DEF Heartbeat, HeartbeatAborts, TypeOK, RowsKept
    <2>4. ExecsKept
      BY <1>13 DEF Heartbeat, HeartbeatAborts, TypeOK, ExecRecord, ExecsKept
    <2> QED
      BY <2>3, <2>4, FencedFrame
  <1>14. ASSUME NEW e \in Execs, NEW r \in Row, r.status # "processing", Outcome(e, r)
         PROVE  FencedOutcome'
    <2>1. exec[e].job \in Jobs
      BY <1>14 DEF Outcome, Running, TypeOK
    <2>2. RowsKept
      BY <1>14, <2>1, StatusAfter DEF Outcome, TypeOK, RowsKept
    <2>3. ExecsKept
      BY <1>14, IdleType DEF Outcome, Ends, TypeOK, ExecsKept
    <2> QED
      BY <2>2, <2>3, FencedFrame
  <1>15. ASSUME NEW e \in Execs, Complete(e) \/ DeadLetter(e) \/ Retry(e)
         PROVE  FencedOutcome'
    <2>1. row[exec[e].job] \in Row /\ exec[e].attempts \in 0 .. AttemptCap
      BY <1>15 DEF Complete, DeadLetter, Retry, Running, TypeOK, ExecRecord
    <2>2. /\ [row[exec[e].job] EXCEPT !.status = "completed"] \in Row
          /\ [row[exec[e].job] EXCEPT !.status = "completed"].status = "completed"
      BY <2>1 DEF Row, Terminal
    <2>3. /\ DeadLettered(row[exec[e].job], exec[e].attempts) \in Row
          /\ DeadLettered(row[exec[e].job], exec[e].attempts).status = "dead_letter"
      BY <2>1, DeadLetteredType DEF DeadLettered, Row
    <2>4. /\ Retried(row[exec[e].job], exec[e].attempts) \in Row
          /\ Retried(row[exec[e].job], exec[e].attempts).status = "pending"
      BY <2>1, RetriedType DEF Retried, Row
    <2> QED
      BY <1>14, <1>15, <2>2, <2>3, <2>4 DEF Complete, DeadLetter, Retry
  <1>16. ASSUME NEW p \in Procs, BootZombies(p) \/ BootOrphans(p) PROVE FencedOutcome'
    <2>1. RowsKept
      <3>1. \A r \in Row : Zombie(r).status # "processing" /\ Unleased(r).status # "processing"
        BY StatusAfter DEF Terminal
      <3>2. CASE BootZombies(p)
        BY <3>1, <3>2 DEF BootZombies, Vacate, TypeOK, RowsKept
      <3>3. CASE BootOrphans(p)
        BY <3>1, <3>3 DEF BootOrphans, Vacate, TypeOK, RowsKept
      <3> QED
        BY <1>16, <3>2, <3>3
    <2>2. ExecsKept
      BY <1>16 DEF BootZombies, BootOrphans, ExecsKept
    <2> QED
      BY <2>1, <2>2, FencedFrame
  <1>17. ASSUME NEW p \in Procs, BootUncleaned(p) \/ Stop(p) PROVE FencedOutcome'
    BY <1>17, FencedFrame DEF BootUncleaned, Stop, RowsKept, ExecsKept
  <1>18. ASSUME NEW p \in Procs, Release(p) \/ ReleaseFails(p) PROVE FencedOutcome'
    <2>1. RowsKept
      BY <1>18, StatusAfter DEF Release, ReleaseFails, Vacate, TypeOK, RowsKept
    <2>2. HeartbeatsStop(p)
      BY <1>18 DEF Release, ReleaseFails
    <2>3. ExecsKept
      BY <2>2 DEF HeartbeatsStop, TypeOK, ExecRecord, ExecsKept
    <2> QED
      BY <2>1, <2>3, FencedFrame
  <1>19. ASSUME NEW p \in Procs, Exit(p) \/ Crash(p) PROVE FencedOutcome'
    <2>1. RowsKept
      BY <1>19 DEF Exit, Crash, Gone, RowsKept
    <2>2. ExecsKept
      BY <1>19, IdleType DEF Exit, Crash, Gone, TypeOK, ExecsKept
    <2> QED
      BY <2>1, <2>2, FencedFrame
  <1>20. CASE UNCHANGED vars
    BY <1>20 DEF vars, FencedOutcome, Running, LeaseGuard
  <1> QED
    BY <1>1, <1>2, <1>c, <1>3, <1>4, <1>5, <1>6, <1>7, <1>8, <1>9, <1>10, <1>11,
       <1>12, <1>13, <1>15, <1>16, <1>17, <1>18, <1>19, <1>20
    DEF Next, Time, Client, Loops, Execution, Lifecycle

LEMMA FencedInit == Init => FencedOutcome
  BY IdleType DEF Init, FencedOutcome, Running

\* Whatever faults occur, the lease guard admits only the execution whose
\* start write was the last thing to happen to the row's lease.
THEOREM OutcomesAreFenced == Spec => []FencedOutcome
  BY TypeCorrect, FencedInit, FencedStep, PTL DEF Spec

-----------------------------------------------------------------------------
(* The lease columns agree with the status: every writer of the table      *)
(* leaves a row for which they do.                                         *)

Recoverable(r) ==
  /\ r.status \in {"leased", "processing"} =>
       r.owner # None /\ r.stamp # None /\ r.lease # "none"
  /\ r.status = "pending" => r.owner = None /\ r.lease = "none"

LEMMA RecoverableRows == RecoverableLease <=> \A j \in Jobs : Recoverable(row[j])
  BY DEF RecoverableLease, Recoverable, Held

LEMMA TakenRecoverable ==
  ASSUME NEW r \in Row, NEW st \in {"leased", "processing"}, NEW p \in Procs,
         NEW s \in Stamps \cup {AtDequeue}
  PROVE  Recoverable(Taken(r, st, p, s))
  BY NullAssumption DEF Taken, Row, Recoverable

LEMMA GivenUpRecoverable ==
  ASSUME NEW r \in Row, NEW st \in Terminal
  PROVE  Recoverable(GivenUp(r, st))
  BY StatusAfter DEF Recoverable, Terminal

LEMMA HandedBackRecoverable == \A r \in Row : Recoverable(HandedBack(r))
  <1> SUFFICES ASSUME NEW r \in Row PROVE Recoverable(HandedBack(r))
    OBVIOUS
  <1> DEFINE u == Unleased(r)
             n == Bump(u.attempts)
  <1>1. u \in Row /\ u.owner = None /\ u.lease = "none"
    BY UnleasedType DEF Unleased, Row
  <1> HIDE DEF u
  <1>2. n \in 0 .. AttemptCap
    BY <1>1, BumpType DEF Row
  <1> HIDE DEF n
  <1>3. Recoverable(Unclocked([u EXCEPT !.status = "pending", !.attempts = n]))
    BY <1>1, <1>2 DEF Unclocked, Row, Recoverable
  <1> QED
    BY <1>3 DEF HandedBack, GivenUp, u, n

LEMMA UnleasedRecoverable == \A r \in Row : Recoverable(Unleased(r))
  BY DEF Unleased, Row, Recoverable

LEMMA ZombieRecoverable == \A r \in Row : Recoverable(Zombie(r))
  BY GivenUpRecoverable DEF Zombie, Terminal

LEMMA RecoverableStep == ASSUME TypeOK, RecoverableLease, [Next]_vars PROVE RecoverableLease'
  <1> USE DEF TypeOK
  <1> SUFFICES ASSUME NEW k \in Jobs PROVE Recoverable(row'[k])
    BY DEF RecoverableLease, Recoverable, Held
  <1>0. Recoverable(row[k])
    BY RecoverableRows
  <1>1. ASSUME NEW j \in Jobs, Enqueue(j) PROVE Recoverable(row'[k])
    BY <1>0, <1>1 DEF Enqueue, NoRow, Recoverable
  <1>2. ASSUME NEW j \in Jobs, Replay(j) PROVE Recoverable(row'[k])
    <2>1. Unleased(row[j]) \in Row /\ Recoverable(Unleased(row[j]))
      BY UnleasedType, UnleasedRecoverable
    <2>2. Recoverable([Unleased(row[j]) EXCEPT !.attempts = 0, !.due = TRUE])
      BY <2>1 DEF Recoverable, Row
    <2> QED
      BY <1>0, <1>2, <2>2 DEF Replay
  <1>c. ASSUME CancelPending PROVE Recoverable(row'[k])
    BY <1>0, <1>c, CancelMoves DEF Recoverable
  <1>3. ASSUME NEW j \in Jobs, ForceWrite(j) PROVE Recoverable(row'[k])
    BY <1>0, <1>3, GivenUpRecoverable, HandedBackRecoverable DEF ForceWrite, Terminal
  <1>4. ASSUME NEW j \in Jobs, LeaseLapses(j) PROVE Recoverable(row'[k])
    <2>1. Recoverable([row[j] EXCEPT !.lease = "expired"])
      BY <1>4, RecoverableRows DEF LeaseLapses, Held, Recoverable, Row
    <2> QED
      BY <1>0, <1>4, <2>1 DEF LeaseLapses
  <1>5. ASSUME NEW j \in Jobs, HeartbeatFades(j) \/ RowOverruns(j) \/ RetryComesDue(j)
        PROVE  Recoverable(row'[k])
    <2>1. /\ Recoverable([row[j] EXCEPT !.silent = TRUE])
          /\ Recoverable([row[j] EXCEPT !.over = TRUE])
          /\ Recoverable([row[j] EXCEPT !.due = TRUE])
      BY RecoverableRows DEF Recoverable, Row
    <2> QED
      BY <1>0, <1>5, <2>1 DEF HeartbeatFades, RowOverruns, RetryComesDue
  <1>6. ASSUME NEW p \in Procs, SweepExhaust(p) \/ SweepRelease(p) PROVE Recoverable(row'[k])
    BY <1>0, <1>6, GivenUpRecoverable, HandedBackRecoverable
    DEF SweepExhaust, SweepRelease, Terminal
  <1>7. ASSUME NEW e \in Execs, Dequeue(e) \/ PollDequeue(e) PROVE Recoverable(row'[k])
    <2>1. PICK j \in Jobs : Lease(e, j)
      BY <1>7, JobsAssumption DEF Dequeue, PollDequeue, NextJobs, Due, Lapsed
    <2> QED
      BY <1>0, <2>1, TakenRecoverable, HomeType DEF Lease
  <1>8. ASSUME NEW e \in Execs, StartWrite(e) PROVE Recoverable(row'[k])
    BY <1>0, <1>8, TakenRecoverable, HomeType DEF StartWrite, FreshStamps
  <1>9. ASSUME NEW e \in Execs, NoHandlerFail(e) PROVE Recoverable(row'[k])
    <2>1. exec[e].job \in Jobs
      BY <1>9 DEF NoHandlerFail
    <2>2. Recoverable(Unclocked([row[exec[e].job] EXCEPT !.status = "failed"]))
      BY <2>1 DEF Unclocked, Recoverable, Row
    <2> QED
      BY <1>0, <1>9, <2>2 DEF NoHandlerFail
  <1>10. ASSUME NEW e \in Execs, Heartbeat(e) \/ HeartbeatAborts(e) PROVE Recoverable(row'[k])
    <2>1. exec[e].job \in Jobs
      BY <1>10 DEF Heartbeat, HeartbeatAborts, Running
    <2>2. ASSUME NEW ls \in {"live", "expired"}, HeartbeatGuard(e)
          PROVE  Recoverable(Pinged(row[exec[e].job], ls))
      BY <2>1, <2>2, RecoverableRows DEF HeartbeatGuard, Pinged, Recoverable, Row
    <2> QED
      BY <1>0, <1>10, <2>1, <2>2 DEF Heartbeat, HeartbeatAborts
  <1>11. ASSUME NEW e \in Execs, NEW r \in Row, Recoverable(r), Outcome(e, r)
         PROVE  Recoverable(row'[k])
    <2>1. Recoverable(Unclocked(r))
      BY <1>11 DEF Unclocked, Recoverable, Row
    <2> QED
      BY <1>0, <1>11, <2>1 DEF Outcome
  <1>12. ASSUME NEW e \in Execs, Complete(e) \/ DeadLetter(e) \/ Retry(e)
         PROVE  Recoverable(row'[k])
    <2> DEFINE r == row[exec[e].job]
               n == exec[e].attempts
    <2>1. r \in Row /\ n \in 0 .. AttemptCap
      BY <1>12 DEF Complete, DeadLetter, Retry, Running, ExecRecord
    <2>2. /\ [r EXCEPT !.status = "completed"] \in Row
          /\ Recoverable([r EXCEPT !.status = "completed"])
      BY <2>1 DEF Row, Terminal, Recoverable
    <2>3. /\ DeadLettered(r, n) \in Row
          /\ Recoverable(DeadLettered(r, n))
      BY <2>1, DeadLetteredType DEF DeadLettered, Row, Recoverable
    <2>4. /\ Retried(r, n) \in Row
          /\ Recoverable(Retried(r, n))
      BY <2>1, RetriedType DEF Retried, Row, Recoverable
    <2> HIDE DEF r, n
    <2> QED
      BY <1>11, <1>12, <2>2, <2>3, <2>4 DEF Complete, DeadLetter, Retry, r, n
  <1>13. ASSUME NEW p \in Procs, BootZombies(p) \/ BootOrphans(p) PROVE Recoverable(row'[k])
    BY <1>0, <1>13, ZombieRecoverable, UnleasedRecoverable DEF BootZombies, BootOrphans
  <1>14. ASSUME NEW p \in Procs, Release(p) PROVE Recoverable(row'[k])
    BY <1>0, <1>14, UnleasedRecoverable DEF Release
  <1>15. ASSUME UNCHANGED row PROVE Recoverable(row'[k])
    BY <1>0, <1>15
  <1> QED
    BY <1>1, <1>2, <1>c, <1>3, <1>4, <1>5, <1>6, <1>7, <1>8, <1>9, <1>10, <1>12, <1>13,
       <1>14, <1>15
    DEF Next, Time, Client, Loops, Execution, Lifecycle, vars,
        ForceRead, HandlerOverruns, CycleEnd, PollStart, PollEnd, StartFails,
        OutcomeIgnored, OutcomeLost, BootUncleaned, Stop, ReleaseFails, Exit, Crash, Gone

\* Whatever mix of writers a row goes through, a held one has the owner, the
\* stamp and the expiry that sweeps and dequeues look for, and a pending one
\* has nothing of a lease.
THEOREM LeasesAreRecoverable == Spec => []RecoverableLease
  <1>1. ASSUME Init PROVE RecoverableLease
    <2>1. \A j \in Jobs : row[j].status = "absent"
      BY <1>1 DEF Init, NoRow
    <2> QED
      BY <2>1 DEF RecoverableLease, Held
  <1> QED
    BY <1>1, TypeCorrect, RecoverableStep, PTL DEF Spec

-----------------------------------------------------------------------------
(* What follows for the table: an execution that has lost its row ends     *)
(* without touching it.                                                    *)

LEMMA QuietStep == ASSUME TypeOK, FencedOutcome, [Next]_vars PROVE EndsQuietly
  <1> SUFFICES ASSUME NEW e \in Execs, Running(e), ~Running(e)', holder[exec[e].job] # e
               PROVE  UNCHANGED row
    BY DEF EndsQuietly
  <1>1. ~LeaseGuard(e) /\ exec[e].pc = "running" /\ exec'[e].pc # "running"
    BY DEF FencedOutcome, Running
  \* The outcome writes are guarded, ...
  <1>2. ASSUME NEW f \in Execs, NEW r, Outcome(f, r) PROVE FALSE
    BY <1>1, <1>2 DEF Outcome, Ends, TypeOK
  <1>3. ASSUME NEW f \in Execs, Complete(f) \/ DeadLetter(f) \/ Retry(f) PROVE FALSE
    BY <1>2, <1>3 DEF Complete, DeadLetter, Retry
  \* ... other writes are made by executions that do not end in them, ...
  <1>4. ASSUME NEW f \in Execs, Dequeue(f) \/ PollDequeue(f) PROVE FALSE
    <2>1. PICK j \in Jobs : Lease(f, j)
      BY <1>4, JobsAssumption DEF Dequeue, PollDequeue, NextJobs, Due, Lapsed
    <2> QED
      BY <1>1, <2>1 DEF Lease, TypeOK
  <1>5. ASSUME NEW f \in Execs, StartWrite(f) \/ NoHandlerFail(f) PROVE FALSE
    BY <1>1, <1>5 DEF StartWrite, NoHandlerFail, Ends, TypeOK
  <1>6. ASSUME NEW f \in Execs, Heartbeat(f) \/ HeartbeatAborts(f) PROVE FALSE
    BY <1>1, <1>6 DEF Heartbeat, HeartbeatAborts, TypeOK, ExecRecord
  <1>7. ASSUME NEW p \in Procs, Release(p) PROVE FALSE
    BY <1>1, <1>7 DEF Release, HeartbeatsStop, TypeOK, ExecRecord
  \* ... or by nobody's execution.
  <1>8. ASSUME UNCHANGED exec PROVE FALSE
    BY <1>1, <1>8
  <1> QED
    BY <1>3, <1>4, <1>5, <1>6, <1>7, <1>8
    DEF Next, Time, Client, Loops, Execution, Lifecycle, vars,
        LeaseLapses, HeartbeatFades, RowOverruns, RetryComesDue, HandlerOverruns,
        Enqueue, Replay, CancelPending, ForceRead, ForceWrite, SweepExhaust, SweepRelease,
        CycleEnd, PollStart, PollEnd, StartFails, OutcomeIgnored, OutcomeLost,
        BootZombies, BootOrphans, BootUncleaned, Stop, ReleaseFails, Exit, Crash, Gone

\* An overrun or superseded handler never clobbers a row that has been requeued.
THEOREM StaleHandlersClobberNothing == Spec => ClobbersNothing
  BY TypeCorrect, OutcomesAreFenced, QuietStep, PTL DEF Spec, ClobbersNothing

-----------------------------------------------------------------------------
(* Terminal rows: of all writers only the replay and the two unguarded     *)
(* first writes of an execution select a row that has ended.               *)

LEMMA EndedStep == ASSUME TypeOK, [Next]_vars PROVE StaysEnded
  <1> USE DEF TypeOK
  <1> SUFFICES ASSUME NEW k \in Jobs, row[k].status \in Terminal,
                      row'[k].status # row[k].status
               PROVE  \/ /\ row[k].status = "dead_letter"
                         /\ row'[k].status = "pending"
                         /\ row'[k].attempts = 0
                      \/ \E e \in Execs : /\ exec[e].pc = "dispatched"
                                           /\ exec[e].job = k
                                           /\ exec'[e].pc # "dispatched"
    BY DEF StaysEnded
  <1>1. ~Held(k) /\ row[k].status \notin {"absent", "pending", "leased", "processing"}
    BY DEF Held, Terminal
  <1>2. row'[k] # row[k] /\ row[k] \in Row
    OBVIOUS
  <1>3. CASE \E j \in Jobs : Replay(j)
    <2>1. Replay(k)
      BY <1>2, <1>3 DEF Replay
    <2>2. row'[k].status = "pending" /\ row'[k].attempts = 0
      BY <2>1 DEF Replay, Unleased, Row
    <2> QED
      BY <2>1, <2>2 DEF Replay
  <1>4. CASE \E e \in Execs : StartWrite(e)
    <2>1. PICK e \in Execs : StartWrite(e)
      BY <1>4
    <2>2. exec[e].pc = "dispatched" /\ exec[e].job = k
      BY <1>2, <2>1 DEF StartWrite
    <2>3. exec'[e].pc = "running"
      BY <2>1, BegunType DEF StartWrite, FreshStamps
    <2> QED
      BY <2>2, <2>3
  <1>5. CASE \E e \in Execs : NoHandlerFail(e)
    <2>1. PICK e \in Execs : NoHandlerFail(e)
      BY <1>5
    <2>2. exec[e].pc = "dispatched" /\ exec[e].job = k
      BY <1>2, <2>1 DEF NoHandlerFail
    <2>3. exec'[e].pc = "idle"
      BY <2>1, IdleType DEF NoHandlerFail, Ends
    <2> QED
      BY <2>2, <2>3
  <1>6. ASSUME NEW j \in Jobs,
               Enqueue(j) \/ LeaseLapses(j) \/ HeartbeatFades(j) \/ RowOverruns(j)
                 \/ ForceWrite(j)
        PROVE  FALSE
    BY <1>1, <1>2, <1>6
    DEF Enqueue, LeaseLapses, HeartbeatFades, RowOverruns, ForceWrite
  <1>c. ASSUME CancelPending PROVE FALSE
    BY <1>1, <1>2, <1>c, CancelMoves
  <1>7. ASSUME NEW j \in Jobs, RetryComesDue(j) PROVE FALSE
    <2>1. [row[j] EXCEPT !.due = TRUE].status = row[j].status
      BY DEF Row
    <2> QED
      BY <1>7, <2>1 DEF RetryComesDue
  <1>8. ASSUME NEW p \in Procs, SweepExhaust(p) \/ SweepRelease(p) PROVE FALSE
    BY <1>1, <1>2, <1>8 DEF SweepExhaust, SweepRelease, StaleJobs
  <1>9. ASSUME NEW e \in Execs, Dequeue(e) \/ PollDequeue(e) PROVE FALSE
    <2>1. PICK j \in Jobs : Lease(e, j) /\ (row[j].status = "pending" \/ Held(j))
      BY <1>9, JobsAssumption DEF Dequeue, PollDequeue, NextJobs, Due, Lapsed
    <2> QED
      BY <1>1, <1>2, <2>1 DEF Lease
  <1>10. ASSUME NEW e \in Execs, Heartbeat(e) \/ HeartbeatAborts(e) PROVE FALSE
    BY <1>1, <1>2, <1>10 DEF Heartbeat, HeartbeatAborts, HeartbeatGuard
  <1>11. ASSUME NEW e \in Execs, NEW r, Outcome(e, r) PROVE FALSE
    BY <1>1, <1>2, <1>11 DEF Outcome, LeaseGuard
  <1>12. ASSUME NEW p \in Procs, BootZombies(p) \/ BootOrphans(p) \/ Release(p) PROVE FALSE
    BY <1>1, <1>2, <1>12 DEF BootZombies, BootOrphans, Others, Release
  <1>13. ASSUME UNCHANGED row PROVE FALSE
    BY <1>2, <1>13
  <1> QED
    BY <1>3, <1>4, <1>5, <1>6, <1>c, <1>7, <1>8, <1>9, <1>10, <1>11, <1>12, <1>13
    DEF Next, Time, Client, Loops, Execution, Lifecycle, vars,
        ForceRead, HandlerOverruns, CycleEnd, PollStart, PollEnd, StartFails,
        Complete, DeadLetter, Retry, OutcomeIgnored, OutcomeLost,
        BootUncleaned, Stop, ReleaseFails, Exit, Crash, Gone

\* A row that has ended stays ended, but for the replay of a dead letter and
\* the unguarded first write of an execution that was dispatched before.
THEOREM EndedRowsStay == Spec => TerminalIsFinal
  BY TypeCorrect, EndedStep, PTL DEF Spec, TerminalIsFinal

-----------------------------------------------------------------------------
(* The steps, as the proofs below tell them apart: a dequeue, the start    *)
(* write of an execution, and all the others, which neither lease a row    *)
(* nor start an execution.                                                 *)

Dequeues(e, j) ==
  /\ Lease(e, j)
  /\ \/ row[j].status = "pending"
     \/ Held(j) /\ row[j].lease = "expired"
  /\ cycle[Home(e)] = "dispatch" \/ poll[Home(e)]
  /\ UNCHANGED <<proc, cycle, poll, force>>

\* A row that is held after the step was held before it, by the same lease.
LeaseKept(j) ==
  Held(j)' => /\ row'[j].status = row[j].status
              /\ row'[j].owner = row[j].owner
              /\ row'[j].stamp = row[j].stamp
              /\ row'[j].attempts = row[j].attempts

ExecKept(e) ==
  /\ exec'[e].pc = exec[e].pc
  /\ exec'[e].job = exec[e].job
  /\ exec'[e].stamp = exec[e].stamp
  /\ exec'[e].attempts = exec[e].attempts

\* An execution leaves its row behind it: it wrote the outcome, had lost the
\* row, went down with its instance, or a write of its own threw.
ExecEnds(e) ==
  /\ exec'[e] = Idle
  /\ \/ \E j \in Jobs : exec[e].job = j /\ ~Held(j)'
     \/ Running(e) /\ ~LeaseGuard(e)
     \/ ~Alive(Home(e))'
     \/ "dberror" \in Faults

OtherStep ==
  /\ \A j \in Jobs : LeaseKept(j)
  /\ \A e \in Execs : ExecKept(e) \/ ExecEnds(e)

LEMMA DequeueLeases ==
  ASSUME NEW e \in Execs, Dequeue(e) \/ PollDequeue(e)
  PROVE  \E j \in Jobs : Dequeues(e, j)
  BY JobsAssumption DEF Dequeue, PollDequeue, NextJobs, Due, Lapsed, Dequeues, Lease

\* What a writer does to the fields a lease is known by.
LEMMA LeaseAfter ==
  ASSUME NEW r \in Row
  PROVE  /\ Unleased(r).status = "pending"
         /\ HandedBack(r).status = "pending"
         /\ GivenUp(r, "failed").status = "failed"
         /\ Zombie(r).status \in Terminal
  BY StatusAfter DEF Terminal

LEMMA ExecsSame ==
  ASSUME UNCHANGED exec, \A j \in Jobs : LeaseKept(j)
  PROVE  OtherStep
  BY DEF OtherStep, ExecKept

LEMMA Steps ==
  ASSUME TypeOK, [Next]_vars
  PROVE  \/ \E e \in Execs, j \in Jobs : Dequeues(e, j)
         \/ \E e \in Execs : StartWrite(e)
         \/ OtherStep
  <1> USE DEF TypeOK
  <1>0. \A j \in Jobs : row[j] \in Row
    OBVIOUS
  <1>1. ASSUME NEW j \in Jobs, Enqueue(j) PROVE OtherStep
    <2>1. \A k \in Jobs : LeaseKept(k)
      BY <1>1 DEF Enqueue, NoRow, LeaseKept, Held
    <2> QED
      BY <1>1, <2>1, ExecsSame DEF Enqueue
  <1>2. ASSUME NEW j \in Jobs, Replay(j) PROVE OtherStep
    <2>1. [Unleased(row[j]) EXCEPT !.attempts = 0, !.due = TRUE].status = "pending"
      BY <1>0 DEF Unleased, Row
    <2>2. \A k \in Jobs : LeaseKept(k)
      BY <1>2, <2>1 DEF Replay, LeaseKept, Held
    <2> QED
      BY <1>2, <2>2, ExecsSame DEF Replay
  <1>c. ASSUME CancelPending PROVE OtherStep
    <2>1. \A k \in Jobs : LeaseKept(k)
      BY <1>c, CancelMoves DEF LeaseKept, Held
    <2> QED
      BY <1>c, <2>1, CancelMoves, ExecsSame
  <1>3. ASSUME NEW j \in Jobs, ForceWrite(j) PROVE OtherStep
    <2>1. \A k \in Jobs : LeaseKept(k)
      BY <1>0, <1>3, LeaseAfter DEF ForceWrite, LeaseKept, Held
    <2> QED
      BY <1>3, <2>1, ExecsSame DEF ForceWrite
  <1>4. ASSUME NEW j \in Jobs,
               LeaseLapses(j) \/ HeartbeatFades(j) \/ RowOverruns(j) \/ RetryComesDue(j)
        PROVE  OtherStep
    <2> DEFINE ticked == {[row[j] EXCEPT !.lease = "expired"], [row[j] EXCEPT !.silent = TRUE],
                          [row[j] EXCEPT !.over = TRUE], [row[j] EXCEPT !.due = TRUE]}
    <2>1. \A r \in ticked : /\ r.status = row[j].status
                            /\ r.owner = row[j].owner
                            /\ r.stamp = row[j].stamp
                            /\ r.attempts = row[j].attempts
      BY <1>0 DEF Row
    <2>2. \E r \in ticked : row' = [row EXCEPT ![j] = r]
      BY <1>4 DEF LeaseLapses, HeartbeatFades, RowOverruns, RetryComesDue
    <2> HIDE DEF ticked
    <2>3. \A k \in Jobs : LeaseKept(k)
      BY <2>1, <2>2 DEF LeaseKept
    <2> QED
      BY <1>4, <2>3, ExecsSame DEF LeaseLapses, HeartbeatFades, RowOverruns, RetryComesDue
  <1>5. ASSUME NEW p \in Procs, SweepExhaust(p) \/ SweepRelease(p) PROVE OtherStep
    <2>1. \A k \in Jobs : LeaseKept(k)
      BY <1>0, <1>5, LeaseAfter DEF SweepExhaust, SweepRelease, LeaseKept, Held
    <2> QED
      BY <1>5, <2>1, ExecsSame DEF SweepExhaust, SweepRelease
  <1>6. ASSUME NEW p \in Procs, BootZombies(p) \/ BootOrphans(p) PROVE OtherStep
    <2>1. \A k \in Jobs : LeaseKept(k)
      BY <1>0, <1>6, LeaseAfter DEF BootZombies, BootOrphans, LeaseKept, Held, Terminal
    <2> QED
      BY <1>6, <2>1, ExecsSame DEF BootZombies, BootOrphans
  <1>7. ASSUME NEW e \in Execs, HandlerOverruns(e) PROVE OtherStep
    <2>1. \A x \in Execs : ExecKept(x)
      BY <1>7 DEF HandlerOverruns, ExecKept, ExecRecord
    <2> QED
      BY <1>7, <2>1 DEF HandlerOverruns, OtherStep, LeaseKept
  <1>8. ASSUME NEW e \in Execs, Heartbeat(e) \/ HeartbeatAborts(e) PROVE OtherStep
    <2>1. \A x \in Execs : ExecKept(x)
      BY <1>8 DEF Heartbeat, HeartbeatAborts, ExecKept, ExecRecord
    <2>2. exec[e].job \in Jobs
      BY <1>8 DEF Heartbeat, HeartbeatAborts, Running
    <2>3. \A ls \in {"live", "expired"} :
            LET r == Pinged(row[exec[e].job], ls) IN
              /\ r.status = row[exec[e].job].status
              /\ r.owner = row[exec[e].job].owner
              /\ r.stamp = row[exec[e].job].stamp
              /\ r.attempts = row[exec[e].job].attempts
      BY <1>0, <2>2 DEF Pinged, Row
    <2>4. \A k \in Jobs : LeaseKept(k)
      BY <1>8, <2>2, <2>3 DEF Heartbeat, HeartbeatAborts, LeaseKept
    <2> QED
      BY <2>1, <2>4 DEF OtherStep
  <1>9. ASSUME NEW e \in Execs, NoHandlerFail(e) PROVE OtherStep
    <2>1. exec[e].job \in Jobs
      BY <1>9 DEF NoHandlerFail
    <2>2. Unclocked([row[exec[e].job] EXCEPT !.status = "failed"]).status = "failed"
      BY <1>0, <2>1 DEF Unclocked, Row
    <2>3. /\ \A k \in Jobs : LeaseKept(k)
          /\ \A k \in Jobs : exec[e].job = k => ~Held(k)'
      BY <1>9, <2>1, <2>2 DEF NoHandlerFail, LeaseKept, Held
    <2> QED
      BY <1>9, <2>1, <2>3 DEF NoHandlerFail, Ends, OtherStep, ExecKept, ExecEnds
  <1>10. ASSUME NEW e \in Execs, NEW r \in Row, Outcome(e, r),
                r.status \in {"pending"} \cup Terminal
         PROVE  OtherStep
    <2>1. exec[e].job \in Jobs
      BY <1>10 DEF Outcome, Running
    <2>2. Unclocked(r).status = r.status
      BY StatusAfter
    <2>3. /\ \A k \in Jobs : LeaseKept(k)
          /\ \A k \in Jobs : exec[e].job = k => ~Held(k)'
      BY <1>10, <2>1, <2>2 DEF Outcome, LeaseKept, Held, Terminal
    <2> QED
      BY <1>10, <2>1, <2>3 DEF Outcome, Ends, OtherStep, ExecKept, ExecEnds
  <1>11. ASSUME NEW e \in Execs, Complete(e) \/ DeadLetter(e) \/ Retry(e) PROVE OtherStep
    <2> DEFINE r == row[exec[e].job]
               n == exec[e].attempts
    <2>1. r \in Row /\ n \in 0 .. AttemptCap
      BY <1>11 DEF Complete, DeadLetter, Retry, Running, ExecRecord
    <2>2. [r EXCEPT !.status = "completed"] \in Row
          /\ [r EXCEPT !.status = "completed"].status = "completed"
      BY <2>1 DEF Row, Terminal
    <2>3. DeadLettered(r, n) \in Row /\ DeadLettered(r, n).status = "dead_letter"
      BY <2>1, DeadLetteredType DEF DeadLettered, Row
    <2>4. Retried(r, n) \in Row /\ Retried(r, n).status = "pending"
      BY <2>1, RetriedType DEF Retried, Row
    <2> HIDE DEF r, n
    <2> QED
      BY <1>10, <1>11, <2>2, <2>3, <2>4 DEF Complete, DeadLetter, Retry, r, n, Terminal
  <1>12. ASSUME NEW e \in Execs, StartFails(e) \/ OutcomeIgnored(e) \/ OutcomeLost(e)
         PROVE  OtherStep
    BY <1>12 DEF StartFails, OutcomeIgnored, OutcomeLost, Ends, OtherStep, LeaseKept,
                 ExecKept, ExecEnds
  <1>13. ASSUME NEW p \in Procs, Release(p) \/ ReleaseFails(p) PROVE OtherStep
    <2>1. HeartbeatsStop(p)
      BY <1>13 DEF Release, ReleaseFails
    <2>2. \A x \in Execs : ExecKept(x)
      BY <2>1 DEF HeartbeatsStop, ExecKept, ExecRecord
    <2>3. \A k \in Jobs : LeaseKept(k)
      BY <1>0, <1>13, LeaseAfter DEF Release, ReleaseFails, LeaseKept, Held
    <2> QED
      BY <2>2, <2>3 DEF OtherStep
  <1>14. ASSUME NEW p \in Procs, Exit(p) \/ Crash(p) PROVE OtherStep
    <2>1. PICK how \in {"exited", "crashed"} : Gone(p, how)
      BY <1>14 DEF Exit, Crash
    <2>2. ~Alive(p)'
      BY <2>1 DEF Gone, Alive
    <2> QED
      BY <2>1, <2>2 DEF Gone, OtherStep, LeaseKept, ExecKept, ExecEnds
  <1>15. ASSUME UNCHANGED <<row, exec>> PROVE OtherStep
    BY <1>15 DEF OtherStep, LeaseKept, ExecKept
  <1> QED
    BY <1>1, <1>2, <1>c, <1>3, <1>4, <1>5, <1>6, <1>7, <1>8, <1>9, <1>11, <1>12, <1>13,
       <1>14, <1>15, DequeueLeases
    DEF Next, Time, Client, Loops, Execution, Lifecycle, vars,
        ForceRead, CycleEnd, PollStart, PollEnd, BootUncleaned, Stop

-----------------------------------------------------------------------------
(* What an instance that is not running leaves behind: no loop, no         *)
(* execution, and nothing is held in the name of one that never ran.       *)

Asleep(p) ==
  /\ cycle[p] = "rest"
  /\ ~poll[p]
  /\ \A e \in Execs : Home(e) = p => exec[e].pc = "idle"
  /\ proc[p] = "off" => \A j \in Jobs : Held(j) => row[j].owner # p

AwakeOnly == \A p \in Procs : ~Alive(p) => Asleep(p)

\* An instance that is not running after the step was not running before it,
\* or it ended in the step.
LEMMA Endings ==
  ASSUME TypeOK, [Next]_vars, NEW p \in Procs, ~Alive(p)'
  PROVE  \/ Gone(p, "exited") \/ Gone(p, "crashed")
         \/ /\ proc'[p] = proc[p]
            /\ cycle[p] = "rest" => cycle'[p] = "rest"
            /\ ~poll[p] => ~poll'[p]
  <1> DEFINE Goal == \/ Gone(p, "exited") \/ Gone(p, "crashed")
                     \/ /\ proc'[p] = proc[p]
                        /\ cycle[p] = "rest" => cycle'[p] = "rest"
                        /\ ~poll[p] => ~poll'[p]
  <1> SUFFICES Goal
    OBVIOUS
  <1> USE DEF TypeOK
  <1>1. CASE UNCHANGED <<proc, cycle, poll>>
    BY <1>1
  <1>2. ASSUME NEW q \in Procs, SweepExhaust(q) PROVE Goal
    BY <1>2 DEF SweepExhaust, Alive
  <1>3. ASSUME NEW q \in Procs, SweepRelease(q) \/ CycleEnd(q) PROVE Goal
    BY <1>3 DEF SweepRelease, CycleEnd
  <1>4. ASSUME NEW q \in Procs, PollStart(q) \/ PollEnd(q) PROVE Goal
    BY <1>4 DEF PollStart, PollEnd, Alive
  <1>5. ASSUME NEW q \in Procs,
               BootZombies(q) \/ BootOrphans(q) \/ BootUncleaned(q) \/ Stop(q)
                 \/ Release(q) \/ ReleaseFails(q)
        PROVE  Goal
    BY <1>5 DEF BootZombies, BootOrphans, BootUncleaned, Stop, Release, ReleaseFails, Alive
  <1>6. ASSUME NEW q \in Procs, Exit(q) \/ Crash(q) PROVE Goal
    BY <1>6 DEF Exit, Crash, Gone
  <1> HIDE DEF Goal
  <1> QED
    BY <1>1, <1>2, <1>3, <1>4, <1>5, <1>6
    DEF Next, Time, Client, Loops, Execution, Lifecycle, vars,
        LeaseLapses, HeartbeatFades, RowOverruns, RetryComesDue, HandlerOverruns,
        Enqueue, Replay, CancelPending, ForceRead, ForceWrite, Dequeue, PollDequeue,
        StartWrite, NoHandlerFail, StartFails, Heartbeat, HeartbeatAborts,
        Complete, DeadLetter, Retry, Outcome, OutcomeIgnored, OutcomeLost

\* An instance that is running after the step was running before it, or it
\* booted in the step.
LEMMA Wakings ==
  ASSUME TypeOK, [Next]_vars, NEW p \in Procs, Alive(p)', ~Alive(p)
  PROVE  BootZombies(p) /\ proc[p] = "off"
  <1> USE DEF TypeOK
  <1>1. ASSUME UNCHANGED proc PROVE FALSE
    BY <1>1 DEF Alive
  <1>2. ASSUME NEW q \in Procs, BootZombies(q) PROVE q = p
    BY <1>2 DEF BootZombies, Alive
  <1>3. ASSUME NEW q \in Procs,
               BootOrphans(q) \/ BootUncleaned(q) \/ Stop(q) \/ Release(q) \/ ReleaseFails(q)
        PROVE  FALSE
    BY <1>3 DEF BootOrphans, BootUncleaned, Stop, Release, ReleaseFails, Alive
  <1>4. ASSUME NEW q \in Procs, Exit(q) \/ Crash(q) PROVE FALSE
    BY <1>4 DEF Exit, Crash, Gone, Alive
  <1>5. BootZombies(p)
    BY <1>1, <1>2, <1>3, <1>4
    DEF Next, Time, Client, Loops, Execution, Lifecycle, vars,
        LeaseLapses, HeartbeatFades, RowOverruns, RetryComesDue, HandlerOverruns,
        Enqueue, Replay, CancelPending, ForceRead, ForceWrite, Dequeue, PollDequeue,
        SweepExhaust, SweepRelease, CycleEnd, PollStart, PollEnd,
        StartWrite, NoHandlerFail, StartFails, Heartbeat, HeartbeatAborts,
        Complete, DeadLetter, Retry, Outcome, OutcomeIgnored, OutcomeLost
  <1> QED
    BY <1>5 DEF BootZombies

\* Who dequeues or starts an execution is running, ...
LEMMA ActorsAwake ==
  ASSUME TypeOK, AwakeOnly, NEW e \in Execs,
         \/ \E j \in Jobs : Dequeues(e, j)
         \/ StartWrite(e)
         \/ exec[e].pc # "idle"
  PROVE  Home(e) \in Procs /\ Alive(Home(e))
  BY HomeType DEF AwakeOnly, Asleep, Dequeues, StartWrite, TypeOK

\* ... and takes the row in the name of his instance.
LEMMA DequeueMoves ==
  ASSUME TypeOK, NEW e \in Execs, NEW j \in Jobs, Dequeues(e, j)
  PROVE  /\ \A k \in Jobs \ {j} : row'[k] = row[k]
         /\ row'[j].status = "leased"
         /\ row'[j].owner = Home(e)
         /\ row'[j].stamp = AtDequeue
         /\ row'[j].attempts = row[j].attempts
         /\ row'[j].lease = "live"
         /\ ~row'[j].over
         /\ \A x \in Execs \ {e} : exec'[x] = exec[x]
         /\ exec[e].pc = "idle"
         /\ exec'[e] = Dispatched(row[j].attempts, j)
         /\ UNCHANGED <<proc, cycle, poll, force>>
  <1>1. /\ row' = [row EXCEPT ![j] = Taken(row[j], "leased", Home(e), AtDequeue)]
        /\ exec' = [exec EXCEPT ![e] = Dispatched(row[j].attempts, j)]
        /\ exec[e].pc = "idle"
        /\ UNCHANGED <<proc, cycle, poll, force>>
    BY DEF Dequeues, Lease
  <1>2. row[j] \in Row
    BY DEF TypeOK
  <1>3. row'[j] = Taken(row[j], "leased", Home(e), AtDequeue)
    BY <1>1 DEF TypeOK
  <1> QED
    BY <1>1, <1>2, <1>3 DEF Taken, Row, TypeOK

LEMMA StartMoves ==
  ASSUME TypeOK, NEW e \in Execs, StartWrite(e)
  PROVE  \E j \in Jobs, s \in FreshStamps(Home(e)) :
           /\ exec[e].pc = "dispatched"
           /\ exec[e].job = j
           /\ \A k \in Jobs \ {j} : row'[k] = row[k]
           /\ row'[j].status = "processing"
           /\ row'[j].owner = Home(e)
           /\ row'[j].stamp = s
           /\ row'[j].attempts = row[j].attempts
           /\ row'[j].lease = "live"
           /\ ~row'[j].over
           /\ \A x \in Execs \ {e} : exec'[x] = exec[x]
           /\ exec'[e] = Begun(exec[e], s)
           /\ exec'[e].pc = "running"
           /\ exec'[e].job = j
           /\ exec'[e].stamp = s
           /\ UNCHANGED <<proc, cycle, poll, force>>
  <1> DEFINE j == exec[e].job
  <1>1. j \in Jobs
    BY DEF StartWrite, TypeOK
  <1>2. PICK s \in FreshStamps(Home(e)) :
          /\ row' = [row EXCEPT ![j] = Taken(row[j], "processing", Home(e), s)]
          /\ exec' = [exec EXCEPT ![e] = Begun(exec[e], s)]
    BY DEF StartWrite
  <1>3. row[j] \in Row /\ exec[e] \in ExecRecord /\ s \in Stamps
    BY <1>1 DEF TypeOK, FreshStamps
  <1>4. row'[j] = Taken(row[j], "processing", Home(e), s)
    BY <1>1, <1>2 DEF TypeOK
  <1>5. /\ row'[j].status = "processing"
        /\ row'[j].owner = Home(e)
        /\ row'[j].stamp = s
        /\ row'[j].attempts = row[j].attempts
        /\ row'[j].lease = "live"
        /\ ~row'[j].over
    BY <1>3, <1>4 DEF Taken, Row
  <1>6. exec'[e] = Begun(exec[e], s) /\ \A x \in Execs \ {e} : exec'[x] = exec[x]
    BY <1>2 DEF TypeOK
  <1>7. Begun(exec[e], s).pc = "running" /\ Begun(exec[e], s).job = j
          /\ Begun(exec[e], s).stamp = s
    BY <1>3, BegunType
  <1>8. \A k \in Jobs \ {j} : row'[k] = row[k]
    BY <1>2 DEF TypeOK
  <1>9. exec[e].pc = "dispatched" /\ UNCHANGED <<proc, cycle, poll, force>>
    BY DEF StartWrite
  <1> HIDE DEF j
  <1> QED
    BY <1>1, <1>5, <1>6, <1>7, <1>8, <1>9 DEF j

LEMMA AwakeStep == ASSUME TypeOK, AwakeOnly, [Next]_vars PROVE AwakeOnly'
  <1> SUFFICES ASSUME NEW p \in Procs, ~Alive(p)' PROVE Asleep(p)'
    BY DEF AwakeOnly
  <1>1. CASE Gone(p, "exited") \/ Gone(p, "crashed")
    <2>1. /\ cycle'[p] = "rest"
          /\ ~poll'[p]
          /\ proc'[p] # "off"
          /\ \A e \in Execs : Home(e) = p => exec'[e] = Idle
      BY <1>1 DEF Gone, TypeOK
    <2> QED
      BY <2>1, IdleType DEF Asleep
  <1>2. CASE /\ proc'[p] = proc[p]
             /\ cycle[p] = "rest" => cycle'[p] = "rest"
             /\ ~poll[p] => ~poll'[p]
    <2>1. Asleep(p) /\ ~Alive(p)
      BY <1>2 DEF AwakeOnly, Alive
    <2>2. CASE \E e \in Execs, j \in Jobs : Dequeues(e, j)
      <3>1. PICK e \in Execs, j \in Jobs : Dequeues(e, j)
        BY <2>2
      <3>2. Home(e) # p
        BY <2>1, <3>1, ActorsAwake
      <3> QED
        BY <1>2, <2>1, <3>1, <3>2, DequeueMoves DEF Asleep, Held
    <2>3. CASE \E e \in Execs : StartWrite(e)
      <3>1. PICK e \in Execs : StartWrite(e)
        BY <2>3
      <3>2. Home(e) # p
        BY <2>1, <3>1, ActorsAwake
      <3> QED
        BY <1>2, <2>1, <3>1, <3>2, StartMoves DEF Asleep, Held
    <2>4. CASE OtherStep
      <3>1. \A e \in Execs : Home(e) = p => exec'[e].pc = "idle"
        BY <2>1, <2>4, IdleType DEF Asleep, OtherStep, ExecKept, ExecEnds
      <3>2. proc'[p] = "off" => \A j \in Jobs : Held(j)' => row'[j].owner # p
        BY <1>2, <2>1, <2>4 DEF Asleep, OtherStep, LeaseKept, Held
      <3> QED
        BY <1>2, <2>1, <3>1, <3>2 DEF Asleep
    <2> QED
      BY <2>2, <2>3, <2>4, Steps
  <1> QED
    BY <1>1, <1>2, Endings

LEMMA AwakeInit == Init => AwakeOnly
  BY IdleType DEF Init, AwakeOnly, Asleep, Held, NoRow

LEMMA AwakeAlways == Spec => []AwakeOnly
  BY TypeCorrect, AwakeInit, AwakeStep, PTL DEF Spec

-----------------------------------------------------------------------------
(* Who works on a held row.  HeldIsExecuted is not inductive: an execution *)
(* on the row is not enough, it must be the one whose end would free it.   *)
(* A leased row of a running instance has an execution there that has not  *)
(* started, a processing row has the one the lease guard admits.           *)

HasWorker(j) ==
  /\ row[j].status = "leased" =>
       \E e \in Execs : /\ Home(e) = row[j].owner
                        /\ exec[e].pc = "dispatched"
                        /\ exec[e].job = j
  /\ row[j].status = "processing" =>
       \E e \in Execs : /\ Home(e) = row[j].owner
                        /\ exec[e].pc = "running"
                        /\ exec[e].job = j
                        /\ exec[e].stamp = row[j].stamp

Executed == \A j \in Jobs, p \in Procs : row[j].owner = p /\ Alive(p) => HasWorker(j)

\* An execution that is still the worker of its row does not end while the
\* row stays with its instance.
LEMMA WorkerStays ==
  ASSUME TypeOK, OtherStep, "dberror" \notin Faults, NEW j \in Jobs, Held(j)',
         NEW e \in Execs, exec[e].job = j, Alive(Home(e))',
         exec[e].pc = "running" => LeaseGuard(e)
  PROVE  ExecKept(e)
  BY DEF OtherStep, ExecEnds, Running

LEMMA ExecutedStep ==
  ASSUME TypeOK, AwakeOnly, Executed, "dberror" \notin Faults, [Next]_vars
  PROVE  Executed'
  <1> SUFFICES ASSUME NEW k \in Jobs, NEW p \in Procs, row'[k].owner = p, Alive(p)'
               PROVE  HasWorker(k)'
    BY DEF Executed
  <1>1. CASE \E e \in Execs, j \in Jobs : Dequeues(e, j)
    <2>1. PICK e \in Execs, j \in Jobs : Dequeues(e, j)
      BY <1>1
    <2>2. Alive(p)
      BY <2>1, DequeueMoves DEF Alive
    <2>3. CASE k = j
      <3>1. /\ exec'[e].pc = "dispatched"
            /\ exec'[e].job = j
            /\ row'[j].status = "leased"
            /\ row'[j].owner = Home(e)
        BY <2>1, DequeueMoves, DispatchedType DEF TypeOK, Row
      <3> QED
        BY <2>3, <3>1 DEF HasWorker
    <2>4. CASE k # j
      <3>1. row'[k] = row[k] /\ HasWorker(k)
        BY <2>1, <2>2, <2>4, DequeueMoves DEF Executed
      <3>2. exec[e].pc = "idle" /\ \A x \in Execs \ {e} : exec'[x] = exec[x]
        BY <2>1, DequeueMoves
      <3>3. ASSUME NEW x \in Execs, exec[x].pc # "idle" PROVE exec'[x] = exec[x]
        BY <3>2, <3>3
      <3> QED
        BY <3>1, <3>3 DEF HasWorker
    <2> QED
      BY <2>3, <2>4
  <1>2. CASE \E e \in Execs : StartWrite(e)
    <2>1. PICK e \in Execs : StartWrite(e)
      BY <1>2
    <2>2. PICK j \in Jobs, s \in FreshStamps(Home(e)) :
            /\ exec[e].job = j
            /\ exec[e].pc = "dispatched"
            /\ row'[j].status = "processing"
            /\ row'[j].owner = Home(e)
            /\ row'[j].stamp = s
            /\ exec'[e].pc = "running"
            /\ exec'[e].job = j
            /\ exec'[e].stamp = s
            /\ \A i \in Jobs \ {j} : row'[i] = row[i]
            /\ \A x \in Execs \ {e} : exec'[x] = exec[x]
            /\ UNCHANGED proc
      BY <2>1, StartMoves
    <2>3. CASE k = j
      BY <2>2, <2>3 DEF HasWorker
    <2>4. CASE k # j
      <3>1. row'[k] = row[k] /\ HasWorker(k)
        BY <2>2, <2>4 DEF Executed, Alive
      <3>2. ASSUME NEW x \in Execs, exec[x].job = k PROVE exec'[x] = exec[x]
        BY <2>2, <2>4, <3>2
      <3> QED
        BY <3>1, <3>2 DEF HasWorker
    <2> QED
      BY <2>3, <2>4
  <1>3. CASE OtherStep
    <2> SUFFICES ASSUME Held(k)' PROVE HasWorker(k)'
      BY DEF HasWorker, Held
    <2>1. /\ row'[k].status = row[k].status
          /\ row'[k].owner = row[k].owner
          /\ row'[k].stamp = row[k].stamp
      BY <1>3 DEF OtherStep, LeaseKept
    <2>2. Alive(p)
      <3> SUFFICES ASSUME ~Alive(p) PROVE FALSE
        OBVIOUS
      <3>1. proc[p] = "off"
        BY Wakings
      <3>2. Held(k) /\ row[k].owner = p
        BY <2>1 DEF Held
      <3> QED
        BY <3>1, <3>2 DEF AwakeOnly, Asleep
    <2>3. HasWorker(k)
      BY <2>1, <2>2 DEF Executed
    <2>4. ASSUME NEW e \in Execs, Home(e) = p, exec[e].job = k,
                 exec[e].pc = "running" => exec[e].stamp = row[k].stamp /\ row[k].status = "processing"
          PROVE  ExecKept(e)
      <3>1. exec[e].pc = "running" => LeaseGuard(e)
        BY <2>1, <2>4 DEF LeaseGuard
      <3> QED
        BY <1>3, <2>4, <3>1, WorkerStays
    <2>5. CASE row[k].status = "leased"
      <3>1. PICK e \in Execs : Home(e) = p /\ exec[e].pc = "dispatched" /\ exec[e].job = k
        BY <2>1, <2>3, <2>5 DEF HasWorker
      <3>2. ExecKept(e)
        BY <2>4, <3>1
      <3> QED
        BY <2>1, <2>5, <3>1, <3>2 DEF ExecKept, HasWorker
    <2>6. CASE row[k].status = "processing"
      <3>1. PICK e \in Execs : /\ Home(e) = p
                               /\ exec[e].pc = "running"
                               /\ exec[e].job = k
                               /\ exec[e].stamp = row[k].stamp
        BY <2>1, <2>3, <2>6 DEF HasWorker
      <3>2. ExecKept(e)
        BY <2>4, <2>6, <3>1
      <3> QED
        BY <2>1, <2>6, <3>1, <3>2 DEF ExecKept, HasWorker
    <2> QED
      BY <2>1, <2>5, <2>6 DEF Held
  <1> QED
    BY <1>1, <1>2, <1>3, Steps

\* As long as no write of an execution throws, a row that is held in the name
\* of a running instance has an execution there, whatever sweeps, boots,
\* reclaims, stops and crashes have done to the row before.
THEOREM HeldRowsAreExecuted ==
  ASSUME "dberror" \notin Faults
  PROVE  Spec => []HeldIsExecuted
  <1>1. Init => Executed
    BY NullAssumption DEF Init, NoRow, Executed, HasWorker
  <1>2. TypeOK /\ AwakeOnly /\ Executed /\ [Next]_vars => Executed'
    BY ExecutedStep
  <1>3. Executed => HeldIsExecuted
    BY DEF Executed, HasWorker, HeldIsExecuted, Held
  <1> QED
    BY <1>1, <1>2, <1>3, TypeCorrect, AwakeAlways, PTL DEF Spec

-----------------------------------------------------------------------------
(* The queue left in peace: nobody reclaims, stops or boots over a running *)
(* instance, and no lease of an execution that is alive runs out.  Then    *)
(* one instance works at a time, and what it works on is its own.          *)

Quiet == Faults \cap {"lapse", "force", "stop", "boot"} = {}

NoForce == \A j \in Jobs : force[j] = "none"

OneInstance ==
  /\ \A p, q \in Procs : Alive(p) /\ Alive(q) => p = q
  /\ \A p \in Procs : proc[p] \notin {"stopping", "released", "unreleased"}

OverrunsOnly == \A e \in Execs : exec[e].over => "overrun" \in Faults

\* An execution that has not started yet has the lease it was dispatched with.
DispatchedHolds ==
  \A e \in Execs :
    exec[e].pc = "dispatched" =>
      /\ row[exec[e].job].status = "leased"
      /\ row[exec[e].job].owner = Home(e)
      /\ row[exec[e].job].lease = "live"
      /\ ~row[exec[e].job].over

OneDispatched ==
  \A e, f \in Execs :
    exec[e].pc = "dispatched" /\ exec[f].pc = "dispatched" /\ exec[e].job = exec[f].job
      => e = f

Undisturbed == NoForce /\ OneInstance /\ OverrunsOnly /\ DispatchedHolds /\ OneDispatched

\* The flags of an execution change when its handler overruns, when the last
\* tick of its heartbeat gives up, and when its instance stops.
LEMMA FlagMoves ==
  ASSUME TypeOK, [Next]_vars, NEW e \in Execs
  PROVE  /\ exec'[e].over => exec[e].over \/ "overrun" \in Faults
         /\ exec[e].beating => \/ exec'[e].beating
                               \/ exec'[e] = Idle
                               \/ exec[e].over
                               \/ exec[e].pc # "running"
                               \/ \E p \in Procs : proc[p] = "stopping"
  <1> DEFINE Over == exec'[e].over => exec[e].over \/ "overrun" \in Faults
             Beats == exec[e].beating => \/ exec'[e].beating
                                         \/ exec'[e] = Idle
                                         \/ exec[e].over
                                         \/ exec[e].pc # "running"
                                         \/ \E p \in Procs : proc[p] = "stopping"
  <1> SUFFICES Over /\ Beats
    OBVIOUS
  <1> USE DEF TypeOK
  <1>0. ~Idle.over
    BY DEF Idle
  <1>1. ASSUME exec'[e] = exec[e] \/ exec'[e] = Idle PROVE Over /\ Beats
    BY <1>0, <1>1
  <1>2. ASSUME NEW f \in Execs, HandlerOverruns(f) PROVE Over /\ Beats
    <2>1. "overrun" \in Faults
      BY <1>2 DEF HandlerOverruns
    <2>2. [exec[f] EXCEPT !.over = TRUE].beating = exec[f].beating
      BY DEF ExecRecord
    <2>3. exec' = [exec EXCEPT ![f] = [exec[f] EXCEPT !.over = TRUE]]
      BY <1>2 DEF HandlerOverruns
    <2>4. exec'[e].beating = exec[e].beating
      BY <2>2, <2>3
    <2> QED
      BY <2>1, <2>4
  <1>3. ASSUME NEW f \in Execs, Dequeue(f) \/ PollDequeue(f) PROVE Over /\ Beats
    <2>1. PICK j \in Jobs : Dequeues(f, j)
      BY <1>3, DequeueLeases
    <2>2. ~Dispatched(row[j].attempts, j).over
      BY DEF Dispatched, Idle
    <2>3. f # e => exec'[e] = exec[e]
      BY <2>1, DequeueMoves
    <2>4. f = e => exec[e].pc = "idle" /\ ~exec'[e].over
      BY <2>1, <2>2, DequeueMoves
    <2> QED
      BY <1>1, <2>3, <2>4
  <1>4. ASSUME NEW f \in Execs, StartWrite(f) PROVE Over /\ Beats
    <2>1. PICK s \in FreshStamps(Home(f)) : exec'[f] = Begun(exec[f], s)
      BY <1>4, StartMoves
    <2>2. Begun(exec[f], s).over = exec[f].over
      BY DEF Begun, ExecRecord
    <2>3. f # e => exec'[e] = exec[e]
      BY <1>4 DEF StartWrite
    <2>4. f = e => exec[e].pc # "running" /\ exec'[e].over = exec[e].over
      BY <1>4, <2>1, <2>2 DEF StartWrite
    <2> QED
      BY <1>1, <2>3, <2>4
  <1>5. ASSUME NEW f \in Execs, HeartbeatAborts(f) PROVE Over /\ Beats
    <2>1. [exec[f] EXCEPT !.beating = FALSE].over = exec[f].over
      BY DEF ExecRecord
    <2>2. exec[f].over /\ exec' = [exec EXCEPT ![f] = [exec[f] EXCEPT !.beating = FALSE]]
      BY <1>5 DEF HeartbeatAborts
    <2>3. f # e => exec'[e] = exec[e]
      BY <2>2
    <2>4. f = e => exec[e].over
      BY <2>2
    <2> QED
      BY <1>1, <2>3, <2>4
  <1>6. ASSUME NEW p \in Procs, Release(p) \/ ReleaseFails(p) PROVE Over /\ Beats
    <2>1. HeartbeatsStop(p) /\ proc[p] = "stopping"
      BY <1>6 DEF Release, ReleaseFails
    <2>2. [exec[e] EXCEPT !.beating = FALSE].over = exec[e].over
      BY DEF ExecRecord
    <2>3. exec'[e].over = exec[e].over
      BY <2>1, <2>2 DEF HeartbeatsStop
    <2> QED
      BY <2>1, <2>3
  <1>7. ASSUME NEW f \in Execs, Ends(f) PROVE Over /\ Beats
    BY <1>1, <1>7 DEF Ends
  <1>8. ASSUME NEW p \in Procs, Exit(p) \/ Crash(p) PROVE Over /\ Beats
    BY <1>1, <1>8 DEF Exit, Crash, Gone
  <1>9. ASSUME UNCHANGED exec PROVE Over /\ Beats
    BY <1>1, <1>9
  <1> HIDE DEF Over, Beats
  <1> QED
    BY <1>2, <1>3, <1>4, <1>5, <1>6, <1>7, <1>8, <1>9
    DEF Next, Time, Client, Loops, Execution, Lifecycle, vars,
        LeaseLapses, HeartbeatFades, RowOverruns, RetryComesDue,
        Enqueue, Replay, CancelPending, ForceRead, ForceWrite, SweepExhaust, SweepRelease,
        CycleEnd, PollStart, PollEnd, NoHandlerFail, StartFails, Heartbeat,
        Complete, DeadLetter, Retry, Outcome, OutcomeIgnored, OutcomeLost,
        BootZombies, BootOrphans, BootUncleaned, Stop

\* The row keeps its lease, which is live and within the maximum.
Untouched(k) ==
  /\ row'[k].status = row[k].status
  /\ row'[k].owner = row[k].owner
  /\ row'[k].stamp = row[k].stamp
  /\ row'[k].lease = "live"
  /\ ~row'[k].over

\* In peace nobody but an execution of the row touches a row that is attended.
LEMMA AttendedStays ==
  ASSUME TypeOK, AwakeOnly, Quiet, NoForce, OneInstance, OverrunsOnly, [Next]_vars,
         NEW k \in Jobs, row[k].lease = "live", ~row[k].over, Attended(k)
  PROVE  \/ Untouched(k)
         \/ \E e \in Execs : exec[e].job = k /\ (StartWrite(e) \/ NoHandlerFail(e))
         \/ /\ row[k].status = "processing"
            /\ \/ "overrun" \in Faults
               \/ \E e \in Execs : /\ exec[e].job = k
                                   /\ Running(e)
                                   /\ LeaseGuard(e)
                                   /\ exec'[e] = Idle
  <1> DEFINE Worked == \E e \in Execs : exec[e].job = k /\ (StartWrite(e) \/ NoHandlerFail(e))
             Ended == /\ row[k].status = "processing"
                      /\ \/ "overrun" \in Faults
                         \/ \E e \in Execs : /\ exec[e].job = k
                                             /\ Running(e)
                                             /\ LeaseGuard(e)
                                             /\ exec'[e] = Idle
             Goal == Untouched(k) \/ Worked \/ Ended
  <1> SUFFICES Goal
    OBVIOUS
  <1> USE DEF TypeOK
  <1>0. PICK w \in Execs : exec[w].job = k /\ exec[w].pc # "idle" /\ row[k].owner = Home(w)
    BY DEF Attended, Running
  <1>a. Held(k)
    BY DEF Attended, LeaseGuard, Held
  <1>b. Home(w) \in Procs /\ Alive(Home(w))
    BY <1>0, ActorsAwake
  <1>c. row[k] \in Row
    OBVIOUS
  <1>1. ASSUME row'[k] = row[k] PROVE Goal
    BY <1>1 DEF Untouched
  <1>2. ASSUME NEW j \in Jobs, Enqueue(j) \/ Replay(j) PROVE Goal
    BY <1>a, <1>1, <1>2 DEF Enqueue, Replay, Held
  <1>d. ASSUME CancelPending PROVE Goal
    BY <1>a, <1>1, <1>d, CancelMoves DEF Held
  <1>3. ASSUME NEW j \in Jobs, ForceRead(j) \/ ForceWrite(j) PROVE Goal
    BY <1>3 DEF ForceRead, ForceWrite, NoForce, Quiet
  <1>4. ASSUME NEW j \in Jobs, LeaseLapses(j) \/ HeartbeatFades(j) PROVE Goal
    <2>1. j # k
      BY <1>4 DEF LeaseLapses, HeartbeatFades, Quiet
    <2> QED
      BY <1>1, <1>4, <2>1 DEF LeaseLapses, HeartbeatFades
  <1>5. ASSUME NEW j \in Jobs, RowOverruns(j) PROVE Goal
    <2>1. CASE j = k
      BY <1>5, <2>1 DEF RowOverruns, Quiet
    <2>2. CASE j # k
      BY <1>1, <1>5, <2>2 DEF RowOverruns
    <2> QED
      BY <2>1, <2>2
  <1>6. ASSUME NEW j \in Jobs, RetryComesDue(j) PROVE Goal
    <2>1. row'[k] = row[k] \/ row'[k] = [row[k] EXCEPT !.due = TRUE]
      BY <1>6 DEF RetryComesDue
    <2> QED
      BY <1>c, <2>1 DEF Untouched, Row
  <1>7. ASSUME NEW p \in Procs, SweepExhaust(p) \/ SweepRelease(p) PROVE Goal
    <2>1. k \notin StaleJobs(p)
      BY DEF StaleJobs
    <2> QED
      BY <1>1, <1>7, <2>1 DEF SweepExhaust, SweepRelease
  <1>8. ASSUME NEW e \in Execs, Dequeue(e) \/ PollDequeue(e) PROVE Goal
    <2>1. PICK j \in Jobs : Dequeues(e, j)
      BY <1>8, DequeueLeases
    <2>2. j # k
      BY <1>a, <2>1 DEF Dequeues, Held
    <2> QED
      BY <1>1, <2>1, <2>2, DequeueMoves
  <1>9. ASSUME NEW e \in Execs, StartWrite(e) \/ NoHandlerFail(e) PROVE Goal
    <2>1. CASE exec[e].job = k
      BY <1>9, <2>1
    <2>2. CASE exec[e].job # k
      BY <1>1, <1>9, <2>2 DEF StartWrite, NoHandlerFail
    <2> QED
      BY <2>1, <2>2
  <1>10. ASSUME NEW e \in Execs, Heartbeat(e) PROVE Goal
    <2>1. row'[k] = row[k] \/ row'[k] = Pinged(row[k], "live")
      BY <1>10 DEF Heartbeat
    <2> QED
      BY <1>c, <2>1 DEF Untouched, Pinged, Row
  <1>11. ASSUME NEW e \in Execs, HeartbeatAborts(e) PROVE Goal
    <2>1. "overrun" \in Faults
      BY <1>11 DEF HeartbeatAborts, OverrunsOnly
    <2>2. CASE exec[e].job = k /\ HeartbeatGuard(e)
      BY <2>1, <2>2 DEF HeartbeatGuard
    <2>3. CASE ~(exec[e].job = k /\ HeartbeatGuard(e))
      BY <1>1, <1>11, <2>3 DEF HeartbeatAborts
    <2> QED
      BY <2>2, <2>3
  <1>12. ASSUME NEW e \in Execs, NEW r, Outcome(e, r) PROVE Goal
    <2>1. CASE exec[e].job = k
      <3>1. Running(e) /\ LeaseGuard(e) /\ exec'[e] = Idle
        BY <1>12 DEF Outcome, Ends
      <3> QED
        BY <2>1, <3>1 DEF LeaseGuard
    <2>2. CASE exec[e].job # k
      BY <1>1, <1>12, <2>2 DEF Outcome
    <2> QED
      BY <2>1, <2>2
  <1>13. ASSUME NEW p \in Procs, BootZombies(p) PROVE Goal
    BY <1>b, <1>13 DEF BootZombies, Quiet
  <1>14. ASSUME NEW p \in Procs, BootOrphans(p) PROVE Goal
    <2>1. p = Home(w)
      BY <1>b, <1>14 DEF BootOrphans, OneInstance, Alive
    <2>2. k \notin Others(p)
      BY <1>0, <2>1 DEF Others
    <2> QED
      BY <1>1, <1>14, <2>2 DEF BootOrphans
  <1>15. ASSUME NEW p \in Procs, Release(p) PROVE Goal
    BY <1>15 DEF Release, OneInstance
  <1>16. ASSUME UNCHANGED row PROVE Goal
    BY <1>1, <1>16
  <1> HIDE DEF Goal
  <1> QED
    BY <1>2, <1>d, <1>3, <1>4, <1>5, <1>6, <1>7, <1>8, <1>9, <1>10, <1>11, <1>12, <1>13,
       <1>14, <1>15, <1>16
    DEF Next, Time, Client, Loops, Execution, Lifecycle, vars,
        HandlerOverruns, CycleEnd, PollStart, PollEnd, StartFails,
        Complete, DeadLetter, Retry, OutcomeIgnored, OutcomeLost,
        BootUncleaned, Stop, ReleaseFails, Exit, Crash, Gone

LEMMA DispatchedAttended ==
  ASSUME TypeOK, DispatchedHolds, NEW e \in Execs, exec[e].pc = "dispatched"
  PROVE  /\ exec[e].job \in Jobs
         /\ Attended(exec[e].job)
         /\ row[exec[e].job].lease = "live"
         /\ ~row[exec[e].job].over
  BY DEF TypeOK, DispatchedHolds, Attended

\* Who is dispatched after a step was so before it, with the same row, or was
\* idle and took a row that was nobody's.
LEMMA DispatchedFrom ==
  ASSUME TypeOK, [Next]_vars, NEW e \in Execs, exec'[e].pc = "dispatched"
  PROVE  \/ exec[e].pc = "dispatched" /\ exec'[e].job = exec[e].job
         \/ \E j \in Jobs : Dequeues(e, j)
  <1>1. CASE \E x \in Execs, j \in Jobs : Dequeues(x, j)
    <2>1. PICK x \in Execs, j \in Jobs : Dequeues(x, j)
      BY <1>1
    <2> QED
      BY <2>1, DequeueMoves
  <1>2. CASE \E x \in Execs : StartWrite(x)
    <2>1. PICK x \in Execs : StartWrite(x)
      BY <1>2
    <2>2. exec'[x].pc = "running" /\ \A y \in Execs \ {x} : exec'[y] = exec[y]
      BY <2>1, StartMoves
    <2> QED
      BY <2>2
  <1>3. CASE OtherStep
    BY <1>3, IdleType DEF OtherStep, ExecKept, ExecEnds
  <1> QED
    BY <1>1, <1>2, <1>3, Steps

LEMMA UndisturbedStep ==
  ASSUME TypeOK, AwakeOnly, Quiet, Undisturbed, [Next]_vars
  PROVE  Undisturbed'
  <1> USE DEF Undisturbed
  <1>1. NoForce'
    <2>1. \A j \in Jobs : ~ForceRead(j) /\ ~ForceWrite(j)
      BY DEF ForceRead, ForceWrite, NoForce, Quiet
    <2>2. UNCHANGED force
      BY <2>1
      DEF Next, Time, Client, Loops, Execution, Lifecycle, vars,
          LeaseLapses, HeartbeatFades, RowOverruns, RetryComesDue, HandlerOverruns,
          Enqueue, Replay, CancelPending, Dequeue, PollDequeue, SweepExhaust, SweepRelease,
          CycleEnd, PollStart, PollEnd, StartWrite, NoHandlerFail, StartFails,
          Heartbeat, HeartbeatAborts, Complete, DeadLetter, Retry, Outcome,
          OutcomeIgnored, OutcomeLost, BootZombies, BootOrphans, BootUncleaned,
          Stop, Release, ReleaseFails, Exit, Crash, Gone
    <2> QED
      BY <2>2 DEF NoForce
  <1>2. OneInstance'
    <2>1. ASSUME NEW p \in Procs, Alive(p)', ~Alive(p), NEW q \in Procs, Alive(q)'
          PROVE  q = p
      <3>1. BootZombies(p)
        BY <2>1, Wakings
      <3>2. ~Alive(q) /\ proc' = [proc EXCEPT ![p] = "cleaning"]
        BY <3>1 DEF BootZombies, Quiet
      <3> QED
        BY <2>1, <3>2 DEF Alive, TypeOK
    <2>2. \A p, q \in Procs : Alive(p)' /\ Alive(q)' => p = q
      BY <2>1 DEF OneInstance
    <2>3. \A p \in Procs : proc'[p] \notin {"stopping", "released", "unreleased"}
      <3>1. \A p \in Procs : ~Stop(p) /\ ~Release(p) /\ ~ReleaseFails(p)
        BY DEF Stop, Release, ReleaseFails, OneInstance, Quiet
      <3> QED
        BY <3>1
        DEF Next, Time, Client, Loops, Execution, Lifecycle, vars, OneInstance, TypeOK,
            LeaseLapses, HeartbeatFades, RowOverruns, RetryComesDue, HandlerOverruns,
            Enqueue, Replay, CancelPending, ForceRead, ForceWrite, Dequeue, PollDequeue,
            SweepExhaust, SweepRelease, CycleEnd, PollStart, PollEnd, StartWrite,
            NoHandlerFail, StartFails, Heartbeat, HeartbeatAborts, Complete,
            DeadLetter, Retry, Outcome, OutcomeIgnored, OutcomeLost, BootZombies,
            BootOrphans, BootUncleaned, Exit, Crash, Gone
    <2> QED
      BY <2>2, <2>3 DEF OneInstance
  <1>3. OverrunsOnly'
    BY FlagMoves DEF OverrunsOnly
  <1>4. DispatchedHolds'
    <2> SUFFICES ASSUME NEW e \in Execs, exec'[e].pc = "dispatched", NEW k, k = exec'[e].job
                 PROVE  /\ row'[k].status = "leased"
                        /\ row'[k].owner = Home(e)
                        /\ row'[k].lease = "live"
                        /\ ~row'[k].over
      BY DEF DispatchedHolds
    <2>1. CASE \E j \in Jobs : Dequeues(e, j)
      <3>1. PICK j \in Jobs : Dequeues(e, j)
        BY <2>1
      <3>2. row[j].attempts \in 0 .. AttemptCap
        BY DEF TypeOK, Row
      <3>3. k = j
        BY <3>1, <3>2, DequeueMoves, DispatchedType
      <3> QED
        BY <3>1, <3>3, DequeueMoves
    <2>2. CASE exec[e].pc = "dispatched" /\ exec[e].job = k
      <3>1. k \in Jobs /\ Attended(k) /\ row[k].lease = "live" /\ ~row[k].over
              /\ row[k].status = "leased" /\ row[k].owner = Home(e)
        BY <2>2, DispatchedAttended DEF DispatchedHolds
      <3>2. CASE Untouched(k)
        BY <3>1, <3>2 DEF Untouched
      <3>3. ASSUME NEW x \in Execs, exec[x].job = k, StartWrite(x) \/ NoHandlerFail(x)
            PROVE  FALSE
        <4>1. x = e
          BY <2>2, <3>3 DEF StartWrite, NoHandlerFail, OneDispatched
        <4>2. exec'[e].pc = "running" \/ exec'[e] = Idle
          BY <3>3, <4>1, StartMoves DEF NoHandlerFail, Ends, TypeOK
        <4> QED
          BY <4>2, IdleType
      <3> QED
        BY <3>1, <3>2, <3>3, AttendedStays
    <2> QED
      BY <2>1, <2>2, DispatchedFrom
  <1>5. OneDispatched'
    <2>1. ASSUME NEW e \in Execs, NEW f \in Execs, NEW j \in Jobs, Dequeues(e, j),
                 exec'[f].pc = "dispatched", exec'[f].job = exec'[e].job
          PROVE  e = f
      <3> SUFFICES ASSUME e # f PROVE FALSE
        OBVIOUS
      <3>1. row[j].attempts \in 0 .. AttemptCap
        BY DEF TypeOK, Row
      <3>2. exec'[e].job = j /\ exec'[f] = exec[f]
        BY <2>1, <3>1, DequeueMoves, DispatchedType
      <3>3. row[j].status = "leased" /\ row[j].lease = "live"
        BY <2>1, <3>2 DEF DispatchedHolds
      <3> QED
        BY <2>1, <3>3 DEF Dequeues
    <2> SUFFICES ASSUME NEW e \in Execs, NEW f \in Execs, exec'[e].pc = "dispatched",
                        exec'[f].pc = "dispatched", exec'[e].job = exec'[f].job
                 PROVE  e = f
      BY DEF OneDispatched
    <2>2. CASE \E j \in Jobs : Dequeues(e, j) \/ Dequeues(f, j)
      BY <2>1, <2>2
    <2>3. CASE \A j \in Jobs : ~Dequeues(e, j) /\ ~Dequeues(f, j)
      BY <2>3, DispatchedFrom DEF OneDispatched
    <2> QED
      BY <2>2, <2>3
  <1> QED
    BY <1>1, <1>2, <1>3, <1>4, <1>5

LEMMA UndisturbedInit == Init => Undisturbed
  BY IdleType DEF Init, Undisturbed, NoForce, OneInstance, Alive, OverrunsOnly, Idle,
                  DispatchedHolds, OneDispatched

LEMMA UndisturbedAlways == ASSUME Quiet PROVE Spec => []Undisturbed
  <1>1. TypeOK /\ AwakeOnly /\ Undisturbed /\ [Next]_vars => Undisturbed'
    BY UndisturbedStep
  <1> QED
    BY <1>1, UndisturbedInit, TypeCorrect, AwakeAlways, PTL DEF Spec

-----------------------------------------------------------------------------
(* Attempts.  PendingHasBudget needs the rows that are held as well: what  *)
(* is leased with no attempt left would be handed back with none.          *)

Budgeted ==
  \A j \in Jobs :
    row[j].status \in {"pending", "leased", "processing"} => row[j].attempts < MaxAttempts

\* An attempt that does not exhaust the row leaves it one.
LEMMA BumpBudget ==
  ASSUME NEW n \in 0 .. AttemptCap, ~Exhausts(n)
  PROVE  Bump(n) < MaxAttempts
  BY AttemptsAssumption DEF Exhausts, Bump

LEMMA HandedBackAttempts ==
  ASSUME NEW r \in Row
  PROVE  HandedBack(r).attempts = Bump(r.attempts)
  <1> DEFINE u == Unleased(r)
             n == Bump(u.attempts)
  <1>1. u \in Row /\ u.attempts = r.attempts
    BY UnleasedType DEF Unleased, Row
  <1> HIDE DEF u
  <1> HIDE DEF n
  <1>2. Unclocked([u EXCEPT !.status = "pending", !.attempts = n]).attempts = n
    BY <1>1 DEF Unclocked, Row
  <1> QED
    BY <1>1, <1>2 DEF HandedBack, GivenUp, u, n

\* A row that waits after a step is new or replayed, or waited or was held
\* before it with the same attempts, or was handed back by an attempt that did
\* not exhaust it.
LEMMA PendingFrom ==
  ASSUME TypeOK, Quiet, NoForce, OneInstance, [Next]_vars,
         NEW k \in Jobs, row'[k].status = "pending"
  PROVE  \/ row'[k].attempts = 0
         \/ /\ row[k].status \in {"pending", "leased", "processing"}
            /\ row'[k].attempts = row[k].attempts
         \/ \E n \in 0 .. AttemptCap : ~Exhausts(n) /\ row'[k].attempts = Bump(n)
  <1> DEFINE Fresh == row'[k].attempts = 0
             Same == /\ row[k].status \in {"pending", "leased", "processing"}
                     /\ row'[k].attempts = row[k].attempts
             Bumped == \E n \in 0 .. AttemptCap : ~Exhausts(n) /\ row'[k].attempts = Bump(n)
             Goal == Fresh \/ Same \/ Bumped
  <1> SUFFICES Goal
    OBVIOUS
  <1> USE DEF TypeOK
  <1>0. row[k] \in Row /\ row[k].attempts \in 0 .. AttemptCap
    BY DEF Row
  <1>1. ASSUME row'[k].status = row[k].status, row'[k].attempts = row[k].attempts PROVE Goal
    BY <1>1
  <1>2. ASSUME NEW j \in Jobs, Enqueue(j) PROVE Goal
    BY <1>1, <1>2 DEF Enqueue, NoRow
  <1>3. ASSUME NEW j \in Jobs, Replay(j) PROVE Goal
    <2>1. [Unleased(row[k]) EXCEPT !.attempts = 0, !.due = TRUE].attempts = 0
      BY <1>0 DEF Unleased, Row
    <2>2. row'[k] = row[k] \/ row'[k] = [Unleased(row[k]) EXCEPT !.attempts = 0, !.due = TRUE]
      BY <1>3 DEF Replay
    <2> QED
      BY <1>1, <2>1, <2>2
  <1>c. ASSUME CancelPending PROVE Goal
    BY <1>1, <1>c, CancelMoves
  <1>4. ASSUME NEW j \in Jobs, ForceWrite(j) PROVE Goal
    BY <1>4 DEF ForceWrite, NoForce
  <1>5. ASSUME NEW j \in Jobs,
               LeaseLapses(j) \/ HeartbeatFades(j) \/ RowOverruns(j) \/ RetryComesDue(j)
        PROVE  Goal
    <2> DEFINE ticked == {[row[k] EXCEPT !.lease = "expired"], [row[k] EXCEPT !.silent = TRUE],
                          [row[k] EXCEPT !.over = TRUE], [row[k] EXCEPT !.due = TRUE], row[k]}
    <2>1. \A r \in ticked : r.status = row[k].status /\ r.attempts = row[k].attempts
      BY <1>0 DEF Row
    <2>2. row'[k] \in ticked
      BY <1>5 DEF LeaseLapses, HeartbeatFades, RowOverruns, RetryComesDue
    <2> HIDE DEF ticked
    <2> QED
      BY <1>1, <2>1, <2>2
  <1>6. ASSUME NEW p \in Procs, SweepExhaust(p) PROVE Goal
    <2>1. row'[k] = row[k] \/ row'[k] = GivenUp(row[k], "failed")
      BY <1>6 DEF SweepExhaust
    <2> QED
      BY <1>0, <1>1, <2>1, LeaseAfter
  <1>7. ASSUME NEW p \in Procs, SweepRelease(p) PROVE Goal
    <2>1. row'[k] = row[k] \/ (~Exhausts(row[k].attempts) /\ row'[k] = HandedBack(row[k]))
      BY <1>7 DEF SweepRelease
    <2> QED
      BY <1>0, <1>1, <2>1, HandedBackAttempts
  <1>8. ASSUME NEW e \in Execs, Dequeue(e) \/ PollDequeue(e) PROVE Goal
    <2>1. PICK j \in Jobs : Dequeues(e, j)
      BY <1>8, DequeueLeases
    <2>2. row'[k] = row[k]
      BY <2>1, DequeueMoves
    <2> QED
      BY <1>1, <2>2
  <1>9. ASSUME NEW e \in Execs, StartWrite(e) PROVE Goal
    <2>1. row'[k] = row[k]
      BY <1>9, StartMoves
    <2> QED
      BY <1>1, <2>1
  <1>10. ASSUME NEW e \in Execs, NoHandlerFail(e) PROVE Goal
    <2>1. Unclocked([row[k] EXCEPT !.status = "failed"]).status = "failed"
      BY <1>0 DEF Unclocked, Row
    <2>2. row'[k] = row[k] \/ row'[k] = Unclocked([row[k] EXCEPT !.status = "failed"])
      BY <1>10 DEF NoHandlerFail
    <2> QED
      BY <1>1, <2>1, <2>2
  <1>11. ASSUME NEW e \in Execs, Heartbeat(e) \/ HeartbeatAborts(e) PROVE Goal
    <2>1. \A ls \in {"live", "expired"} : /\ Pinged(row[k], ls).status = row[k].status
                                          /\ Pinged(row[k], ls).attempts = row[k].attempts
      BY <1>0 DEF Pinged, Row
    <2>2. row'[k] \in {row[k], Pinged(row[k], "live"), Pinged(row[k], "expired")}
      BY <1>11 DEF Heartbeat, HeartbeatAborts
    <2> QED
      BY <1>1, <2>1, <2>2
  <1>12. ASSUME NEW e \in Execs, Complete(e) \/ DeadLetter(e) \/ Retry(e) PROVE Goal
    <2> DEFINE n == exec[e].attempts
    <2>1. n \in 0 .. AttemptCap
      BY DEF ExecRecord
    <2>2. Bump(n) \in 0 .. AttemptCap
      BY <2>1, BumpType
    <2>3. Unclocked([row[k] EXCEPT !.status = "completed"]).status = "completed"
      BY <1>0 DEF Unclocked, Row
    <2>4. Unclocked(DeadLettered(row[k], n)).status = "dead_letter"
      BY <1>0, <2>2 DEF Unclocked, DeadLettered, Row
    <2>5. Unclocked(Retried(row[k], n)).attempts = Bump(n)
      BY <1>0, <2>2 DEF Unclocked, Retried, Row
    <2>6. \/ row'[k] = row[k]
          \/ row'[k] = Unclocked([row[k] EXCEPT !.status = "completed"])
          \/ row'[k] = Unclocked(DeadLettered(row[k], n))
          \/ ~Exhausts(n) /\ row'[k] = Unclocked(Retried(row[k], n))
      BY <1>12 DEF Complete, DeadLetter, Retry, Outcome
    <2> HIDE DEF n
    <2> QED
      BY <1>1, <2>1, <2>3, <2>4, <2>5, <2>6
  <1>13. ASSUME NEW p \in Procs, BootZombies(p) PROVE Goal
    <2>1. row'[k] = row[k] \/ row'[k] = Zombie(row[k])
      BY <1>13 DEF BootZombies
    <2> QED
      BY <1>0, <1>1, <2>1, LeaseAfter DEF Terminal
  <1>14. ASSUME NEW p \in Procs, BootOrphans(p) PROVE Goal
    <2>1. Unleased(row[k]).attempts = row[k].attempts
      BY <1>0 DEF Unleased, Row
    <2>2. row'[k] = row[k] \/ (Held(k) /\ row'[k] = Unleased(row[k]))
      BY <1>14 DEF BootOrphans, Others
    <2> QED
      BY <1>1, <2>1, <2>2 DEF Held
  <1>15. ASSUME NEW p \in Procs, Release(p) PROVE Goal
    BY <1>15 DEF Release, OneInstance
  <1>16. ASSUME UNCHANGED row PROVE Goal
    BY <1>1, <1>16
  <1> HIDE DEF Goal
  <1> QED
    BY <1>2, <1>3, <1>c, <1>4, <1>5, <1>6, <1>7, <1>8, <1>9, <1>10, <1>11, <1>12, <1>13,
       <1>14, <1>15, <1>16
    DEF Next, Time, Client, Loops, Execution, Lifecycle, vars, ForceRead,
        HandlerOverruns, CycleEnd, PollStart, PollEnd, StartFails,
        OutcomeIgnored, OutcomeLost, BootUncleaned, Stop, ReleaseFails, Exit, Crash, Gone

LEMMA BudgetedStep ==
  ASSUME TypeOK, Quiet, Undisturbed, Budgeted, [Next]_vars
  PROVE  Budgeted'
  <1> SUFFICES ASSUME NEW k \in Jobs, row'[k].status \in {"pending", "leased", "processing"}
               PROVE  row'[k].attempts < MaxAttempts
    BY DEF Budgeted
  <1>1. ASSUME row[k].status \in {"pending", "leased", "processing"},
               row'[k].attempts = row[k].attempts
        PROVE  row'[k].attempts < MaxAttempts
    BY <1>1 DEF Budgeted
  <1>2. CASE row'[k].status = "pending"
    BY <1>1, <1>2, PendingFrom, BumpBudget, AttemptsAssumption DEF Undisturbed
  <1>3. CASE Held(k)' /\ \E e \in Execs, j \in Jobs : Dequeues(e, j)
    <2>1. PICK e \in Execs, j \in Jobs : Dequeues(e, j)
      BY <1>3
    <2>2. /\ row'[k].attempts = row[k].attempts
          /\ k # j => row'[k] = row[k]
          /\ k = j => row[k].status \in {"pending", "leased", "processing"}
      BY <2>1, DequeueMoves DEF Dequeues, Held
    <2> QED
      BY <1>1, <1>3, <2>2 DEF Held
  <1>4. CASE Held(k)' /\ \E e \in Execs : StartWrite(e)
    <2>1. PICK e \in Execs : StartWrite(e)
      BY <1>4
    <2>2. exec[e].pc = "dispatched" /\ row[exec[e].job].status = "leased"
      BY <2>1 DEF StartWrite, Undisturbed, DispatchedHolds
    <2>3. /\ row'[k].attempts = row[k].attempts
          /\ k # exec[e].job => row'[k] = row[k]
      BY <2>1, StartMoves
    <2> QED
      BY <1>1, <1>4, <2>2, <2>3 DEF Held
  <1>5. CASE Held(k)' /\ OtherStep
    BY <1>1, <1>5 DEF OtherStep, LeaseKept, Held
  <1> QED
    BY <1>2, <1>3, <1>4, <1>5, Steps DEF Held

\* Unless a lease lapses, an instance stops or boots over another, or a
\* reclaim is forced, no row waits for a worker with its attempts used up.
THEOREM PendingRowsHaveBudget ==
  ASSUME Quiet
  PROVE  Spec => []PendingHasBudget
  <1>1. Init => Budgeted
    BY DEF Init, NoRow, Budgeted
  <1>2. TypeOK /\ Undisturbed /\ Budgeted /\ [Next]_vars => Budgeted'
    BY BudgetedStep
  <1>3. Budgeted => PendingHasBudget
    BY DEF Budgeted, PendingHasBudget
  <1> QED
    BY <1>1, <1>2, <1>3, TypeCorrect, UndisturbedAlways, PTL DEF Spec

-----------------------------------------------------------------------------
(* Two handlers on one row.  An execution that runs keeps the lease it     *)
(* started with and its heartbeat, so nobody else is given its row.        *)

RunnersHold ==
  \A e \in Execs :
    exec[e].pc = "running" =>
      /\ LeaseGuard(e)
      /\ row[exec[e].job].lease = "live"
      /\ ~row[exec[e].job].over
      /\ exec[e].beating

LEMMA BegunBeats ==
  ASSUME NEW x \in ExecRecord, NEW s \in Stamps
  PROVE  Begun(x, s).beating
  BY DEF Begun, ExecRecord

\* Who runs after a step ran before it, with the same row, or started in it.
LEMMA RunningFrom ==
  ASSUME TypeOK, [Next]_vars, NEW e \in Execs, exec'[e].pc = "running"
  PROVE  \/ /\ exec[e].pc = "running"
            /\ exec'[e].job = exec[e].job
            /\ exec'[e].stamp = exec[e].stamp
         \/ StartWrite(e)
  <1>1. CASE \E x \in Execs, j \in Jobs : Dequeues(x, j)
    <2>1. PICK x \in Execs, j \in Jobs : Dequeues(x, j)
      BY <1>1
    <2>2. row[j].attempts \in 0 .. AttemptCap
      BY DEF TypeOK, Row
    <2> QED
      BY <2>1, <2>2, DequeueMoves, DispatchedType
  <1>2. CASE \E x \in Execs : StartWrite(x)
    <2>1. PICK x \in Execs : StartWrite(x)
      BY <1>2
    <2> QED
      BY <2>1, StartMoves
  <1>3. CASE OtherStep
    BY <1>3, IdleType DEF OtherStep, ExecKept, ExecEnds
  <1> QED
    BY <1>1, <1>2, <1>3, Steps

LEMMA RunnersStep ==
  ASSUME TypeOK, AwakeOnly, Quiet, "overrun" \notin Faults, Undisturbed,
         RunnersHold, NoDoubleProcessing, [Next]_vars
  PROVE  RunnersHold'
  <1> SUFFICES ASSUME NEW e \in Execs, exec'[e].pc = "running", NEW k, k = exec'[e].job
               PROVE  /\ row'[k].status = "processing"
                      /\ row'[k].owner = Home(e)
                      /\ row'[k].stamp = exec'[e].stamp
                      /\ row'[k].lease = "live"
                      /\ ~row'[k].over
                      /\ exec'[e].beating
    BY DEF RunnersHold, LeaseGuard
  <1>1. CASE StartWrite(e)
    <2>1. PICK s \in FreshStamps(Home(e)) : exec'[e] = Begun(exec[e], s)
      BY <1>1, StartMoves
    <2>2. exec'[e].beating
      BY <2>1, BegunBeats DEF TypeOK, FreshStamps
    <2> QED
      BY <1>1, <2>2, StartMoves
  <1>2. CASE exec[e].pc = "running" /\ exec[e].job = k /\ exec'[e].stamp = exec[e].stamp
    <2>1. /\ k \in Jobs
          /\ LeaseGuard(e)
          /\ row[k].lease = "live"
          /\ ~row[k].over
          /\ exec[e].beating
          /\ row[k].status = "processing"
          /\ row[k].owner = Home(e)
          /\ row[k].stamp = exec[e].stamp
      BY <1>2 DEF RunnersHold, TypeOK, LeaseGuard
    <2>2. Attended(k)
      BY <1>2, <2>1 DEF Attended, Running
    <2>3. exec'[e].beating
      BY <1>2, <2>1, FlagMoves, IdleType DEF Undisturbed, OverrunsOnly, OneInstance
    <2>4. CASE Untouched(k)
      BY <1>2, <2>1, <2>3, <2>4 DEF Untouched
    <2>5. ASSUME NEW x \in Execs, exec[x].job = k, StartWrite(x) \/ NoHandlerFail(x)
          PROVE  FALSE
      BY <2>1, <2>5 DEF StartWrite, NoHandlerFail, Undisturbed, DispatchedHolds
    <2>6. ASSUME NEW x \in Execs, exec[x].job = k, Running(x), exec'[x] = Idle
          PROVE  FALSE
      <3>1. x = e
        BY <1>2, <2>6 DEF NoDoubleProcessing, Running
      <3> QED
        BY <2>6, <3>1, IdleType
    <2> QED
      BY <2>1, <2>2, <2>4, <2>5, <2>6, AttendedStays DEF Undisturbed
  <1> QED
    BY <1>1, <1>2, RunningFrom

LEMMA OneRunnerStep ==
  ASSUME TypeOK, Undisturbed, RunnersHold, NoDoubleProcessing, [Next]_vars
  PROVE  NoDoubleProcessing'
  <1>1. ASSUME NEW e \in Execs, NEW f \in Execs, StartWrite(e), exec'[f].pc = "running",
               exec'[e].job = exec'[f].job
        PROVE  e = f
    <2> SUFFICES ASSUME e # f PROVE FALSE
      OBVIOUS
    <2>1. /\ exec'[f] = exec[f]
          /\ exec[e].pc = "dispatched"
          /\ exec'[e].job = exec[e].job
      BY <1>1, StartMoves
    <2>2. row[exec[e].job].status = "leased"
      BY <2>1 DEF Undisturbed, DispatchedHolds
    <2>3. row[exec[f].job].status = "processing"
      BY <1>1, <2>1 DEF RunnersHold, LeaseGuard
    <2> QED
      BY <1>1, <2>1, <2>2, <2>3
  <1> SUFFICES ASSUME NEW e \in Execs, NEW f \in Execs, exec'[e].pc = "running",
                      exec'[f].pc = "running", exec'[e].job = exec'[f].job
               PROVE  e = f
    BY DEF NoDoubleProcessing, Running
  <1>2. CASE StartWrite(e) \/ StartWrite(f)
    BY <1>1, <1>2
  <1>3. CASE ~StartWrite(e) /\ ~StartWrite(f)
    BY <1>3, RunningFrom DEF NoDoubleProcessing, Running
  <1> QED
    BY <1>2, <1>3

\* As long as all that goes wrong is that instances crash and writes throw, no
\* row is worked on twice at a time: what a crash leaves is handed on only
\* when its execution is gone.
THEOREM NobodyWorksTwice ==
  ASSUME Faults \subseteq {"crash", "dberror"}
  PROVE  Spec => []NoDoubleProcessing
  <1>1. Quiet /\ "overrun" \notin Faults
    BY DEF Quiet
  <1>2. Init => RunnersHold /\ NoDoubleProcessing
    BY IdleType DEF Init, RunnersHold, NoDoubleProcessing, Running
  <1>3. TypeOK /\ AwakeOnly /\ Undisturbed /\ RunnersHold /\ NoDoubleProcessing /\ [Next]_vars
          => (RunnersHold /\ NoDoubleProcessing)'
    BY <1>1, RunnersStep, OneRunnerStep
  <1>4. Spec => []Undisturbed
    BY <1>1, UndisturbedAlways
  <1> QED
    BY <1>2, <1>3, <1>4, TypeCorrect, AwakeAlways, PTL DEF Spec

===============================================================================
