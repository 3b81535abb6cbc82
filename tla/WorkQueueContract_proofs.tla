----------------------- MODULE WorkQueueContract_proofs -----------------------
(***************************************************************************)
(* WorkQueue implements JobContract: every step of the scheduler, of its   *)
(* instances' lives and of the operator is a step of the contract or none. *)
(***************************************************************************)
EXTENDS WorkQueue_proofs

\* What the contract sees of a state.
Phase == [j \in Jobs |-> PhaseOf(row[j].status)]
Task == [e \in Execs |-> [pc |-> exec[e].pc, job |-> exec[e].job]]

LEMMA PhaseCases ==
  /\ PhaseOf("absent") = "absent"
  /\ PhaseOf("pending") = "waiting"
  /\ PhaseOf("leased") = "held"
  /\ PhaseOf("processing") = "held"
  /\ \A st \in Terminal : PhaseOf(st) = "ended"
  BY DEF PhaseOf, Terminal

LEMMA HeldPhase == ASSUME TypeOK, NEW j \in Jobs PROVE Held(j) => Phase[j] = "held"
  BY PhaseCases DEF Held, Phase

-----------------------------------------------------------------------------
(* The shapes of steps.                                                    *)

\* No status, current execution or task changes.
LEMMA Unseen ==
  ASSUME TypeOK, UNCHANGED holder,
         \A j \in Jobs : row'[j].status = row[j].status,
         \A e \in Execs : exec'[e].pc = exec[e].pc /\ exec'[e].job = exec[e].job
  PROVE  UNCHANGED Contract!vars
  <1>1. Phase' = Phase
    BY DEF Phase
  <1>2. Task' = Task
    BY DEF Task
  <1> QED
    BY <1>1, <1>2 DEF Phase, Task, Contract!vars, Contract!jobs

\* Some held rows are handed back or end, their executions go on regardless.
LEMMA TakenBack ==
  ASSUME TypeOK, TypeOK',
         \A j \in Jobs :
           \/ row'[j].status = row[j].status /\ holder'[j] = holder[j]
           \/ /\ Held(j)
              /\ row'[j].status \in {"pending"} \cup Terminal
              /\ holder'[j] = None,
         \A e \in Execs : exec'[e].pc = exec[e].pc /\ exec'[e].job = exec[e].job
  PROVE  Contract!TakeBack
  <1>1. Task' = Task
    BY DEF Task
  <1>2. Phase' \in [Jobs -> Contract!Phases]
    <2>1. \A j \in Jobs :
            row'[j].status \in {"absent", "pending", "leased", "processing"} \cup Terminal
      BY DEF TypeOK, Row
    <2> QED
      BY <2>1, PhaseCases DEF Phase, Contract!Phases
  <1>3. holder' \in [Jobs -> Execs \cup {None}]
    BY DEF TypeOK
  <1>4. ASSUME NEW j \in Jobs
        PROVE  \/ Phase'[j] = Phase[j] /\ holder'[j] = holder[j]
               \/ /\ Phase[j] = "held"
                  /\ Phase'[j] \in {"waiting", "ended"}
                  /\ holder'[j] = None
    BY HeldPhase, PhaseCases DEF Phase
  <1> QED
    BY <1>1, <1>2, <1>3, <1>4 DEF Phase, Task, Contract!TakeBack

\* Some executions end without a trace.
LEMMA Quits ==
  ASSUME TypeOK, UNCHANGED <<row, holder>>, NEW E \in SUBSET Execs,
         exec' = [e \in Execs |-> IF e \in E THEN Idle ELSE exec[e]]
  PROVE  Contract!Quit
  <1>1. Task' = [e \in Execs |-> IF e \in E THEN Contract!Free ELSE Task[e]]
    BY DEF Task, Contract!Free, Idle
  <1>2. Phase' = Phase
    BY DEF Phase
  <1> QED
    BY <1>1, <1>2 DEF Phase, Task, Contract!Quit, Contract!jobs

-----------------------------------------------------------------------------
(* The steps that the contract sees.                                       *)

\* A dequeue hands the row out.
LEMMA LeaseHandsOut ==
  ASSUME TypeOK, NEW e \in Execs, NEW j \in Jobs, Lease(e, j),
         row[j].status = "pending" \/ Held(j)
  PROVE  Contract!HandOut(e, j)
  <1>1. row'[j].status = "leased" /\ \A k \in Jobs \ {j} : row'[k] = row[k]
    BY DEF Lease, Taken, TypeOK, Row
  <1>2. Phase' = [Phase EXCEPT ![j] = "held"]
    BY <1>1, PhaseCases DEF Phase
  <1>3. Phase[j] \in {"waiting", "held"}
    BY HeldPhase, PhaseCases DEF Phase
  <1>4. Task[e].pc = "idle" /\ Task' = [Task EXCEPT ![e] = [pc |-> "dispatched", job |-> j]]
    <2>1. row[j].attempts \in 0 .. AttemptCap
      BY DEF TypeOK, Row
    <2> QED
      BY <2>1, DispatchedType DEF Lease, Task, TypeOK
  <1>5. holder' = [holder EXCEPT ![j] = None]
    BY DEF Lease
  <1> QED
    BY <1>2, <1>3, <1>4, <1>5 DEF Phase, Task, Contract!HandOut

\* The start write makes its execution the current one.
LEMMA StartBegins ==
  ASSUME TypeOK, NEW e \in Execs, StartWrite(e)
  PROVE  Contract!Begin(e)
  <1> DEFINE j == exec[e].job
  <1>1. j \in Jobs /\ exec[e].pc = "dispatched"
    BY DEF StartWrite, TypeOK
  <1>2. row'[j].status = "processing" /\ \A k \in Jobs \ {j} : row'[k] = row[k]
    BY <1>1 DEF StartWrite, Taken, TypeOK, Row
  <1>3. Phase' = [Phase EXCEPT ![j] = "held"]
    BY <1>1, <1>2, PhaseCases DEF Phase
  <1>4. exec'[e].pc = "running" /\ exec'[e].job = j /\ \A f \in Execs \ {e} : exec'[f] = exec[f]
    BY BegunType DEF StartWrite, FreshStamps, TypeOK
  <1>5. Task[e] = [pc |-> "dispatched", job |-> j] /\ Task' = [Task EXCEPT ![e].pc = "running"]
    BY <1>1, <1>4 DEF Task
  <1>6. holder' = [holder EXCEPT ![j] = e]
    BY DEF StartWrite
  <1> QED
    BY <1>3, <1>5, <1>6 DEF Phase, Task, Contract!Begin

LEMMA NoHandlerRefuses ==
  ASSUME TypeOK, NEW e \in Execs, NoHandlerFail(e)
  PROVE  Contract!Refuse(e)
  <1> DEFINE j == exec[e].job
  <1>1. j \in Jobs /\ exec[e].pc = "dispatched"
    BY DEF NoHandlerFail, TypeOK
  <1>2. row'[j].status = "failed" /\ \A k \in Jobs \ {j} : row'[k] = row[k]
    BY <1>1 DEF NoHandlerFail, Unclocked, TypeOK, Row
  <1>3. Phase' = [Phase EXCEPT ![j] = "ended"]
    BY <1>1, <1>2, PhaseCases DEF Phase, Terminal
  <1>4. Task[e] = [pc |-> "dispatched", job |-> j] /\ Task' = [Task EXCEPT ![e] = Contract!Free]
    BY <1>1 DEF NoHandlerFail, Ends, Task, TypeOK, Idle, Contract!Free
  <1>5. holder' = [holder EXCEPT ![j] = None]
    BY DEF NoHandlerFail
  <1> QED
    BY <1>3, <1>4, <1>5 DEF Phase, Task, Contract!Refuse

\* An outcome write is made by the current execution: this is where the lease
\* guard is needed.
LEMMA OutcomeFinishes ==
  ASSUME TypeOK, FencedOutcome, NEW e \in Execs, NEW r \in Row, Outcome(e, r),
         r.status \in {"pending"} \cup Terminal
  PROVE  Contract!Finish(e)
  <1> DEFINE j == exec[e].job
             ph == PhaseOf(r.status)
  <1>1. j \in Jobs /\ exec[e].pc = "running" /\ holder[j] = e
    BY DEF Outcome, Running, TypeOK, FencedOutcome
  <1>2. row'[j].status = r.status /\ \A k \in Jobs \ {j} : row'[k] = row[k]
    BY <1>1, StatusAfter DEF Outcome, TypeOK
  <1>3. ph \in {"waiting", "ended"}
    BY PhaseCases
  <1>4. Phase' = [Phase EXCEPT ![j] = ph]
    BY <1>1, <1>2 DEF Phase
  <1>5. Task[e] = [pc |-> "running", job |-> j] /\ Task' = [Task EXCEPT ![e] = Contract!Free]
    BY <1>1 DEF Outcome, Ends, Task, TypeOK, Idle, Contract!Free
  <1>6. holder' = [holder EXCEPT ![j] = None]
    BY DEF Outcome
  <1> HIDE DEF ph
  <1> QED
    BY <1>1, <1>3, <1>4, <1>5, <1>6 DEF Phase, Task, Contract!Finish

-----------------------------------------------------------------------------
(* The refinement.                                                         *)

LEMMA ContractInit == Init => Contract!Init
  <1> SUFFICES ASSUME Init PROVE Contract!Init
    OBVIOUS
  <1>1. Phase = [j \in Jobs |-> "absent"]
    BY PhaseCases DEF Init, NoRow, Phase
  <1>2. Task = [e \in Execs |-> Contract!Free]
    BY DEF Init, Task, Idle, Contract!Free
  <1> QED
    BY <1>1, <1>2 DEF Init, Phase, Task, Contract!Init

LEMMA ContractStep ==
  ASSUME TypeOK, TypeOK', FencedOutcome, [Next]_vars
  PROVE  [Contract!Next]_(Contract!vars)
  <1>1. ASSUME NEW j \in Jobs, Enqueue(j) PROVE Contract!Enqueue(j)
    <2>1. row'[j].status = "pending" /\ \A k \in Jobs \ {j} : row'[k] = row[k]
      BY <1>1 DEF Enqueue, NoRow, TypeOK
    <2>2. Phase[j] = "absent" /\ Phase' = [Phase EXCEPT ![j] = "waiting"]
      BY <1>1, <2>1, PhaseCases DEF Enqueue, Phase
    <2>3. Task' = Task /\ UNCHANGED holder
      BY <1>1 DEF Enqueue, Task
    <2> QED
      BY <2>2, <2>3 DEF Phase, Task, Contract!Enqueue
  <1>2. ASSUME NEW j \in Jobs, Replay(j) PROVE Contract!Replay(j)
    <2>1. row'[j].status = "pending" /\ \A k \in Jobs \ {j} : row'[k] = row[k]
      BY <1>2 DEF Replay, Unleased, TypeOK, Row
    <2>2. Phase[j] = "ended"
      BY <1>2, PhaseCases DEF Replay, Phase, Terminal
    <2>3. Phase' = [Phase EXCEPT ![j] = "waiting"]
      BY <2>1, PhaseCases DEF Phase
    <2>4. Task' = Task /\ UNCHANGED holder
      BY <1>2 DEF Replay, Task
    <2> QED
      BY <2>2, <2>3, <2>4 DEF Phase, Task, Contract!Replay
  <1>c. ASSUME CancelPending PROVE Contract!Withdraw
    <2> DEFINE S == {j \in Jobs : row'[j] # row[j]}
    <2>1. S \in SUBSET {j \in Jobs : Phase[j] = "waiting"}
      BY <1>c, CancelMoves, PhaseCases DEF Phase
    <2>2. Phase' = [j \in Jobs |-> IF j \in S THEN "ended" ELSE Phase[j]]
      BY <1>c, CancelMoves, PhaseCases DEF Phase, Terminal
    <2>3. Task' = Task /\ UNCHANGED holder
      BY <1>c, CancelMoves DEF Task
    <2> HIDE DEF S
    <2> QED
      BY <2>1, <2>2, <2>3 DEF Phase, Task, Contract!Withdraw
  <1>3. ASSUME NEW j \in Jobs, ForceWrite(j) PROVE Contract!TakeBack
    BY <1>3, TakenBack, StatusAfter DEF ForceWrite, Vacate, TypeOK, Terminal
  <1>4. ASSUME NEW j \in Jobs,
               LeaseLapses(j) \/ HeartbeatFades(j) \/ RowOverruns(j) \/ RetryComesDue(j)
        PROVE  UNCHANGED Contract!vars
    <2>1. /\ [row[j] EXCEPT !.lease = "expired"].status = row[j].status
          /\ [row[j] EXCEPT !.silent = TRUE].status = row[j].status
          /\ [row[j] EXCEPT !.over = TRUE].status = row[j].status
          /\ [row[j] EXCEPT !.due = TRUE].status = row[j].status
      BY DEF TypeOK, Row
    <2>2. \A k \in Jobs : row'[k].status = row[k].status
      BY <1>4, <2>1
      DEF LeaseLapses, HeartbeatFades, RowOverruns, RetryComesDue, TypeOK
    <2>3. UNCHANGED <<holder, exec>>
      BY <1>4 DEF LeaseLapses, HeartbeatFades, RowOverruns, RetryComesDue
    <2> QED
      BY <2>2, <2>3, Unseen
  <1>5. ASSUME NEW e \in Execs, HandlerOverruns(e) PROVE UNCHANGED Contract!vars
    <2>1. \A f \in Execs : exec'[f].pc = exec[f].pc /\ exec'[f].job = exec[f].job
      BY <1>5 DEF HandlerOverruns, TypeOK, ExecRecord
    <2> QED
      BY <1>5, <2>1, Unseen DEF HandlerOverruns
  <1>6. ASSUME NEW p \in Procs, SweepExhaust(p) \/ SweepRelease(p) PROVE Contract!TakeBack
    BY <1>6, TakenBack, StatusAfter
    DEF SweepExhaust, SweepRelease, StaleJobs, Vacate, TypeOK, Terminal
  <1>7. ASSUME NEW e \in Execs, Dequeue(e) \/ PollDequeue(e)
        PROVE  \E j \in Jobs : Contract!HandOut(e, j)
    <2>1. PICK j \in Jobs : Lease(e, j) /\ (row[j].status = "pending" \/ Held(j))
      BY <1>7, JobsAssumption DEF Dequeue, PollDequeue, NextJobs, Due, Lapsed
    <2> QED
      BY <2>1, LeaseHandsOut
  <1>8. ASSUME NEW e \in Execs, StartFails(e) \/ OutcomeIgnored(e) \/ OutcomeLost(e)
        PROVE  Contract!Quit
    <2>1. UNCHANGED <<row, holder>>
      BY <1>8 DEF StartFails, OutcomeIgnored, OutcomeLost
    <2>2. exec' = [f \in Execs |-> IF f \in {e} THEN Idle ELSE exec[f]]
      BY <1>8 DEF StartFails, OutcomeIgnored, OutcomeLost, Ends, TypeOK
    <2> QED
      BY <2>1, <2>2, Quits
  <1>9. ASSUME NEW e \in Execs, Heartbeat(e) \/ HeartbeatAborts(e)
        PROVE  UNCHANGED Contract!vars
    <2>1. \A r \in Row, ls \in {"live", "expired"} : Pinged(r, ls).status = r.status
      BY DEF Pinged, Row
    <2>2. \A k \in Jobs : row'[k].status = row[k].status
      BY <1>9, <2>1 DEF Heartbeat, HeartbeatAborts, Running, TypeOK
    <2>3. \A f \in Execs : exec'[f].pc = exec[f].pc /\ exec'[f].job = exec[f].job
      BY <1>9 DEF Heartbeat, HeartbeatAborts, TypeOK, ExecRecord
    <2>4. UNCHANGED holder
      BY <1>9 DEF Heartbeat, HeartbeatAborts
    <2> QED
      BY <2>2, <2>3, <2>4, Unseen
  <1>10. ASSUME NEW e \in Execs, Complete(e) \/ DeadLetter(e) \/ Retry(e)
         PROVE  Contract!Finish(e)
    <2> DEFINE r == row[exec[e].job]
               n == exec[e].attempts
    <2>1. r \in Row /\ n \in 0 .. AttemptCap
      BY <1>10 DEF Complete, DeadLetter, Retry, Running, TypeOK, ExecRecord
    <2>2. /\ [r EXCEPT !.status = "completed"] \in Row
          /\ [r EXCEPT !.status = "completed"].status = "completed"
      BY <2>1 DEF Row, Terminal
    <2>3. DeadLettered(r, n) \in Row /\ DeadLettered(r, n).status = "dead_letter"
      BY <2>1, DeadLetteredType DEF DeadLettered, Row
    <2>4. Retried(r, n) \in Row /\ Retried(r, n).status = "pending"
      BY <2>1, RetriedType DEF Retried, Row
    <2>5. {"completed", "dead_letter"} \subseteq Terminal
      BY DEF Terminal
    <2> HIDE DEF r, n
    <2> QED
      BY <1>10, <2>2, <2>3, <2>4, <2>5, OutcomeFinishes
      DEF Complete, DeadLetter, Retry, r, n
  <1>11. ASSUME NEW p \in Procs, BootZombies(p) \/ BootOrphans(p) PROVE Contract!TakeBack
    <2>1. \A r \in Row : Zombie(r).status \in Terminal /\ Unleased(r).status = "pending"
      BY StatusAfter
    <2>2. CASE BootZombies(p)
      BY <2>1, <2>2, TakenBack DEF BootZombies, Others, Vacate, TypeOK
    <2>3. CASE BootOrphans(p)
      BY <2>1, <2>3, TakenBack DEF BootOrphans, Others, Vacate, TypeOK
    <2> QED
      BY <1>11, <2>2, <2>3
  <1>12. ASSUME NEW p \in Procs, Release(p) \/ ReleaseFails(p)
         PROVE  Contract!TakeBack \/ UNCHANGED Contract!vars
    <2>1. \A f \in Execs : exec'[f].pc = exec[f].pc /\ exec'[f].job = exec[f].job
      BY <1>12 DEF Release, ReleaseFails, HeartbeatsStop, TypeOK, ExecRecord
    <2>2. CASE Release(p)
      BY <2>1, <2>2, TakenBack, StatusAfter DEF Release, Vacate, TypeOK
    <2>3. CASE ReleaseFails(p)
      BY <2>1, <2>3, Unseen DEF ReleaseFails
    <2> QED
      BY <1>12, <2>2, <2>3
  <1>13. ASSUME NEW p \in Procs, Exit(p) \/ Crash(p) PROVE Contract!Quit
    <2>1. UNCHANGED <<row, holder>>
      BY <1>13 DEF Exit, Crash, Gone
    <2>2. exec' = [e \in Execs |-> IF e \in {f \in Execs : Home(f) = p} THEN Idle ELSE exec[e]]
      BY <1>13 DEF Exit, Crash, Gone
    <2> QED
      BY <2>1, <2>2, Quits
  <1>14. ASSUME UNCHANGED <<row, holder, exec>> PROVE UNCHANGED Contract!vars
    BY <1>14, Unseen
  <1>15. CASE Time
    BY <1>4, <1>5, <1>15 DEF Time
  <1>16. CASE Client
    <2>1. \A j \in Jobs : ForceRead(j) => UNCHANGED <<row, holder, exec>>
      BY DEF ForceRead
    <2> QED
      BY <1>1, <1>2, <1>c, <1>3, <1>14, <1>16, <2>1 DEF Client, Contract!Next
  <1>17. CASE Loops
    <2>1. \A p \in Procs : CycleEnd(p) \/ PollStart(p) \/ PollEnd(p)
                            => UNCHANGED <<row, holder, exec>>
      BY DEF CycleEnd, PollStart, PollEnd
    <2> QED
      BY <1>6, <1>7, <1>14, <1>17, <2>1 DEF Loops, Contract!Next
  <1>18. CASE Execution
    BY <1>8, <1>9, <1>10, <1>18, StartBegins, NoHandlerRefuses
    DEF Execution, Contract!Next
  <1>19. CASE Lifecycle
    <2>1. \A p \in Procs : BootUncleaned(p) \/ Stop(p) => UNCHANGED <<row, holder, exec>>
      BY DEF BootUncleaned, Stop
    <2> QED
      BY <1>11, <1>12, <1>13, <1>14, <1>19, <2>1 DEF Lifecycle, Contract!Next
  <1>20. CASE UNCHANGED vars
    BY <1>14, <1>20 DEF vars
  <1> QED
    BY <1>15, <1>16, <1>17, <1>18, <1>19, <1>20 DEF Next

\* Whatever instances boot, stall, stop and die, and whatever the sweeps and
\* the operator take back, the queue behaves as the contract says: the last
\* execution to begin a row that has not lost it is the only one to decide it.
THEOREM ContractKept == Spec => KeepsContract
  BY TypeCorrect, OutcomesAreFenced, ContractInit, ContractStep, PTL
  DEF Spec, KeepsContract, Contract!Spec

===============================================================================
