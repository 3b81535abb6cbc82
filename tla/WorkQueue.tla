------------------------------ MODULE WorkQueue ------------------------------
(***************************************************************************)
(* The durable work queue of NoBull OS: the work_queue table, the          *)
(* scheduler instances that lease rows from it, run their handlers and     *)
(* write the outcome, the sweeps that take leases back, the operator's     *)
(* force-reclaim and replay, and the start and the end of an instance.     *)
(*                                                                         *)
(* Every SQL statement is one step (it commits on its own); the awaits of  *)
(* the code are the places where other steps come in between.              *)
(*                                                                         *)
(* Time is abstract.  What the code compares with the clock is a fact of   *)
(* the row or of the execution (a lease is live or expired, a heartbeat    *)
(* has been silent for ten minutes, an attempt is past its queue's         *)
(* maximum, a retry is due) that the steps of Time change.                 *)
(***************************************************************************)
EXTENDS Naturals

CONSTANTS
  Jobs,         \* the rows of work_queue
  FrontJobs,    \* the rows the Front fast-poll loop drains
  Procs,        \* scheduler instances; each boot is a new one (BOOT_ID)
  Execs,        \* the executions: an instance and one of its class slots
  Stamps,       \* clock readings an execution may have (leased_at)
  MaxAttempts,  \* max_attempts of every row
  AttemptCap,   \* bound: attempt_count is not counted any further
  Unhandled,    \* the <<p, j>> where instance p has no handler for j's queue
  Faults,       \* what may go wrong in this instance of the model
  AtDequeue,    \* a leased_at written by a dequeue
  None          \* SQL NULL

FaultKinds == {"lapse", "overrun", "dberror", "force", "stop", "crash", "boot"}

ASSUME JobsAssumption == FrontJobs \subseteq Jobs
ASSUME ExecsAssumption == \A e \in Execs : e[1] \in Procs
ASSUME AttemptsAssumption ==
  /\ MaxAttempts \in Nat \ {0}
  /\ AttemptCap \in Nat
  /\ AttemptCap >= MaxAttempts
ASSUME NullAssumption ==
  /\ None \notin Procs
  /\ None \notin Stamps
  /\ None \notin Jobs
  /\ None \notin Execs
  /\ AtDequeue \notin Stamps
  /\ AtDequeue # None

VARIABLES
  row,     \* the table: one record per job
  holder,  \* ghost: the execution that started the row's current attempt
  exec,    \* the executions (processJobInner) of every instance
  proc,    \* where each instance is between boot and exit
  cycle,   \* the main scheduler loop of each instance
  poll,    \* fastPollIsRunning of each instance
  force    \* what a force-reclaim has decided and not yet written

vars == <<row, holder, exec, proc, cycle, poll, force>>

\* An execution is <<instance, slot>>: the slot is taken before the dequeue and
\* given back when processJob has ended.
Home(e) == e[1]

Idle == [pc |-> "idle", job |-> None, stamp |-> None, attempts |-> 0,
         beating |-> FALSE, over |-> FALSE]

NoRow == [status |-> "absent", owner |-> None, stamp |-> None,
          lease |-> "none", silent |-> TRUE, over |-> FALSE,
          attempts |-> 0, due |-> FALSE]

Terminal == {"completed", "failed", "dead_letter", "cancelled"}

Held(j) == row[j].status \in {"leased", "processing"}

\* attempt_count + 1.  The code only compares attempt_count + 1 with
\* max_attempts, so counting past AttemptCap >= MaxAttempts changes nothing.
Bump(n) == IF n < AttemptCap THEN n + 1 ELSE n

\* Mutant: compares the attempts made, not the one being made.
ExhaustsLate(n) == n >= MaxAttempts

Exhausts(n) == n + 1 >= MaxAttempts

\* SET status = st and a lease of instance p that starts now.
Taken(r, st, p, s) ==
  [r EXCEPT !.status = st, !.owner = p, !.stamp = s,
            !.lease = "live", !.silent = FALSE, !.over = FALSE]

\* SET status = 'pending' and every lease column NULL.
Unleased(r) ==
  [r EXCEPT !.status = "pending", !.owner = None, !.stamp = None,
            !.lease = "none", !.silent = TRUE, !.over = FALSE]

\* What the clock makes of a lease matters while the row is held.
Unclocked(r) == [r EXCEPT !.silent = TRUE, !.over = FALSE]

\* SET status = st, attempt_count + 1: the lease columns keep their values.
GivenUp(r, st) == Unclocked([r EXCEPT !.status = st, !.attempts = Bump(@)])

\* Mutant: lease_owner survives the reclaim.
HandedBackOwned(r) == GivenUp([Unleased(r) EXCEPT !.owner = r.owner], "pending")

\* SET status = 'pending', no lease, attempt_count + 1.
HandedBack(r) == GivenUp(Unleased(r), "pending")

\* The current attempt of the rows in S is over.
Vacate(S) == holder' = [j \in Jobs |-> IF j \in S THEN None ELSE holder[j]]

Alive(p) ==
  proc[p] \in {"cleaning", "up", "stopping", "released", "unreleased"}

Running(e) == exec[e].pc = "running"

\* Mutants of LeaseGuard: each forgets, or adds, a clause.
LeaseGuardNoStamp(e) ==
  LET r == row[exec[e].job] IN r.status = "processing" /\ r.owner = Home(e)

LeaseGuardNoOwner(e) ==
  LET r == row[exec[e].job] IN r.status = "processing" /\ r.stamp = exec[e].stamp

LeaseGuardNoStatus(e) ==
  LET r == row[exec[e].job] IN r.owner = Home(e) /\ r.stamp = exec[e].stamp

LeaseGuardUnexpired(e) ==
  LET r == row[exec[e].job] IN
    /\ r.status = "processing"
    /\ r.owner = Home(e)
    /\ r.stamp = exec[e].stamp
    /\ r.lease = "live"

\* The where clause of an outcome write: an execution may still decide what
\* becomes of its row.
LeaseGuard(e) ==
  LET r == row[exec[e].job] IN
    /\ r.status = "processing"
    /\ r.owner = Home(e)
    /\ r.stamp = exec[e].stamp

\* The where clause of a heartbeat, which does not name the owner.
HeartbeatGuard(e) ==
  LET r == row[exec[e].job] IN
    /\ r.status = "processing"
    /\ r.stamp = exec[e].stamp

-----------------------------------------------------------------------------
(* The enqueue, and what an operator does to rows that nobody has: the     *)
(* replay of a dead letter, and the cancelling of those that wait.         *)

Enqueue(j) ==
  /\ row[j].status = "absent"
  /\ \E d \in BOOLEAN :
       row' = [row EXCEPT ![j] = [NoRow EXCEPT !.status = "pending", !.due = d]]
  /\ UNCHANGED <<holder, exec, proc, cycle, poll, force>>

Replay(j) ==
  /\ row[j].status = "dead_letter"
  /\ row' = [row EXCEPT ![j] =
                [Unleased(row[j]) EXCEPT !.attempts = 0, !.due = TRUE]]
  /\ UNCHANGED <<holder, exec, proc, cycle, poll, force>>

\* cancelPendingJobs: one statement, over as many rows as its limit allows.
CancelPending ==
  \E S \in SUBSET {j \in Jobs : row[j].status = "pending"} :
    /\ S # {}
    /\ row' = [j \in Jobs |->
                  IF j \in S THEN [row[j] EXCEPT !.status = "cancelled"] ELSE row[j]]
    /\ UNCHANGED <<holder, exec, proc, cycle, poll, force>>

-----------------------------------------------------------------------------
(* Time.  Without "lapse" and "overrun" every await is short: a lease whose *)
(* execution is alive and beating is extended before it runs out.          *)

Attended(j) ==
  \E e \in Execs :
    /\ exec[e].job = j
    /\ row[j].owner = Home(e)
    /\ \/ exec[e].pc = "dispatched" /\ row[j].status = "leased"
       \/ Running(e) /\ exec[e].beating /\ LeaseGuard(e)

LeaseLapses(j) ==
  /\ Held(j)
  /\ row[j].lease = "live"
  /\ "lapse" \in Faults \/ ~Attended(j)
  /\ row' = [row EXCEPT ![j].lease = "expired"]
  /\ UNCHANGED <<holder, exec, proc, cycle, poll, force>>

HeartbeatFades(j) ==
  /\ Held(j)
  /\ ~row[j].silent
  /\ "lapse" \in Faults \/ ~Attended(j)
  /\ row' = [row EXCEPT ![j].silent = TRUE]
  /\ UNCHANGED <<holder, exec, proc, cycle, poll, force>>

RowOverruns(j) ==
  /\ Held(j)
  /\ ~row[j].over
  /\ \/ "lapse" \in Faults \/ ~Attended(j)
     \/ "overrun" \in Faults /\ row[j].status = "processing"
  /\ row' = [row EXCEPT ![j].over = TRUE]
  /\ UNCHANGED <<holder, exec, proc, cycle, poll, force>>

HandlerOverruns(e) ==
  /\ "overrun" \in Faults
  /\ Running(e)
  /\ ~exec[e].over
  /\ exec' = [exec EXCEPT ![e].over = TRUE]
  /\ UNCHANGED <<row, holder, proc, cycle, poll, force>>

\* retry_at passes, or recoverStuckPendingJobs clears it.
RetryComesDue(j) ==
  /\ row[j].status # "absent"
  /\ ~row[j].due
  /\ row' = [row EXCEPT ![j].due = TRUE]
  /\ UNCHANGED <<holder, exec, proc, cycle, poll, force>>

-----------------------------------------------------------------------------
(* The main loop: sweep, then dispatch.  isShuttingDown is read when a     *)
(* cycle starts and not again.                                             *)

\* Jobs this instance's sweep leaves alone: those with a heartbeat timer.
BeatingJobs(p) == {exec[e].job : e \in {x \in Execs : Home(x) = p /\ exec[x].beating}}

StaleJobs(p) ==
  {j \in Jobs \ BeatingJobs(p) :
     Held(j) /\ (row[j].lease = "expired" \/ row[j].over)}

SweepExhaust(p) ==
  LET S == {j \in StaleJobs(p) : Exhausts(row[j].attempts)} IN
  /\ proc[p] = "up"
  /\ cycle[p] = "rest"
  /\ cycle' = [cycle EXCEPT ![p] = "sweep"]
  /\ row' = [j \in Jobs |-> IF j \in S THEN GivenUp(row[j], "failed") ELSE row[j]]
  /\ Vacate(S)
  /\ UNCHANGED <<exec, proc, poll, force>>

SweepRelease(p) ==
  LET S == {j \in StaleJobs(p) : ~Exhausts(row[j].attempts)} IN
  /\ cycle[p] = "sweep"
  /\ cycle' = [cycle EXCEPT ![p] = "dispatch"]
  /\ row' = [j \in Jobs |-> IF j \in S THEN HandedBack(row[j]) ELSE row[j]]
  /\ Vacate(S)
  /\ UNCHANGED <<exec, proc, poll, force>>

\* Mutant: the dequeue does not look at lease_expires_at.
LapsedOrNot(Q) == {j \in Q : Held(j)}

\* Pending rows come first; a row whose lease ran out is taken over as it is,
\* its attempt_count included.
Due(Q) == {j \in Q : row[j].status = "pending" /\ row[j].due}
Lapsed(Q) == {j \in Q : Held(j) /\ row[j].lease = "expired"}
NextJobs(Q) == IF Due(Q) # {} THEN Due(Q) ELSE Lapsed(Q)

Dispatched(n, j) ==
  [Idle EXCEPT !.pc = "dispatched", !.job = j, !.attempts = n]

Lease(e, j) ==
  /\ exec[e].pc = "idle"
  /\ row' = [row EXCEPT ![j] = Taken(row[j], "leased", Home(e), AtDequeue)]
  /\ exec' = [exec EXCEPT ![e] = Dispatched(row[j].attempts, j)]
  /\ holder' = [holder EXCEPT ![j] = None]

Dequeue(e) ==
  /\ cycle[Home(e)] = "dispatch"
  /\ \E j \in NextJobs(Jobs \ FrontJobs) : Lease(e, j)
  /\ UNCHANGED <<proc, cycle, poll, force>>

\* After any number of dequeues: each class has one chance, if it has a slot
\* and its queues are not paused; an error ends the cycle at once.
CycleEnd(p) ==
  /\ cycle[p] = "dispatch" \/ (cycle[p] = "sweep" /\ "dberror" \in Faults)
  /\ cycle' = [cycle EXCEPT ![p] = "rest"]
  /\ UNCHANGED <<row, holder, exec, proc, poll, force>>

-----------------------------------------------------------------------------
(* The Front fast-poll loop: it dispatches without a sweep of its own.     *)

PollStart(p) ==
  /\ proc[p] = "up"
  /\ FrontJobs # {}
  /\ ~poll[p]
  /\ poll' = [poll EXCEPT ![p] = TRUE]
  /\ UNCHANGED <<row, holder, exec, proc, cycle, force>>

PollDequeue(e) ==
  /\ poll[Home(e)]
  /\ \E j \in NextJobs(FrontJobs) : Lease(e, j)
  /\ UNCHANGED <<proc, cycle, poll, force>>

PollEnd(p) ==
  /\ poll[p]
  /\ poll' = [poll EXCEPT ![p] = FALSE]
  /\ UNCHANGED <<row, holder, exec, proc, cycle, force>>

-----------------------------------------------------------------------------
(* One execution: processJobInner and its heartbeat.                       *)

Ends(e) == exec' = [exec EXCEPT ![e] = Idle]

\* An instance does not read the same millisecond twice for one job; two
\* instances may.
FreshStamps(p) ==
  Stamps \ {exec[e].stamp : e \in {x \in Execs : Home(x) = p}}

Begun(x, s) == [x EXCEPT !.pc = "running", !.stamp = s, !.beating = TRUE]

\* The start write names the row and nothing else.
StartWrite(e) ==
  LET j == exec[e].job IN
  /\ exec[e].pc = "dispatched"
  /\ <<Home(e), j>> \notin Unhandled
  /\ \E s \in FreshStamps(Home(e)) :
       /\ row' = [row EXCEPT ![j] = Taken(row[j], "processing", Home(e), s)]
       /\ exec' = [exec EXCEPT ![e] = Begun(exec[e], s)]
  /\ holder' = [holder EXCEPT ![j] = e]
  /\ UNCHANGED <<proc, cycle, poll, force>>

\* Mutant: returns without a write.
NoHandlerReturn(e) ==
  /\ exec[e].pc = "dispatched"
  /\ <<Home(e), exec[e].job>> \in Unhandled
  /\ Ends(e)
  /\ UNCHANGED <<row, holder, proc, cycle, poll, force>>

\* So does the write that fails a row whose queue has no handler.
NoHandlerFail(e) ==
  LET j == exec[e].job IN
  /\ exec[e].pc = "dispatched"
  /\ <<Home(e), j>> \in Unhandled
  /\ row' = [row EXCEPT ![j] = Unclocked([row[j] EXCEPT !.status = "failed"])]
  /\ holder' = [holder EXCEPT ![j] = None]
  /\ Ends(e)
  /\ UNCHANGED <<proc, cycle, poll, force>>

\* Either write throws: processJob rejects and the slot is given back.
StartFails(e) ==
  /\ "dberror" \in Faults
  /\ exec[e].pc = "dispatched"
  /\ Ends(e)
  /\ UNCHANGED <<row, holder, proc, cycle, poll, force>>

Pinged(r, ls) == [r EXCEPT !.lease = ls, !.silent = FALSE]

Heartbeat(e) ==
  LET j == exec[e].job IN
  /\ Running(e)
  /\ exec[e].beating
  /\ ~exec[e].over
  /\ HeartbeatGuard(e)
  /\ row' = [row EXCEPT ![j] = Pinged(row[j], "live")]
  /\ UNCHANGED <<holder, exec, proc, cycle, poll, force>>

\* Mutant: past the maximum the tick extends the lease like any other.
HeartbeatExtends(e) ==
  /\ Running(e)
  /\ exec[e].beating
  /\ exec[e].over
  /\ HeartbeatGuard(e)
  /\ row' = [row EXCEPT ![exec[e].job] = Pinged(row[exec[e].job], "live")]
  /\ UNCHANGED <<holder, exec, proc, cycle, poll, force>>

\* Past the queue's maximum the tick gives the lease up and is the last one.
HeartbeatAborts(e) ==
  LET j == exec[e].job IN
  /\ Running(e)
  /\ exec[e].beating
  /\ exec[e].over
  /\ row' = IF HeartbeatGuard(e)
              THEN [row EXCEPT ![j] = Pinged(row[j], "expired")]
              ELSE row
  /\ exec' = [exec EXCEPT ![e].beating = FALSE]
  /\ UNCHANGED <<holder, proc, cycle, poll, force>>

\* The handler has ended and e writes r as the outcome of its row.
Outcome(e, r) ==
  LET j == exec[e].job IN
  /\ Running(e)
  /\ LeaseGuard(e)
  /\ row' = [row EXCEPT ![j] = Unclocked(r)]
  /\ holder' = [holder EXCEPT ![j] = None]
  /\ Ends(e)
  /\ UNCHANGED <<proc, cycle, poll, force>>

Complete(e) ==
  Running(e) /\ Outcome(e, [row[exec[e].job] EXCEPT !.status = "completed"])

\* Mutant: a status the schema does not have.
DeadLetteredAs(r, n) == [r EXCEPT !.status = "dead", !.attempts = Bump(n)]

\* A failure counts from n, the attempt_count the dequeue returned.
DeadLettered(r, n) ==
  [r EXCEPT !.status = "dead_letter", !.attempts = Bump(n)]

DeadLetter(e) ==
  /\ Running(e)
  /\ Exhausts(exec[e].attempts)
  /\ Outcome(e, DeadLettered(row[exec[e].job], exec[e].attempts))

\* Mutants: the retry leaves lease_owner, or attempt_count, as it is.
RetriedOwned(r, n) ==
  [r EXCEPT !.status = "pending", !.attempts = Bump(n), !.due = FALSE,
            !.lease = "none"]

RetriedUncounted(r, n) ==
  [r EXCEPT !.status = "pending", !.due = FALSE,
            !.owner = None, !.lease = "none"]

\* leased_at is the one lease column a retry leaves behind.
Retried(r, n) ==
  [r EXCEPT !.status = "pending", !.attempts = Bump(n), !.due = FALSE,
            !.owner = None, !.lease = "none"]

Retry(e) ==
  /\ Running(e)
  /\ ~Exhausts(exec[e].attempts)
  /\ Outcome(e, Retried(row[exec[e].job], exec[e].attempts))

\* The outcome write matched no row, ...
OutcomeIgnored(e) ==
  /\ Running(e)
  /\ ~LeaseGuard(e)
  /\ Ends(e)
  /\ UNCHANGED <<row, holder, proc, cycle, poll, force>>

\* ... or threw in the catch block.
OutcomeLost(e) ==
  /\ "dberror" \in Faults
  /\ Running(e)
  /\ Ends(e)
  /\ UNCHANGED <<row, holder, proc, cycle, poll, force>>

-----------------------------------------------------------------------------
(* forceReclaimJob: the row is read, then written if it is still held, by   *)
(* whomever.                                                               *)

ForceRead(j) ==
  /\ "force" \in Faults
  /\ force[j] = "none"
  /\ Held(j)
  /\ force' = [force EXCEPT ![j] =
                 IF Exhausts(row[j].attempts) THEN "exhaust" ELSE "release"]
  /\ UNCHANGED <<row, holder, exec, proc, cycle, poll>>

\* Mutant: the write does not look at the status again.
ForceWriteBlind(j) ==
  /\ force[j] # "none"
  /\ force' = [force EXCEPT ![j] = "none"]
  /\ row' = [row EXCEPT ![j] = IF force[j] = "exhaust" THEN GivenUp(row[j], "failed")
                                                      ELSE HandedBack(row[j])]
  /\ Vacate({j})
  /\ UNCHANGED <<exec, proc, cycle, poll>>

ForceWrite(j) ==
  LET S == {j} \cap {k \in Jobs : Held(k)} IN
  /\ force[j] # "none"
  /\ force' = [force EXCEPT ![j] = "none"]
  /\ row' = [k \in Jobs |-> IF k \notin S THEN row[k]
                            ELSE IF force[j] = "exhaust"
                              THEN GivenUp(row[k], "failed")
                              ELSE HandedBack(row[k])]
  /\ Vacate(S)
  /\ UNCHANGED <<exec, proc, cycle, poll>>

-----------------------------------------------------------------------------
(* An instance boots: two cleanup statements, then the loops start.        *)

Others(p) == {j \in Jobs : Held(j) /\ row[j].owner # p}

Zombie(r) ==
  GivenUp(r, IF Exhausts(r.attempts) THEN "dead_letter" ELSE "failed")

\* Bound: without "boot" an instance starts when none is alive.
BootZombies(p) ==
  LET S == {j \in Others(p) : row[j].silent} IN
  /\ proc[p] = "off"
  /\ "boot" \in Faults \/ \A q \in Procs : ~Alive(q)
  /\ proc' = [proc EXCEPT ![p] = "cleaning"]
  /\ row' = [j \in Jobs |-> IF j \in S THEN Zombie(row[j]) ELSE row[j]]
  /\ Vacate(S)
  /\ UNCHANGED <<exec, cycle, poll, force>>

BootOrphans(p) ==
  LET S == {j \in Others(p) : ~row[j].silent} IN
  /\ proc[p] = "cleaning"
  /\ proc' = [proc EXCEPT ![p] = "up"]
  /\ row' = [j \in Jobs |-> IF j \in S THEN Unleased(row[j]) ELSE row[j]]
  /\ Vacate(S)
  /\ UNCHANGED <<exec, cycle, poll, force>>

\* The cleanup threw, which is not fatal.
BootUncleaned(p) ==
  /\ "dberror" \in Faults
  /\ proc[p] = "cleaning"
  /\ proc' = [proc EXCEPT ![p] = "up"]
  /\ UNCHANGED <<row, holder, exec, cycle, poll, force>>

-----------------------------------------------------------------------------
(* An instance ends: SIGTERM stops the loops, releases the leases and lets *)
(* the process live through its grace period; a crash does none of it.     *)

\* Bound: the last incarnation of the service stays.
Replaceable(p) ==
  \E q \in Procs \ {p} : proc[q] \in {"off", "cleaning", "up"}

Stop(p) ==
  /\ "stop" \in Faults
  /\ proc[p] = "up"
  /\ Replaceable(p)
  /\ proc' = [proc EXCEPT ![p] = "stopping"]
  /\ UNCHANGED <<row, holder, exec, cycle, poll, force>>

HeartbeatsStop(p) ==
  exec' = [e \in Execs |-> IF Home(e) = p THEN [exec[e] EXCEPT !.beating = FALSE]
                                          ELSE exec[e]]

Release(p) ==
  LET S == {j \in Jobs : Held(j) /\ row[j].owner = p} IN
  /\ proc[p] = "stopping"
  /\ proc' = [proc EXCEPT ![p] = "released"]
  /\ HeartbeatsStop(p)
  /\ row' = [j \in Jobs |-> IF j \in S THEN Unleased(row[j]) ELSE row[j]]
  /\ Vacate(S)
  /\ UNCHANGED <<cycle, poll, force>>

ReleaseFails(p) ==
  /\ "dberror" \in Faults
  /\ proc[p] = "stopping"
  /\ proc' = [proc EXCEPT ![p] = "unreleased"]
  /\ HeartbeatsStop(p)
  /\ UNCHANGED <<row, holder, cycle, poll, force>>

Gone(p, how) ==
  /\ proc' = [proc EXCEPT ![p] = how]
  /\ exec' = [e \in Execs |-> IF Home(e) = p THEN Idle ELSE exec[e]]
  /\ cycle' = [cycle EXCEPT ![p] = "rest"]
  /\ poll' = [poll EXCEPT ![p] = FALSE]
  /\ UNCHANGED <<row, holder, force>>

Exit(p) == proc[p] = "released" /\ Gone(p, "exited")

Crash(p) ==
  /\ \/ "crash" \in Faults /\ Replaceable(p)
        /\ proc[p] \in {"cleaning", "up", "stopping"}
     \/ proc[p] = "unreleased"
  /\ Gone(p, "crashed")

-----------------------------------------------------------------------------
Init ==
  /\ row = [j \in Jobs |-> NoRow]
  /\ holder = [j \in Jobs |-> None]
  /\ exec = [e \in Execs |-> Idle]
  /\ proc = [p \in Procs |-> "off"]
  /\ cycle = [p \in Procs |-> "rest"]
  /\ poll = [p \in Procs |-> FALSE]
  /\ force = [j \in Jobs |-> "none"]

Time ==
  \/ \E j \in Jobs : LeaseLapses(j) \/ HeartbeatFades(j) \/ RowOverruns(j)
                       \/ RetryComesDue(j)
  \/ \E e \in Execs : HandlerOverruns(e)

Client ==
  \/ \E j \in Jobs : Enqueue(j) \/ Replay(j) \/ ForceRead(j) \/ ForceWrite(j)
  \/ CancelPending

Loops ==
  \/ \E p \in Procs : SweepExhaust(p) \/ SweepRelease(p) \/ CycleEnd(p)
                        \/ PollStart(p) \/ PollEnd(p)
  \/ \E e \in Execs : Dequeue(e) \/ PollDequeue(e)

Execution ==
  \E e \in Execs :
    \/ StartWrite(e) \/ NoHandlerFail(e) \/ StartFails(e)
    \/ Heartbeat(e) \/ HeartbeatAborts(e)
    \/ Complete(e) \/ DeadLetter(e) \/ Retry(e)
    \/ OutcomeIgnored(e) \/ OutcomeLost(e)

Lifecycle ==
  \E p \in Procs :
    \/ BootZombies(p) \/ BootOrphans(p) \/ BootUncleaned(p)
    \/ Stop(p) \/ Release(p) \/ ReleaseFails(p) \/ Exit(p) \/ Crash(p)

Next == Time \/ Client \/ Loops \/ Execution \/ Lifecycle

Spec == Init /\ [][Next]_vars

-----------------------------------------------------------------------------
(* Fairness: the platform restarts what has ended, the loops reschedule    *)
(* themselves, a loop that keeps finding work leases it sooner or later,   *)
(* queries return, timers fire and time passes for what nobody attends to. *)
(* A handler may hang; SlotsComeBack is the assumption that it does not    *)
(* keep its slot for ever once its row has been taken from it.             *)

Fairness ==
  /\ \A p \in Procs :
       /\ WF_vars(BootZombies(p)) /\ WF_vars(BootOrphans(p))
       /\ WF_vars(SweepExhaust(p)) /\ WF_vars(SweepRelease(p))
       /\ WF_vars(CycleEnd(p))
       /\ WF_vars(PollStart(p)) /\ WF_vars(PollEnd(p))
  /\ \A e \in Execs :
       /\ SF_vars(Dequeue(e)) /\ SF_vars(PollDequeue(e))
       /\ WF_vars(StartWrite(e) \/ NoHandlerFail(e))
       /\ WF_vars(HandlerOverruns(e)) /\ WF_vars(HeartbeatAborts(e))
  /\ \A j \in Jobs :
       /\ WF_vars(~Attended(j) /\ LeaseLapses(j))
       /\ WF_vars(RetryComesDue(j))

SlotsComeBack == \A e \in Execs : WF_vars(OutcomeIgnored(e))

\* The operator does not replay dead letters for ever.
ReplaysEnd == <>[][\A j \in Jobs : ~Replay(j)]_vars

SettlingSpec == Spec /\ Fairness /\ SlotsComeBack /\ ReplaysEnd

-----------------------------------------------------------------------------
(* Safety.                                                                 *)

Row == [status : {"absent", "pending", "leased", "processing"} \cup Terminal,
        owner : Procs \cup {None},
        stamp : Stamps \cup {AtDequeue, None},
        lease : {"none", "live", "expired"},
        silent : BOOLEAN,
        over : BOOLEAN,
        attempts : 0 .. AttemptCap,
        due : BOOLEAN]

ExecRecord == [pc : {"idle", "dispatched", "running"},
               job : Jobs \cup {None},
               stamp : Stamps \cup {None},
               attempts : 0 .. AttemptCap,
               beating : BOOLEAN,
               over : BOOLEAN]

\* Every variable has its type, and an execution that is not idle has a row.
TypeOK ==
  /\ row \in [Jobs -> Row]
  /\ holder \in [Jobs -> Execs \cup {None}]
  /\ exec \in [Execs -> ExecRecord]
  /\ \A e \in Execs : exec[e].pc # "idle" => exec[e].job \in Jobs
  /\ proc \in [Procs -> {"off", "cleaning", "up", "stopping", "released",
                         "unreleased", "exited", "crashed"}]
  /\ cycle \in [Procs -> {"rest", "sweep", "dispatch"}]
  /\ poll \in [Procs -> BOOLEAN]
  /\ force \in [Jobs -> {"none", "exhaust", "release"}]

\* The lease guard of processJobInner lets an execution write an outcome only
\* while the attempt it started is the row's current one: no sweep, reclaim,
\* cleanup, release, dequeue or other start has come in between, whatever
\* lease columns they left behind.
FencedOutcome ==
  \A e \in Execs :
    Running(e) /\ LeaseGuard(e) => holder[exec[e].job] = e

\* A leased or processing row has what the sweeps look for, so that it can
\* always be taken back, and a pending row has nothing a lease would have:
\* the lease columns agree with the status after every mix of the writers.
RecoverableLease ==
  \A j \in Jobs :
    /\ Held(j) => /\ row[j].owner # None
                  /\ row[j].stamp # None
                  /\ row[j].lease # "none"
    /\ row[j].status = "pending" => row[j].owner = None /\ row[j].lease = "none"

\* "prevents a stale, overrun handler from clobbering a row that was already
\* requeued": an execution whose row is no longer its own ends without
\* changing that row.
EndsQuietly ==
  \A e \in Execs :
    Running(e) /\ ~Running(e)' /\ holder[exec[e].job] # e
      => row'[exec[e].job] = row[exec[e].job]

ClobbersNothing == [][EndsQuietly]_vars

\* A row that is completed, failed, dead-lettered or cancelled stays so, but for the
\* operator's replay (attempts back to 0) and the first write of an execution
\* that was dispatched before the row ended: the code does not guard that one.
StaysEnded ==
  \A j \in Jobs :
    row[j].status \in Terminal /\ row'[j].status # row[j].status =>
      \/ /\ row[j].status = "dead_letter"
         /\ row'[j].status = "pending"
         /\ row'[j].attempts = 0
      \/ \E e \in Execs : /\ exec[e].pc = "dispatched"
                           /\ exec[e].job = j
                           /\ exec'[e].pc # "dispatched"

TerminalIsFinal == [][StaysEnded]_vars

\* A row held in the name of a live instance is being worked on there: no mix
\* of steals, reclaims, late start writes and releases leaves a lease that
\* nobody's outcome will end.  "processJob marks the job failed/completed
\* itself and never rejects past its own handling": it holds while no write
\* of an execution throws.
HeldIsExecuted ==
  \A j \in Jobs, p \in Procs :
    Held(j) /\ row[j].owner = p /\ Alive(p) =>
      \E e \in Execs : Home(e) = p /\ exec[e].pc # "idle" /\ exec[e].job = j

\* Two executions of one row never run their handlers at the same time.
NoDoubleProcessing ==
  \A e, f \in Execs :
    Running(e) /\ Running(f) /\ exec[e].job = exec[f].job => e = f

\* A row that waits for a worker has an attempt left.
PendingHasBudget ==
  \A j \in Jobs : row[j].status = "pending" => row[j].attempts < MaxAttempts

-----------------------------------------------------------------------------
(* The queue as JobContract has it: leases, clocks and attempts are gone,  *)
(* the current execution is the one whose start write came last.           *)

PhaseOf(st) ==
  CASE st = "absent" -> "absent"
    [] st = "pending" -> "waiting"
    [] st \in {"leased", "processing"} -> "held"
    [] st \in Terminal -> "ended"

Contract ==
  INSTANCE JobContract
    WITH phase <- [j \in Jobs |-> PhaseOf(row[j].status)],
         cur   <- holder,
         task  <- [e \in Execs |-> [pc |-> exec[e].pc, job |-> exec[e].job]]

\* The scheduler, with all its ways to take rows back, implements the contract:
\* in particular no execution but the current one ever decides a row's outcome.
KeepsContract == Contract!Spec

-----------------------------------------------------------------------------
(* Liveness.                                                               *)

\* A row whose handler hangs past its queue's maximum is taken from it, by
\* the very instance whose heartbeat kept it alive until then.
OverrunReclaimed ==
  \A e \in Execs, j \in Jobs :
    (Running(e) /\ exec[e].over /\ holder[j] = e) ~> (holder[j] # e)

\* Every enqueued row is completed, failed, dead-lettered or cancelled, through any
\* failures of its handler, overruns and crashes of its instance.
EveryJobSettles ==
  \A j \in Jobs :
    (row[j].status # "absent") ~> (row[j].status \in Terminal)
==============================================================================
