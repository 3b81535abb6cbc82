----------------------------- MODULE JobContract -----------------------------
(***************************************************************************)
(* What the work queue promises to those who enqueue and to those who      *)
(* write handlers, without leases, clocks, attempts or instances: a job    *)
(* waits, is held or has ended; it is handed out at least once; of all the *)
(* executions it was ever handed to, the one that began last and was not   *)
(* taken off it since is the only one that decides what becomes of it.     *)
(* WorkQueue implements it; DedupeQueue, under either of its handlers, is  *)
(* a queue of this contract.                                               *)
(***************************************************************************)
CONSTANTS Jobs, Execs, None

VARIABLES
  phase,  \* where each job is
  cur,    \* the execution that may decide, if there is one
  task    \* what each execution is doing

jobs == <<phase, cur>>
vars == <<jobs, task>>

Phases == {"absent", "waiting", "held", "ended"}

Free == [pc |-> "idle", job |-> None]

Init ==
  /\ phase = [j \in Jobs |-> "absent"]
  /\ cur = [j \in Jobs |-> None]
  /\ task = [e \in Execs |-> Free]

Enqueue(j) ==
  /\ phase[j] = "absent"
  /\ phase' = [phase EXCEPT ![j] = "waiting"]
  /\ UNCHANGED <<cur, task>>

\* A job that ended is given another life, a dedupe key another row.
Replay(j) ==
  /\ phase[j] = "ended"
  /\ phase' = [phase EXCEPT ![j] = "waiting"]
  /\ UNCHANGED <<cur, task>>

\* Jobs that wait are withdrawn.
Withdraw ==
  /\ \E S \in SUBSET {j \in Jobs : phase[j] = "waiting"} :
       phase' = [j \in Jobs |-> IF j \in S THEN "ended" ELSE phase[j]]
  /\ UNCHANGED <<cur, task>>

\* To a free execution, out of another's hands if need be.
HandOut(e, j) ==
  /\ task[e].pc = "idle"
  /\ phase[j] \in {"waiting", "held"}
  /\ phase' = [phase EXCEPT ![j] = "held"]
  /\ cur' = [cur EXCEPT ![j] = None]
  /\ task' = [task EXCEPT ![e] = [pc |-> "dispatched", job |-> j]]

\* Whatever has become of the job since it was handed out.
Begin(e) ==
  /\ task[e].pc = "dispatched"
  /\ phase' = [phase EXCEPT ![task[e].job] = "held"]
  /\ cur' = [cur EXCEPT ![task[e].job] = e]
  /\ task' = [task EXCEPT ![e].pc = "running"]

\* Both in one step, which is how a handler sees it.
Deliver(e, j) ==
  /\ task[e].pc = "idle"
  /\ phase[j] \in {"waiting", "held"}
  /\ phase' = [phase EXCEPT ![j] = "held"]
  /\ cur' = [cur EXCEPT ![j] = e]
  /\ task' = [task EXCEPT ![e] = [pc |-> "running", job |-> j]]

\* The one execution that may decide: the job has ended or waits again.
Finish(e) ==
  /\ task[e].pc = "running"
  /\ cur[task[e].job] = e
  /\ \E ph \in {"waiting", "ended"} : phase' = [phase EXCEPT ![task[e].job] = ph]
  /\ cur' = [cur EXCEPT ![task[e].job] = None]
  /\ task' = [task EXCEPT ![e] = Free]

\* There is no handler: the job ends before it begins.
Refuse(e) ==
  /\ task[e].pc = "dispatched"
  /\ phase' = [phase EXCEPT ![task[e].job] = "ended"]
  /\ cur' = [cur EXCEPT ![task[e].job] = None]
  /\ task' = [task EXCEPT ![e] = Free]

\* Executions are over without a trace: crashes, lost and ignored writes.
Quit ==
  /\ UNCHANGED jobs
  /\ \E E \in SUBSET Execs :
       task' = [e \in Execs |-> IF e \in E THEN Free ELSE task[e]]

\* Jobs that are held are taken from whoever has them.
TakeBack ==
  /\ phase' \in [Jobs -> Phases]
  /\ cur' \in [Jobs -> Execs \cup {None}]
  /\ \A j \in Jobs :
       \/ phase'[j] = phase[j] /\ cur'[j] = cur[j]
       \/ /\ phase[j] = "held"
          /\ phase'[j] \in {"waiting", "ended"}
          /\ cur'[j] = None
  /\ UNCHANGED task

Next ==
  \/ \E j \in Jobs : Enqueue(j) \/ Replay(j)
  \/ \E e \in Execs : Begin(e) \/ Finish(e) \/ Refuse(e)
  \/ \E e \in Execs, j \in Jobs : HandOut(e, j) \/ Deliver(e, j)
  \/ Withdraw
  \/ Quit
  \/ TakeBack

Spec == Init /\ [][Next]_vars

\* The same of a queue whose earlier jobs have all ended.
InitEmptied ==
  /\ phase \in [Jobs -> {"absent", "ended"}]
  /\ cur = [j \in Jobs |-> None]
  /\ task = [e \in Execs |-> Free]

SpecEmptied == InitEmptied /\ [][Next]_vars
==============================================================================
