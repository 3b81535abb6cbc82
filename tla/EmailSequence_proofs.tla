-------------------------- MODULE EmailSequence_proofs --------------------------
(***************************************************************************)
(* Machine-checked proofs about EmailSequence, for any number of steps,    *)
(* workers, users, attempts and half hours and for every set of Faults.    *)
(***************************************************************************)
EXTENDS EmailSequence, DedupeQueue_proofs

Pcs == {"idle", "enqueue", "enqueue_next", "gate", "checks", "claim", "read",
        "return", "check", "approve", "advance", "withdraw", "compose", "link",
        "suppress", "cancel", "reject", "reread", "skip"}

Statuses == {"none", "draft", "render_failed", "approved", "rejected", "cancelled",
             "suppressed"}

\* A worker takes a job that waits, or one whose holder's lease has ended.
Takes(w, k) == TakeJob(w, k) \/ TakeOver(w, k)

\* The steps of an actor, with what may befall it.
WorkerSteps(w) == Handles(w) \/ Throw(w) \/ \E k \in Keys : Takes(w, k)
ActorSteps(a) ==
  \/ a \in Workers /\ WorkerSteps(a)
  \/ a \in Actors /\ (Proceeds(a) \/ ComposeFails(a) \/ Crash(a))
  \/ a \in Users /\ Asks(a)

\* What comes from outside.
OutsideSteps == Cancel \/ Suppress \/ Passes

LEMMA NextSteps ==
  ASSUME [Next]_vars
  PROVE  \/ \E a \in Actors : ActorSteps(a)
         \/ \E k \in Keys : Reclaim(k)
         \/ WithdrawJobs
         \/ OutsideSteps
         \/ UNCHANGED vars
  BY DEF Next, ActorSteps, WorkerSteps, Takes, OutsideSteps, Actors

-----------------------------------------------------------------------------
(* TypeOK is an invariant.  Whoever is at work is at a step of the sequence, *)
(* and a worker at the step its key names.                                 *)

KnownRecord(a, r) ==
  /\ r \in ActorRecord
  /\ r.pc \notin {"idle", "return"} => r.step \in Order
  /\ r.pc = "enqueue_next" => r.step < Steps
  /\ a \in Workers /\ r.pc # "idle" => r.key \in Keys
  /\ a \in Workers /\ r.pc \notin {"idle", "return"} => r.key[1] = r.step
  /\ r.pc \in {"enqueue", "reject", "reread", "skip"} => a \in Users

ActorsKnown ==
  /\ actor \in [Actors -> ActorRecord]
  /\ \A a \in Actors : KnownRecord(a, actor[a])

Typed == TypeOK /\ ActorsKnown

LEMMA RestingType == Resting \in ActorRecord /\ Resting.pc = "idle"
  BY SequenceAssumption DEF Resting, ActorRecord

LEMMA OrderType == Order \subseteq 0 .. Steps /\ 1 \in Order
  BY SequenceAssumption DEF Order

\* A worker is not a user.
LEMMA ApartType == \A w \in Workers : w \in Actors /\ w \notin Users
  BY SequenceAssumption DEF Actors

LEMMA ActorsKnownBy ==
  ASSUME ActorsKnown, NEW a \in Actors, NEW r, KnownRecord(a, r),
         actor' = [actor EXCEPT ![a] = r]
  PROVE  ActorsKnown'
  <1>1. r \in ActorRecord
    BY DEF KnownRecord
  <1>2. actor' \in [Actors -> ActorRecord]
    BY <1>1 DEF ActorsKnown
  <1>3. \A b \in Actors : actor'[b] = IF b = a THEN r ELSE actor[b]
    BY DEF ActorsKnown
  <1>4. \A b \in Actors : KnownRecord(b, actor'[b])
    BY <1>3 DEF ActorsKnown
  <1>5. (\A b \in Actors : KnownRecord(b, actor[b]))'
    BY <1>4 DEF KnownRecord
  <1> QED
    BY <1>2, <1>5 DEF ActorsKnown

LEMMA GoesKnown ==
  ASSUME ActorsKnown, NEW a \in Actors,
         NEW pc \in Pcs \ {"idle", "return", "enqueue", "enqueue_next", "reject", "skip"},
         pc = "reread" => a \in Users,
         actor[a].pc \notin {"idle", "return"}, Goes(a, pc)
  PROVE  ActorsKnown'
  <1> DEFINE r == [actor[a] EXCEPT !.pc = pc]
  <1>1. actor[a] \in ActorRecord /\ KnownRecord(a, actor[a])
    BY DEF ActorsKnown
  <1>2. /\ r \in ActorRecord /\ r.pc = pc
        /\ r.step = actor[a].step /\ r.key = actor[a].key
    BY <1>1 DEF ActorRecord, Pcs
  <1>3. actor' = [actor EXCEPT ![a] = r]
    BY DEF Goes
  <1> HIDE DEF r
  <1>4. KnownRecord(a, r)
    BY <1>1, <1>2 DEF KnownRecord
  <1> QED
    BY <1>3, <1>4, ActorsKnownBy

LEMMA EndsKnown ==
  ASSUME ActorsKnown, NEW a \in Actors, actor[a].pc # "idle", Ends(a)
  PROVE  ActorsKnown'
  <1> DEFINE pc == IF a \in Workers THEN "return" ELSE "idle"
             r == [Resting EXCEPT !.pc = pc, !.key = actor[a].key]
  <1>1. actor[a] \in ActorRecord /\ KnownRecord(a, actor[a])
    BY DEF ActorsKnown
  <1>2. r \in ActorRecord /\ r.pc = pc /\ r.key = actor[a].key
    BY <1>1, RestingType DEF ActorRecord
  <1>3. actor' = [actor EXCEPT ![a] = r]
    BY DEF Ends
  <1> HIDE DEF r
  <1>4. KnownRecord(a, r)
    BY <1>1, <1>2 DEF KnownRecord
  <1> QED
    BY <1>3, <1>4, ActorsKnownBy

LEMMA RestsKnown ==
  ASSUME ActorsKnown, NEW a \in Actors, actor' = [actor EXCEPT ![a] = Resting]
  PROVE  ActorsKnown'
  <1>1. KnownRecord(a, Resting)
    BY RestingType DEF KnownRecord
  <1> QED
    BY <1>1, ActorsKnownBy

LEMMA ApprovingKnown ==
  ASSUME Typed, NEW a \in Actors, NEW s \in Order, Approving(a, s),
         a \in Workers => actor[a].pc = "read" /\ s = actor[a].step
  PROVE  ActorsKnown'
  <1> DEFINE pc == IF Unlinked(s) THEN "compose" ELSE "check"
             r == [actor[a] EXCEPT !.step = s, !.pc = pc]
  <1>0. ActorsKnown /\ actor[a] \in ActorRecord /\ KnownRecord(a, actor[a])
    BY DEF Typed, ActorsKnown
  <1>1. actor' = [actor EXCEPT ![a] = r]
    BY <1>0 DEF ActorsKnown, Approving, ActorRecord
  <1>2. r \in ActorRecord /\ r.pc = pc /\ r.step = s /\ r.key = actor[a].key
    BY <1>0, OrderType DEF ActorRecord
  <1>3. pc \in {"compose", "check"}
    OBVIOUS
  <1> HIDE DEF r, pc
  <1>4. KnownRecord(a, r)
    BY <1>0, <1>2, <1>3 DEF KnownRecord
  <1> QED
    BY <1>0, <1>1, <1>4, ActorsKnownBy

LEMMA WorkerKnown ==
  ASSUME Typed, NEW w \in Workers, WorkerSteps(w)
  PROVE  ActorsKnown'
  <1>0. ActorsKnown /\ w \in Actors
    BY DEF Typed, Actors
  <1>1. CASE Gate(w) \/ ChecksPass(w)
    BY <1>0, <1>1, GoesKnown, EndsKnown DEF Gate, ChecksPass, Pcs
  <1>2. CASE Defer(w) \/ CancelInstead(w) \/ ClaimLost(w) \/ AutoApproveLate(w)
    BY <1>0, <1>2, EndsKnown DEF Defer, CancelInstead, ClaimLost, AutoApproveLate
  <1>3. CASE Claim(w)
    BY <1>0, <1>3, GoesKnown, EndsKnown DEF Claim, Pcs
  <1>4. CASE Return(w) \/ Throw(w)
    BY <1>0, <1>4, RestsKnown DEF Return, Throw
  <1>5. CASE AutoApprove(w)
    <2>1. actor[w].pc = "read" /\ actor[w].step \in Order
      BY <1>0, <1>5 DEF AutoApprove, ActorsKnown, KnownRecord
    <2> QED
      BY <1>0, <1>5, <2>1, ApprovingKnown DEF AutoApprove
  <1>6. ASSUME NEW k \in Keys, Takes(w, k) PROVE ActorsKnown'
    <2> DEFINE r == [Resting EXCEPT !.pc = "gate", !.step = k[1], !.key = k]
    <2>1. actor' = [actor EXCEPT ![w] = r] /\ k[1] \in Order
      BY <1>6, SequenceAssumption DEF Takes, TakeJob, TakeOver, Begins
    <2>2. r \in ActorRecord /\ r.pc = "gate" /\ r.step = k[1] /\ r.key = k
      BY <2>1, RestingType, OrderType DEF ActorRecord
    <2> HIDE DEF r
    <2>3. KnownRecord(w, r)
      BY <2>1, <2>2 DEF KnownRecord
    <2> QED
      BY <1>0, <2>1, <2>3, ActorsKnownBy
  <1> QED
    BY <1>1, <1>2, <1>3, <1>4, <1>5, <1>6 DEF WorkerSteps, Handles

LEMMA AdvancedType ==
  ASSUME NEW x \in ActorRecord, NEW pc \in Pcs
  PROVE  /\ [x EXCEPT !.pc = pc, !.from = 0] \in ActorRecord
         /\ [x EXCEPT !.pc = pc, !.from = 0].pc = pc
         /\ [x EXCEPT !.pc = pc, !.from = 0].step = x.step
         /\ [x EXCEPT !.pc = pc, !.from = 0].key = x.key
  <1>1. 0 \in 0 .. Steps
    BY SequenceAssumption
  <1> QED
    BY <1>1 DEF ActorRecord, Pcs

LEMMA ProceedsKnown ==
  ASSUME Typed, NEW a \in Actors, Proceeds(a) \/ ComposeFails(a) \/ Crash(a)
  PROVE  ActorsKnown'
  <1>0. ActorsKnown /\ KnownRecord(a, actor[a]) /\ actor[a] \in ActorRecord
    BY DEF Typed, ActorsKnown
  <1>1. CASE \/ EnqueueStep(a) \/ CheckEnded(a) \/ CheckSuppressed(a) \/ Withdraw(a)
             \/ ComposeFails(a) \/ Link(a) \/ CancelAfter(a)
    BY <1>0, <1>1, EndsKnown
    DEF EnqueueStep, CheckEnded, CheckSuppressed, Withdraw, ComposeFails, Link, CancelAfter
  <1>2. CASE EnqueueNext(a) \/ AdvanceLost(a) \/ Compose(a) \/ MarkSuppressed(a)
    BY <1>0, <1>2, GoesKnown DEF EnqueueNext, AdvanceLost, Compose, MarkSuppressed, Pcs
  <1>3. CASE ApproveSend(a)
    BY <1>0, <1>3, GoesKnown, EndsKnown DEF ApproveSend, Pcs
  <1>4. CASE RejectSend(a)
    <2>1. a \in Users
      BY <1>0, <1>4 DEF RejectSend, KnownRecord
    <2> QED
      BY <1>0, <1>4, <2>1, GoesKnown, EndsKnown DEF RejectSend, Pcs
  <1>5. CASE Crash(a)
    BY <1>0, <1>5, RestsKnown DEF Crash
  <1>6. CASE CheckPasses(a)
    <2> DEFINE r == [actor[a] EXCEPT !.pc = "approve", !.from = enrollment.cur]
    <2>1. actor' = [actor EXCEPT ![a] = r] /\ actor[a].pc = "check"
      BY <1>0, <1>6 DEF CheckPasses, ActorsKnown, ActorRecord
    <2>2. /\ r \in ActorRecord /\ r.pc = "approve"
          /\ r.step = actor[a].step /\ r.key = actor[a].key
      BY <1>0 DEF ActorRecord, Typed, TypeOK
    <2> HIDE DEF r
    <2>3. KnownRecord(a, r)
      BY <1>0, <2>1, <2>2 DEF KnownRecord
    <2> QED
      BY <1>0, <2>1, <2>3, ActorsKnownBy
  <1>7. CASE Advance(a)
    <2>1. PICK pc \in {"compose", "enqueue_next"} :
            /\ pc = IF actor[a].step = Steps THEN "compose" ELSE "enqueue_next"
            /\ actor' = [actor EXCEPT ![a] = [actor[a] EXCEPT !.pc = pc, !.from = 0]]
      BY <1>0, <1>7 DEF Advance, ActorsKnown, ActorRecord
    <2>2. actor[a].step \in Order /\ (pc = "enqueue_next" => actor[a].step < Steps)
      BY <1>0, <1>7, <2>1, SequenceAssumption DEF Advance, KnownRecord, Order
    <2> DEFINE r == [actor[a] EXCEPT !.pc = pc, !.from = 0]
    <2>6. pc \in Pcs
      BY DEF Pcs
    <2>3. /\ r \in ActorRecord /\ r.pc = pc
          /\ r.step = actor[a].step /\ r.key = actor[a].key
      BY <1>0, <2>6, AdvancedType
    <2> HIDE DEF r
    <2>4. actor[a].pc = "advance"
      BY <1>7 DEF Advance
    <2>5. KnownRecord(a, r)
      BY <1>0, <2>2, <2>3, <2>4 DEF KnownRecord
    <2> QED
      BY <1>0, <2>1, <2>5, ActorsKnownBy DEF r
  <1>8. CASE Reread(a)
    <2>1. CASE Active
      <3> DEFINE r == [actor[a] EXCEPT !.pc = "skip", !.from = enrollment.cur]
      <3>1. actor' = [actor EXCEPT ![a] = r] /\ actor[a].pc = "reread"
        BY <1>0, <1>8, <2>1 DEF Reread, ActorsKnown, ActorRecord
      <3>2. /\ r \in ActorRecord /\ r.pc = "skip"
            /\ r.step = actor[a].step /\ r.key = actor[a].key
        BY <1>0 DEF ActorRecord, Typed, TypeOK
      <3> HIDE DEF r
      <3>3. KnownRecord(a, r)
        BY <1>0, <3>1, <3>2 DEF KnownRecord
      <3> QED
        BY <1>0, <3>1, <3>3, ActorsKnownBy
    <2>2. CASE ~Active
      BY <1>0, <1>8, <2>2, RestsKnown DEF Reread
    <2> QED
      BY <2>1, <2>2
  <1>9. CASE Skip(a)
    <2>1. CASE Advances(a) /\ actor[a].step < Steps
      <3> DEFINE r == [Resting EXCEPT !.pc = "enqueue", !.step = actor[a].step + 1]
      <3>1. actor' = [actor EXCEPT ![a] = r]
        BY <1>9, <2>1 DEF Skip
      <3>2. a \in Users /\ actor[a].step \in Order
        BY <1>0, <1>9 DEF KnownRecord, Skip
      <3>3. actor[a].step + 1 \in Order
        BY <2>1, <3>2, SequenceAssumption DEF Order
      <3>4. r \in ActorRecord /\ r.pc = "enqueue" /\ r.step = actor[a].step + 1
        BY <3>3, RestingType, OrderType DEF ActorRecord
      <3> HIDE DEF r
      <3>5. KnownRecord(a, r)
        BY <3>2, <3>3, <3>4, ApartType DEF KnownRecord
      <3> QED
        BY <1>0, <3>1, <3>5, ActorsKnownBy
    <2>2. CASE ~(Advances(a) /\ actor[a].step < Steps)
      BY <1>0, <1>9, <2>2, RestsKnown DEF Skip
    <2> QED
      BY <2>1, <2>2
  <1> QED
    BY <1>1, <1>2, <1>3, <1>4, <1>5, <1>6, <1>7, <1>8, <1>9 DEF Proceeds

LEMMA AsksKnown ==
  ASSUME Typed, NEW u \in Users, Asks(u)
  PROVE  ActorsKnown'
  <1>0. ActorsKnown /\ u \in Actors /\ u \notin Workers /\ actor[u] \in ActorRecord
    BY ApartType DEF Typed, ActorsKnown, Actors
  <1>1. CASE Enroll(u)
    <2> DEFINE r == [Resting EXCEPT !.pc = "enqueue", !.step = 1]
    <2>1. r \in ActorRecord /\ r.pc = "enqueue" /\ r.step = 1
      BY RestingType, OrderType DEF ActorRecord
    <2>2. actor' = [actor EXCEPT ![u] = r]
      BY <1>1 DEF Enroll
    <2> HIDE DEF r
    <2>3. KnownRecord(u, r)
      BY <1>0, <2>1, OrderType DEF KnownRecord
    <2> QED
      BY <1>0, <2>2, <2>3, ActorsKnownBy
  <1>2. ASSUME NEW s \in Order, Approve(u, s) PROVE ActorsKnown'
    BY <1>0, <1>2, ApprovingKnown DEF Approve
  <1>3. ASSUME NEW s \in Order, Reject(u, s) PROVE ActorsKnown'
    <2> DEFINE r == [Resting EXCEPT !.pc = "reject", !.step = s]
    <2>1. r \in ActorRecord /\ r.pc = "reject" /\ r.step = s
      BY RestingType, OrderType DEF ActorRecord
    <2>2. actor' = [actor EXCEPT ![u] = r]
      BY <1>3 DEF Reject
    <2> HIDE DEF r
    <2>3. KnownRecord(u, r)
      BY <1>0, <2>1 DEF KnownRecord
    <2> QED
      BY <1>0, <2>2, <2>3, ActorsKnownBy
  <1> QED
    BY <1>1, <1>2, <1>3 DEF Asks

-----------------------------------------------------------------------------
(* The queue and the records.                                              *)

Enrollment == [status : {"absent", "active", "completed", "cancelled"}, cur : 0 .. Steps]
Record == [status : Statuses, linked : BOOLEAN]
Mails == {"none", "queued", "suppressed"}

RecordsTyped == enrollment \in Enrollment /\ send \in [Order -> Record]

LEMMA TypedRecords == ASSUME TypeOK PROVE RecordsTyped /\ mail \in [Order -> Mails]
  BY DEF TypeOK, RecordsTyped, Enrollment, Record, Statuses, Mails

LEMMA CancelledType ==
  ASSUME RecordsTyped, Cancelled
  PROVE  RecordsTyped'
  <1>1. CASE Active
    <2>1. enrollment' \in Enrollment
      BY <1>1 DEF Cancelled, RecordsTyped, Enrollment
    <2>2. \A s \in Order : [send[s] EXCEPT !.status = "cancelled"] \in Record
      BY DEF RecordsTyped, Record, Statuses
    <2>3. send' \in [Order -> Record]
      BY <1>1, <2>2 DEF Cancelled, RecordsTyped
    <2> QED
      BY <2>1, <2>3 DEF RecordsTyped
  <1>2. CASE ~Active
    BY <1>2 DEF Cancelled, RecordsTyped
  <1> QED
    BY <1>1, <1>2

LEMMA CasSendType ==
  ASSUME RecordsTyped, NEW s \in Order, NEW from, NEW status \in Statuses,
         CasSend(s, from, status)
  PROVE  send' \in [Order -> Record]
  <1>1. [send[s] EXCEPT !.status = status] \in Record
    BY DEF RecordsTyped, Record
  <1> QED
    BY <1>1 DEF CasSend, RecordsTyped

LEMMA AdvanceToType ==
  ASSUME NEW s \in Order, AdvanceTo(s)
  PROVE  enrollment' \in Enrollment
  BY OrderType DEF AdvanceTo, Enrollment

LEMMA SendWritten ==
  ASSUME RecordsTyped, NEW s \in Order, NEW status \in Statuses,
         send' = [send EXCEPT ![s].status = status]
  PROVE  send' \in [Order -> Record]
  <1>1. [send[s] EXCEPT !.status = status] \in Record
    BY DEF RecordsTyped, Record
  <1> QED
    BY <1>1 DEF RecordsTyped

LEMMA ActorRecordsType ==
  ASSUME Typed, NEW a \in Actors, ActorSteps(a)
  PROVE  RecordsTyped'
  <1>0. RecordsTyped /\ KnownRecord(a, actor[a])
    BY TypedRecords DEF Typed, ActorsKnown
  <1>1. CASE UNCHANGED <<enrollment, send>>
    BY <1>0, <1>1 DEF RecordsTyped
  <1>2. CASE CancelInstead(a) \/ CheckSuppressed(a) \/ CancelAfter(a)
    BY <1>0, <1>2, CancelledType DEF CancelInstead, CheckSuppressed, CancelAfter
  <1>3. CASE Claim(a)
    <2>1. actor[a].step \in Order /\ UNCHANGED enrollment
      BY <1>0, <1>3 DEF Claim, KnownRecord
    <2>2. send' \in [Order -> Record]
      BY <1>0, <1>3, <2>1, SendWritten DEF Claim, Statuses
    <2> QED
      BY <1>0, <2>1, <2>2 DEF RecordsTyped
  <1>4. CASE CheckEnded(a) \/ ApproveSend(a) \/ Withdraw(a) \/ RejectSend(a)
    <2>1. actor[a].step \in Order /\ UNCHANGED enrollment
      BY <1>0, <1>4 DEF CheckEnded, ApproveSend, Withdraw, RejectSend, KnownRecord
    <2>2. send' \in [Order -> Record]
      BY <1>0, <1>4, <2>1, CasSendType
      DEF CheckEnded, ApproveSend, Withdraw, RejectSend, Statuses
    <2> QED
      BY <1>0, <2>1, <2>2 DEF RecordsTyped
  <1>5. CASE Advance(a) \/ Skip(a)
    <2>1. actor[a].step \in Order /\ UNCHANGED send
      BY <1>0, <1>5 DEF Advance, Skip, KnownRecord
    <2>2. enrollment' \in Enrollment
      BY <1>0, <1>5, <2>1, AdvanceToType DEF Advance, Skip, RecordsTyped
    <2> QED
      BY <1>0, <2>1, <2>2 DEF RecordsTyped
  <1>6. CASE Link(a)
    <2>1. actor[a].step \in Order /\ UNCHANGED enrollment
      BY <1>0, <1>6 DEF Link, KnownRecord
    <2>2. [send[actor[a].step] EXCEPT !.linked = TRUE] \in Record
      BY <1>0, <2>1 DEF RecordsTyped, Record
    <2> QED
      BY <1>0, <1>6, <2>1, <2>2 DEF Link, RecordsTyped
  <1>7. CASE MarkSuppressed(a)
    <2>1. [status |-> "suppressed", linked |-> TRUE] \in Record
      BY DEF Record, Statuses
    <2> QED
      BY <1>0, <1>7, <2>1 DEF MarkSuppressed, RecordsTyped
  <1>8. CASE a \in Users /\ Enroll(a)
    <2>1. [status |-> "active", cur |-> 0] \in Enrollment
      BY SequenceAssumption DEF Enrollment
    <2> QED
      BY <1>0, <1>8, <2>1 DEF Enroll, RecordsTyped
  <1> QED
    BY <1>1, <1>2, <1>3, <1>4, <1>5, <1>6, <1>7, <1>8
    DEF ActorSteps, WorkerSteps, Handles, Proceeds, Asks, records, Gate, Defer,
        ChecksPass, ClaimLost, AutoApprove, AutoApproveLate, Approving, Return, Throw,
        Takes, TakeJob, TakeOver, EnqueueStep, EnqueueNext, CheckPasses, AdvanceLost,
        Compose, Reread, ComposeFails, Crash, Approve, Reject

LEMMA ActorQueueType ==
  ASSUME Typed, NEW a \in Actors, ActorSteps(a)
  PROVE  QueueTypeOK'
  <1>0. QueueTypeOK /\ KnownRecord(a, actor[a])
    BY DEF Typed, TypeOK, ActorsKnown
  <1>1. CASE UNCHANGED queueVars
    BY <1>0, <1>1 DEF queueVars, QueueTypeOK
  <1>2. ASSUME NEW k, NEW t \in 0 .. LastHalfHour + 1,
               live' = Enqueued(k, t), UNCHANGED <<now, ended>>
        PROVE  QueueTypeOK'
    BY <1>0, <1>2, EnqueuedType DEF QueueTypeOK
  <1>3. CASE EnqueueStep(a) \/ EnqueueNext(a)
    <2>1. 0 \in 0 .. LastHalfHour + 1
      BY QueueAssumption
    <2> QED
      BY <1>2, <1>3, <2>1 DEF EnqueueStep, EnqueueNext
  <1>4. CASE Defer(a)
    <2>1. ResumeAt \in 0 .. LastHalfHour + 1
      BY <1>0, QueueAssumption DEF QueueTypeOK, ResumeAt
    <2> QED
      BY <1>2, <1>4, <2>1 DEF Defer
  <1>5. CASE Return(a)
    BY <1>0, <1>5, CompletesType DEF Return
  <1>6. CASE a \in Workers /\ Throw(a)
    <2>1. actor[a].key \in Keys
      BY <1>0, <1>6 DEF Throw, KnownRecord
    <2> QED
      BY <1>0, <1>6, <2>1, FailsType DEF Throw
  <1>7. ASSUME a \in Workers, NEW k \in Keys, Takes(a, k) PROVE QueueTypeOK'
    BY <1>0, <1>7, TakeType, TakesOverType DEF Takes, TakeJob, TakeOver
  <1> QED
    BY <1>1, <1>3, <1>4, <1>5, <1>6, <1>7
    DEF ActorSteps, WorkerSteps, Handles, Proceeds, Asks, Gate, ChecksPass, CancelInstead,
        Claim, ClaimLost, AutoApprove, AutoApproveLate, Approving, CheckEnded,
        CheckSuppressed, CheckPasses, ApproveSend, Advance, AdvanceLost, Withdraw, Compose,
        Link, MarkSuppressed, CancelAfter, RejectSend, Reread, Skip, ComposeFails, Crash,
        Enroll, Approve, Reject

RestTyped ==
  /\ mail \in [Order -> Mails]
  /\ suppressed \in BOOLEAN
  /\ recovered \subseteq Order
  /\ dropped \in BOOLEAN
  /\ mishaps \subseteq Faults

LEMMA ActorRestType ==
  ASSUME Typed, NEW a \in Actors, ActorSteps(a)
  PROVE  RestTyped'
  <1>0. RestTyped /\ KnownRecord(a, actor[a])
    BY TypedRecords DEF Typed, TypeOK, RestTyped, ActorsKnown
  <1>1. mail' \in [Order -> Mails]
    <2>1. CASE UNCHANGED mail
      BY <1>0, <2>1 DEF RestTyped
    <2>2. CASE Compose(a) \/ ComposeFails(a)
      BY <1>0, <2>2 DEF Compose, ComposeFails, Composed, RestTyped, Mails
    <2> QED
      BY <2>1, <2>2
      DEF ActorSteps, WorkerSteps, Handles, Proceeds, Asks, records, Gate, Defer,
          ChecksPass, CancelInstead, Claim, ClaimLost, AutoApprove, AutoApproveLate,
          Approving, Return, Throw, Takes, TakeJob, TakeOver, EnqueueStep, EnqueueNext,
          CheckEnded, CheckSuppressed, CheckPasses, ApproveSend, Advance, AdvanceLost,
          Withdraw, Link, MarkSuppressed, CancelAfter, RejectSend, Reread, Skip, Crash,
          Enroll, Approve, Reject
  <1>2. UNCHANGED suppressed
    BY DEF ActorSteps, WorkerSteps, Handles, Proceeds, Asks, Gate, Defer, ChecksPass,
           CancelInstead, Claim, ClaimLost, AutoApprove, AutoApproveLate, Approving, Return,
           Throw, Takes, TakeJob, TakeOver, EnqueueStep, EnqueueNext, CheckEnded, CheckSuppressed,
           CheckPasses, ApproveSend, Advance, AdvanceLost, Withdraw, Compose, Link,
           MarkSuppressed, CancelAfter, RejectSend, Reread, Skip, ComposeFails, Crash,
           Enroll, Approve, Reject, records
  <1>3. recovered' \subseteq Order /\ mishaps' \subseteq Faults
    <2>1. ASSUME NEW s \in Order, Approving(a, s)
          PROVE  recovered' \subseteq Order /\ mishaps' \subseteq Faults
      BY <1>0, <2>1 DEF Approving, RestTyped
    <2>2. CASE AutoApprove(a)
      <3>1. actor[a].step \in Order
        BY <1>0, <2>2 DEF AutoApprove, KnownRecord
      <3> QED
        BY <2>1, <2>2, <3>1 DEF AutoApprove
    <2>3. CASE UNCHANGED recovered /\ mishaps' \subseteq Faults
      BY <1>0, <2>3 DEF RestTyped
    <2>4. CASE Throw(a) \/ Crash(a)
      BY <1>0, <2>4 DEF Throw, Crash, Happens, RestTyped
    <2>5. CASE UNCHANGED <<recovered, mishaps>>
      BY <1>0, <2>5 DEF RestTyped
    <2>6. CASE \E k \in Keys : Takes(a, k)
      BY <1>0, <2>6 DEF Takes, TakeJob, TakeOver, Lapses, Happens, ghosts, RestTyped
    <2> QED
      BY <2>1, <2>2, <2>4, <2>5, <2>6
      DEF ActorSteps, WorkerSteps, Handles, Proceeds, Asks, ghosts, Gate, Defer, ChecksPass,
          CancelInstead, Claim, ClaimLost, AutoApproveLate, Return, EnqueueStep,
          EnqueueNext, CheckEnded, CheckSuppressed, CheckPasses, ApproveSend, Advance,
          AdvanceLost, Withdraw, Compose, Link, MarkSuppressed, CancelAfter, RejectSend,
          Reread, Skip, ComposeFails, Enroll, Approve, Reject
  <1>4. dropped' \in BOOLEAN
    <2>1. CASE Defer(a)
      BY <2>1 DEF Defer
    <2>2. CASE UNCHANGED dropped
      BY <1>0, <2>2 DEF RestTyped
    <2> QED
      BY <2>1, <2>2
      DEF ActorSteps, WorkerSteps, Handles, Proceeds, Asks, ghosts, Gate, ChecksPass,
          CancelInstead, Claim, ClaimLost, AutoApprove, AutoApproveLate, Approving,
          Return, Throw, Takes, TakeJob, TakeOver, EnqueueStep, EnqueueNext, CheckEnded,
          CheckSuppressed, CheckPasses, ApproveSend, Advance, AdvanceLost, Withdraw,
          Compose, Link, MarkSuppressed, CancelAfter, RejectSend, Reread, Skip,
          ComposeFails, Crash, Enroll, Approve, Reject
  <1> QED
    BY <1>0, <1>1, <1>2, <1>3, <1>4 DEF RestTyped

LEMMA TypedStep == ASSUME Typed, [Next]_vars PROVE Typed'
  <1>0. /\ QueueTypeOK /\ ActorsKnown /\ RecordsTyped /\ RestTyped
    BY TypedRecords DEF Typed, TypeOK, RestTyped
  <1>1. ActorsKnown' /\ QueueTypeOK' /\ RecordsTyped' /\ RestTyped'
    <2>1. ASSUME NEW a \in Actors, ActorSteps(a)
          PROVE  ActorsKnown' /\ QueueTypeOK' /\ RecordsTyped' /\ RestTyped'
      <3>1. ActorsKnown'
        BY <2>1, WorkerKnown, ProceedsKnown, AsksKnown DEF ActorSteps
      <3> QED
        BY <2>1, <3>1, ActorQueueType, ActorRecordsType, ActorRestType
    <2>2. ASSUME NEW k \in Keys, Reclaim(k)
          PROVE  ActorsKnown' /\ QueueTypeOK' /\ RecordsTyped' /\ RestTyped'
      <3>1. QueueTypeOK'
        BY <1>0, <2>2, ReclaimsType DEF Reclaim
      <3>2. UNCHANGED <<enrollment, send, mail, suppressed, actor, recovered, dropped>>
        BY <2>2 DEF Reclaim, records
      <3>3. mishaps' \subseteq Faults
        BY <1>0, <2>2 DEF Reclaim, Lapses, Happens, RestTyped
      <3> QED
        BY <1>0, <3>1, <3>2, <3>3 DEF ActorsKnown, KnownRecord, RecordsTyped, RestTyped
    <2>3. CASE OutsideSteps
      <3>1. QueueTypeOK'
        BY <1>0, <2>3, TickType
        DEF OutsideSteps, Cancel, Suppress, Passes, queueVars, QueueTypeOK
      <3>2. RecordsTyped'
        BY <1>0, <2>3, CancelledType
        DEF OutsideSteps, Cancel, Suppress, Passes, records, RecordsTyped
      <3>3. UNCHANGED actor /\ RestTyped'
        BY <1>0, <2>3 DEF OutsideSteps, Cancel, Suppress, Passes, records, ghosts, RestTyped
      <3> QED
        BY <1>0, <3>1, <3>2, <3>3 DEF ActorsKnown, KnownRecord
    <2>4. CASE UNCHANGED vars
      BY <1>0, <2>4
      DEF vars, queueVars, records, ghosts, ActorsKnown, KnownRecord, QueueTypeOK,
          RecordsTyped, RestTyped
    <2>5. CASE WithdrawJobs
      <3>1. QueueTypeOK'
        BY <1>0, <2>5, WithdrawsType DEF WithdrawJobs
      <3>2. UNCHANGED <<enrollment, send, mail, suppressed, actor, recovered, dropped>>
        BY <2>5 DEF WithdrawJobs, records
      <3>3. mishaps' \subseteq Faults
        BY <1>0, <2>5 DEF WithdrawJobs, Happens, RestTyped
      <3> QED
        BY <1>0, <3>1, <3>2, <3>3 DEF ActorsKnown, KnownRecord, RecordsTyped, RestTyped
    <2> QED
      BY <2>1, <2>2, <2>3, <2>4, <2>5, NextSteps
  <1>2. TypeOK'
    <2>1. (QueueTypeOK /\ ActorsKnown /\ RecordsTyped /\ RestTyped => TypeOK)'
      BY DEF TypeOK, ActorsKnown, Actors, RecordsTyped, RestTyped, Enrollment, Record,
             Statuses, Mails
    <2> QED
      BY <1>1, <2>1
  <1> QED
    BY <1>1, <1>2 DEF Typed

LEMMA TypedInit == Init => Typed
  <1> SUFFICES ASSUME Init PROVE Typed
    OBVIOUS
  <1>1. [status |-> "absent", cur |-> 0] \in Enrollment
    BY SequenceAssumption DEF Enrollment
  <1>2. RecordsTyped /\ RestTyped
    BY <1>1 DEF Init, RecordsTyped, RestTyped, Record, Statuses, Mails
  <1>3. ActorsKnown
    BY RestingType DEF Init, ActorsKnown, Actors, KnownRecord
  <1>4. QueueTypeOK
    BY QueueInitType DEF Init
  <1> QED
    BY <1>2, <1>3, <1>4
    DEF Typed, TypeOK, ActorsKnown, Actors, RecordsTyped, RestTyped, Enrollment, Record,
        Statuses, Mails

LEMMA AlwaysTyped == Spec => []Typed
  BY TypedInit, TypedStep, PTL DEF Spec

\* Every variable keeps its type.
THEOREM TypeCorrect == Spec => []TypeOK
  <1>1. Typed => TypeOK
    BY DEF Typed
  <1> QED
    BY <1>1, AlwaysTyped, PTL

-----------------------------------------------------------------------------
(* What a step leaves of the actors.                                       *)

Stay(a) == \A b \in Actors \ {a} : actor'[b] = actor[b]

LEMMA GoesEffect ==
  ASSUME Typed, NEW a \in Actors, NEW pc \in Pcs, Goes(a, pc)
  PROVE  /\ actor'[a].pc = pc
         /\ actor'[a].step = actor[a].step
         /\ actor'[a].from = actor[a].from
         /\ actor'[a].key = actor[a].key
         /\ Stay(a)
  BY DEF Typed, ActorsKnown, ActorRecord, Goes, Stay

LEMMA EndsEffect ==
  ASSUME Typed, NEW a \in Actors, Ends(a)
  PROVE  /\ actor'[a].pc = IF a \in Workers THEN "return" ELSE "idle"
         /\ actor'[a].key = actor[a].key
         /\ Stay(a)
  BY DEF Typed, ActorsKnown, Ends, Resting, Stay

LEMMA RestsEffect ==
  ASSUME Typed, NEW a \in Actors, actor' = [actor EXCEPT ![a] = Resting]
  PROVE  actor'[a].pc = "idle" /\ Stay(a)
  BY DEF Typed, ActorsKnown, Resting, Stay

LEMMA TakesEffect ==
  ASSUME Typed, NEW w \in Workers, NEW k \in Keys, Takes(w, k)
  PROVE  /\ actor[w].pc = "idle"
         /\ actor'[w].pc = "gate"
         /\ actor'[w].step = k[1]
         /\ actor'[w].key = k
         /\ Stay(w)
         /\ UNCHANGED <<records, suppressed, recovered, dropped>>
  <1>1. w \in Actors
    BY ApartType
  <1>2. Begins(w, k)
    BY DEF Takes, TakeJob, TakeOver
  <1>3. UNCHANGED <<records, suppressed, recovered, dropped>>
    BY DEF Takes, TakeJob, TakeOver, ghosts
  <1> QED
    BY <1>1, <1>2, <1>3 DEF Typed, ActorsKnown, Begins, Resting, Stay

LEMMA TakesRow ==
  ASSUME QueueTypeOK, NEW w \in Workers, NEW k \in Keys, Takes(w, k)
  PROVE  /\ Live(k)
         /\ live'[k].st = "held" /\ live'[k].owner = w
         /\ \A j \in Keys \ {k} : live'[j] = live[j]
  <1>1. CASE Take(w, k)
    BY <1>1, TakeEffect DEF Take, Live
  <1>2. CASE TakesOver(w, k)
    BY <1>2, TakesOverEffect DEF Live
  <1> QED
    BY <1>1, <1>2 DEF Takes, TakeJob, TakeOver

LEMMA ApprovingEffect ==
  ASSUME Typed, NEW a \in Actors, NEW s, Approving(a, s)
  PROVE  /\ actor'[a].pc = IF Unlinked(s) THEN "compose" ELSE "check"
         /\ actor'[a].step = s
         /\ actor'[a].key = actor[a].key
         /\ Stay(a)
  BY DEF Typed, ActorsKnown, ActorRecord, Approving, Stay

LEMMA CheckPassesEffect ==
  ASSUME Typed, NEW a \in Actors, CheckPasses(a)
  PROVE  /\ actor'[a].pc = "approve"
         /\ actor'[a].step = actor[a].step
         /\ actor'[a].from = enrollment.cur
         /\ actor'[a].key = actor[a].key
         /\ Stay(a)
  BY DEF Typed, ActorsKnown, ActorRecord, CheckPasses, Stay

LEMMA AdvanceEffect ==
  ASSUME Typed, NEW a \in Actors, Advance(a)
  PROVE  /\ actor'[a].pc = IF actor[a].step = Steps THEN "compose" ELSE "enqueue_next"
         /\ actor'[a].step = actor[a].step
         /\ actor'[a].key = actor[a].key
         /\ Stay(a)
  <1>1. PICK pc \in {"compose", "enqueue_next"} :
          /\ pc = IF actor[a].step = Steps THEN "compose" ELSE "enqueue_next"
          /\ actor' = [actor EXCEPT ![a] = [actor[a] EXCEPT !.pc = pc, !.from = 0]]
    BY DEF Advance, Typed, ActorsKnown, ActorRecord
  <1>2. actor[a] \in ActorRecord /\ pc \in Pcs
    BY DEF Typed, ActorsKnown, Pcs
  <1> DEFINE r == [actor[a] EXCEPT !.pc = pc, !.from = 0]
  <1>3. r.pc = pc /\ r.step = actor[a].step /\ r.key = actor[a].key
    BY <1>2, AdvancedType
  <1>4. actor'[a] = r /\ Stay(a)
    BY <1>1 DEF Typed, ActorsKnown, Stay
  <1> HIDE DEF r
  <1> QED
    BY <1>1, <1>3, <1>4

LEMMA RereadEffect ==
  ASSUME Typed, NEW a \in Actors, Reread(a)
  PROVE  /\ Stay(a)
         /\ Active =>
              /\ actor'[a].pc = "skip"
              /\ actor'[a].step = actor[a].step
              /\ actor'[a].from = enrollment.cur
         /\ ~Active => actor'[a].pc = "idle"
  BY DEF Typed, ActorsKnown, ActorRecord, Reread, Resting, Stay

LEMMA SkipEffect ==
  ASSUME Typed, NEW a \in Actors, Skip(a)
  PROVE  /\ Stay(a)
         /\ Advances(a) /\ actor[a].step < Steps =>
              actor'[a].pc = "enqueue" /\ actor'[a].step = actor[a].step + 1
         /\ ~(Advances(a) /\ actor[a].step < Steps) => actor'[a].pc = "idle"
  BY DEF Typed, ActorsKnown, Skip, Resting, Stay

LEMMA EnrollEffect ==
  ASSUME Typed, NEW u \in Users, Enroll(u)
  PROVE  actor'[u].pc = "enqueue" /\ actor'[u].step = 1 /\ Stay(u)
  BY DEF Typed, ActorsKnown, Enroll, Resting, Stay, Actors

LEMMA RejectEffect ==
  ASSUME Typed, NEW u \in Users, NEW s, Reject(u, s)
  PROVE  actor'[u].pc = "reject" /\ actor'[u].step = s /\ Stay(u)
  BY DEF Typed, ActorsKnown, Reject, Resting, Stay, Actors

(* What it leaves of the records.                                          *)

LEMMA CasSendEffect ==
  ASSUME RecordsTyped, NEW s \in Order, NEW from, NEW status, CasSend(s, from, status)
  PROVE  \A r \in Order :
           send'[r].status = IF r = s /\ send[s].status \in from THEN status
                                                                ELSE send[r].status
  BY DEF CasSend, RecordsTyped, Record

LEMMA CancelledEffect ==
  ASSUME RecordsTyped, Cancelled
  PROVE  /\ enrollment'.cur = enrollment.cur
         /\ enrollment'.status = IF Active THEN "cancelled" ELSE enrollment.status
         /\ \A s \in Order :
              send'[s].status = IF Active /\ Pending(s) THEN "cancelled" ELSE send[s].status
  BY DEF Cancelled, RecordsTyped, Record, Enrollment, Active, Pending

LEMMA AdvanceToEffect ==
  ASSUME NEW s, AdvanceTo(s)
  PROVE  /\ enrollment'.cur = s
         /\ enrollment'.status = IF s = Steps THEN "completed" ELSE "active"
  BY DEF AdvanceTo

LEMMA ClaimEffect ==
  ASSUME Typed, NEW w \in Workers, Claim(w)
  PROVE  /\ actor[w].step \in Order
         /\ send[actor[w].step].status = "none"
         /\ \A r \in Order : r # actor[w].step => send'[r].status = send[r].status
         /\ send'[actor[w].step].status \in {"draft", "render_failed"}
         /\ actor'[w].pc \in {"read", "return"}
         /\ actor'[w].pc = "read" => actor'[w].step = actor[w].step
         /\ actor'[w].key = actor[w].key
         /\ Stay(w)
         /\ UNCHANGED enrollment
  <1>1. w \in Actors /\ RecordsTyped /\ actor[w].step \in Order
    BY TypedRecords DEF Actors, Typed, ActorsKnown, KnownRecord, Claim
  <1>2. PICK status \in {"draft", "render_failed"} :
          send' = [send EXCEPT ![actor[w].step].status = status]
    BY DEF Claim
  <1>3. /\ \A r \in Order : r # actor[w].step => send'[r].status = send[r].status
        /\ send'[actor[w].step].status = status
    BY <1>1, <1>2 DEF RecordsTyped, Record
  <1>4. Ends(w) \/ Goes(w, "read")
    BY DEF Claim
  <1>5. /\ actor'[w].pc \in {"read", "return"}
        /\ actor'[w].pc = "read" => actor'[w].step = actor[w].step
        /\ actor'[w].key = actor[w].key
        /\ Stay(w)
    BY <1>1, <1>4, GoesEffect, EndsEffect DEF Pcs
  <1> QED
    BY <1>1, <1>3, <1>5 DEF Claim

LEMMA MarkSuppressedEffect ==
  ASSUME Typed, NEW a \in Actors, MarkSuppressed(a)
  PROVE  /\ actor[a].step \in Order
         /\ \A r \in Order :
              send'[r].status = IF r = actor[a].step /\ send[r].status = "approved"
                                  THEN "suppressed" ELSE send[r].status
         /\ UNCHANGED enrollment
  <1>1. RecordsTyped /\ actor[a].step \in Order
    BY TypedRecords DEF Typed, ActorsKnown, KnownRecord, MarkSuppressed
  <1> QED
    BY <1>1 DEF MarkSuppressed, RecordsTyped, Record

LEMMA LinkEffect ==
  ASSUME Typed, NEW a \in Actors, Link(a)
  PROVE  /\ \A r \in Order : send'[r].status = send[r].status
         /\ UNCHANGED enrollment
  <1>1. RecordsTyped /\ actor[a].step \in Order
    BY TypedRecords DEF Typed, ActorsKnown, KnownRecord, Link
  <1> QED
    BY <1>1 DEF Link, RecordsTyped, Record

\* An actor between its write of a decision on a step and the write of the
\* pointer that follows.
Decider(a) == actor[a].pc \in {"advance", "withdraw", "reread", "skip"}

-----------------------------------------------------------------------------
(* The pointer and the ledger.  Only one actor at a time is between the two *)
(* writes of a decision, on the step the run waits for.                    *)

\* Nothing has happened before the enrollment.
Unstarted ==
  enrollment.status = "absent" =>
    /\ enrollment.cur = 0
    /\ \A s \in Order : send[s].status = "none"
    /\ \A a \in Actors : actor[a].pc = "idle"
    /\ \A k \in Keys : ~Live(k)

\* What an actor knows of the pointer: it read it, and only a decider moves it.
AtFrontier(a) ==
  /\ actor[a].pc \in {"checks", "claim", "read", "check", "approve"} =>
       actor[a].step <= enrollment.cur + 1
  /\ actor[a].pc = "approve" =>
       actor[a].from = enrollment.cur \/ actor[a].step <= enrollment.cur
  /\ Decider(a) => actor[a].step = enrollment.cur + 1
  /\ actor[a].pc \in {"advance", "skip"} => actor[a].from = enrollment.cur
  /\ actor[a].pc \in {"advance", "withdraw"} =>
       send[actor[a].step].status \in {"approved", "suppressed"}
  /\ actor[a].pc \in {"reread", "skip"} => send[actor[a].step].status = "rejected"
  /\ actor[a].pc = "withdraw" => enrollment.status \in {"completed", "cancelled"}

OneDecider == \A a, b \in Actors : Decider(a) /\ Decider(b) => a = b

Frontier == (\A a \in Actors : AtFrontier(a)) /\ OneDecider

\* Those who know nothing.
LEMMA QuietAtFrontier ==
  ASSUME NEW a \in Actors,
         actor'[a].pc \notin {"checks", "claim", "read", "check", "approve", "advance",
                             "withdraw", "reread", "skip"}
  PROVE  AtFrontier(a)' /\ ~Decider(a)'
  BY DEF AtFrontier, Decider

\* A step that decides nothing: the pointer stays, an end stays, and a record
\* only goes from pending to cancelled or from approved to suppressed.
RecordsRest ==
  /\ enrollment'.cur = enrollment.cur
  /\ enrollment.status \in {"completed", "cancelled"} => enrollment'.status = enrollment.status
  /\ \A s \in Order :
       \/ send'[s].status = send[s].status
       \/ Pending(s) /\ send'[s].status = "cancelled"
       \/ send[s].status = "approved" /\ send'[s].status = "suppressed"

LEMMA FrontierRests ==
  ASSUME Typed, Frontier, LedgerMatchesPointer, RecordsRest,
         \A a \in Actors :
           actor'[a] = actor[a] \/ (AtFrontier(a)' /\ (Decider(a)' => Decider(a)))
  PROVE  Frontier' /\ LedgerMatchesPointer'
  <1>1. ASSUME NEW a \in Actors, actor'[a] = actor[a] PROVE AtFrontier(a)'
    <2>1. AtFrontier(a) /\ KnownRecord(a, actor[a])
      BY DEF Frontier, Typed, ActorsKnown
    <2>2. Decider(a) => actor[a].step \in Order
      BY <2>1 DEF KnownRecord, Decider
    <2>3. Decider(a) /\ send[actor[a].step].status \in {"approved", "suppressed"}
            => send'[actor[a].step].status \in {"approved", "suppressed"}
      BY <2>2 DEF RecordsRest, Pending
    <2>4. Decider(a) /\ send[actor[a].step].status = "rejected"
            => send'[actor[a].step].status = "rejected"
      BY <2>2 DEF RecordsRest, Pending
    <2> QED
      BY <1>1, <2>1, <2>3, <2>4 DEF AtFrontier, Decider, RecordsRest
  <1>2. \A a \in Actors : AtFrontier(a)' /\ (Decider(a)' => Decider(a))
    BY <1>1 DEF Decider
  <1>3. LedgerMatchesPointer'
    BY DEF LedgerMatchesPointer, RecordsRest, Pending
  <1> QED
    BY <1>2, <1>3 DEF Frontier, OneDecider

\* ... of one actor.
LEMMA FrontierRestsBy ==
  ASSUME Typed, Frontier, LedgerMatchesPointer, RecordsRest, NEW a \in Actors, Stay(a),
         AtFrontier(a)', Decider(a)' => Decider(a)
  PROVE  Frontier' /\ LedgerMatchesPointer'
  BY FrontierRests DEF Stay

\* Steps of an actor that decide nothing and after which it knows nothing.
Quiet(a) ==
  \/ Defer(a) \/ CancelInstead(a) \/ ClaimLost(a) \/ AutoApproveLate(a) \/ Return(a)
  \/ Throw(a) \/ (a \in Workers /\ \E k \in Keys : Takes(a, k))
  \/ EnqueueStep(a) \/ EnqueueNext(a) \/ CheckEnded(a) \/ CheckSuppressed(a)
  \/ Compose(a) \/ ComposeFails(a) \/ Link(a) \/ MarkSuppressed(a) \/ CancelAfter(a)
  \/ Crash(a) \/ (a \in Users /\ \E s \in Order : Reject(a, s))

LEMMA QuietEffect ==
  ASSUME Typed, NEW a \in Actors, Quiet(a)
  PROVE  /\ RecordsRest
         /\ Stay(a)
         /\ actor'[a].pc \in {"idle", "return", "gate", "compose", "link", "suppress",
                              "cancel", "reject"}
  <1>0. RecordsTyped /\ KnownRecord(a, actor[a])
    BY TypedRecords DEF Typed, ActorsKnown
  <1>1. UNCHANGED <<enrollment, send>> => RecordsRest
    BY DEF RecordsRest
  <1>2. Cancelled => RecordsRest
    BY <1>0, CancelledEffect DEF RecordsRest, Active
  <1>3. Ends(a) => Stay(a) /\ actor'[a].pc \in {"idle", "return"}
    BY EndsEffect
  <1>4. CASE \/ Defer(a) \/ ClaimLost(a) \/ AutoApproveLate(a) \/ EnqueueStep(a)
             \/ ComposeFails(a)
    BY <1>1, <1>3, <1>4
    DEF Defer, ClaimLost, AutoApproveLate, EnqueueStep, ComposeFails, records
  <1>5. CASE CancelInstead(a) \/ CheckSuppressed(a) \/ CancelAfter(a)
    BY <1>2, <1>3, <1>5 DEF CancelInstead, CheckSuppressed, CancelAfter
  <1>6. CASE Return(a) \/ Throw(a) \/ Crash(a)
    BY <1>1, <1>6, RestsEffect DEF Return, Throw, Crash, records
  <1>7. CASE a \in Workers /\ \E k \in Keys : Takes(a, k)
    BY <1>1, <1>7, TakesEffect DEF Takes, TakeJob, TakeOver, records
  <1>8. CASE EnqueueNext(a) \/ Compose(a)
    BY <1>1, <1>8, GoesEffect DEF EnqueueNext, Compose, records, Pcs
  <1>9. CASE CheckEnded(a)
    <2>1. actor[a].step \in Order
      BY <1>0, <1>9 DEF CheckEnded, KnownRecord
    <2>2. RecordsRest
      BY <1>0, <1>9, <2>1, CasSendEffect DEF CheckEnded, RecordsRest, Pending
    <2> QED
      BY <1>3, <1>9, <2>2 DEF CheckEnded
  <1>10. CASE Link(a)
    BY <1>3, <1>10, LinkEffect DEF Link, RecordsRest
  <1>11. CASE MarkSuppressed(a)
    <2>1. RecordsRest
      BY <1>11, MarkSuppressedEffect DEF RecordsRest
    <2> QED
      BY <1>11, <2>1, GoesEffect DEF MarkSuppressed, Pcs
  <1>12. CASE a \in Users /\ \E s \in Order : Reject(a, s)
    BY <1>1, <1>12, RejectEffect DEF Reject, records
  <1> QED
    BY <1>4, <1>5, <1>6, <1>7, <1>8, <1>9, <1>10, <1>11, <1>12 DEF Quiet

\* Steps of an actor that decide nothing, after which it knows the pointer or is
\* the decider it was.
LEMMA KnowingStep ==
  ASSUME Typed, Unstarted, Frontier, LedgerMatchesPointer, NEW a \in Actors,
         \/ Gate(a) \/ ChecksPass(a) \/ CheckPasses(a) \/ AdvanceLost(a) \/ Reread(a)
         \/ AutoApprove(a)
         \/ a \in Users /\ \E s \in Order : Approve(a, s)
  PROVE  Frontier' /\ LedgerMatchesPointer'
  <1>0. AtFrontier(a) /\ KnownRecord(a, actor[a]) /\ RecordsTyped
    BY TypedRecords DEF Frontier, Typed, ActorsKnown
  <1>1. UNCHANGED <<enrollment, send>>
    BY DEF Gate, ChecksPass, CheckPasses, AdvanceLost, Reread, AutoApprove, Approve,
           Approving, records
  <1>2. RecordsRest
    BY <1>1 DEF RecordsRest
  <1>3. CASE Gate(a)
    <2>1. CASE Actionable(a)
      <3>1. /\ actor'[a].pc = "checks" /\ Stay(a)
            /\ actor'[a].step = actor[a].step
        BY <1>3, <2>1, GoesEffect DEF Gate, Pcs
      <3>2. actor'[a].step = enrollment'.cur + 1 /\ enrollment'.cur \in Nat
        BY <1>0, <1>1, <2>1, <3>1, OrderType DEF Actionable, RecordsTyped, Enrollment
      <3>3. AtFrontier(a)' /\ ~Decider(a)'
        BY <3>1, <3>2 DEF AtFrontier, Decider
      <3> QED
        BY <1>2, <3>1, <3>3, FrontierRestsBy
    <2>2. CASE ~Actionable(a)
      BY <1>2, <1>3, <2>2, EndsEffect, QuietAtFrontier, FrontierRestsBy DEF Gate
    <2> QED
      BY <2>1, <2>2
  <1>4. CASE ChecksPass(a)
    <2>1. /\ actor'[a].pc = "claim" /\ Stay(a) /\ actor[a].pc = "checks"
          /\ actor'[a].step = actor[a].step
      BY <1>4, GoesEffect DEF ChecksPass, Pcs
    <2>2. AtFrontier(a)' /\ ~Decider(a)'
      BY <1>0, <1>1, <2>1 DEF AtFrontier, Decider
    <2> QED
      BY <1>2, <2>1, <2>2, FrontierRestsBy
  <1>5. CASE CheckPasses(a)
    <2>1. /\ actor'[a].pc = "approve" /\ Stay(a) /\ actor[a].pc = "check"
          /\ actor'[a].step = actor[a].step /\ actor'[a].from = enrollment.cur
      BY <1>5, CheckPassesEffect DEF CheckPasses
    <2>2. AtFrontier(a)' /\ ~Decider(a)'
      BY <1>0, <1>1, <2>1 DEF AtFrontier, Decider
    <2> QED
      BY <1>2, <2>1, <2>2, FrontierRestsBy
  <1>6. CASE AdvanceLost(a)
    <2>1. /\ actor'[a].pc = "withdraw" /\ Stay(a) /\ actor[a].pc = "advance"
          /\ actor'[a].step = actor[a].step
      BY <1>6, GoesEffect DEF AdvanceLost, Pcs
    <2>2. ~Active
      BY <1>0, <1>6, <2>1 DEF AdvanceLost, Advances, AtFrontier
    <2>3. enrollment.status \in {"completed", "cancelled"}
      BY <1>0, <2>1, <2>2 DEF Unstarted, Active, RecordsTyped, Enrollment
    <2>4. AtFrontier(a)' /\ Decider(a)
      BY <1>0, <1>1, <2>1, <2>3 DEF AtFrontier, Decider
    <2> QED
      BY <1>2, <2>1, <2>4, FrontierRestsBy
  <1>7. CASE Reread(a)
    <2>1. CASE Active
      <3>1. /\ actor'[a].pc = "skip" /\ Stay(a) /\ actor[a].pc = "reread"
            /\ actor'[a].step = actor[a].step /\ actor'[a].from = enrollment.cur
        BY <1>7, <2>1, RereadEffect DEF Reread
      <3>2. AtFrontier(a)' /\ Decider(a)
        BY <1>0, <1>1, <3>1 DEF AtFrontier, Decider
      <3> QED
        BY <1>2, <3>1, <3>2, FrontierRestsBy
    <2>2. CASE ~Active
      BY <1>2, <1>7, <2>2, RereadEffect, QuietAtFrontier, FrontierRestsBy
    <2> QED
      BY <2>1, <2>2
  <1>8. ASSUME NEW s \in Order, Approving(a, s), s <= enrollment.cur + 1
        PROVE  Frontier' /\ LedgerMatchesPointer'
    <2>1. /\ actor'[a].pc \in {"compose", "check"} /\ Stay(a) /\ actor'[a].step = s
      BY <1>8, ApprovingEffect
    <2>2. AtFrontier(a)' /\ ~Decider(a)'
      BY <1>1, <1>8, <2>1 DEF AtFrontier, Decider
    <2> QED
      BY <1>2, <2>1, <2>2, FrontierRestsBy
  <1>9. CASE AutoApprove(a)
    BY <1>0, <1>8, <1>9 DEF AutoApprove, AtFrontier, KnownRecord
  <1>10. ASSUME NEW s \in Order, Approve(a, s)
         PROVE  Frontier' /\ LedgerMatchesPointer'
    <2>1. ~(s > enrollment.cur + 1)
      BY <1>10 DEF Approve, Unlinked, LedgerMatchesPointer
    <2>2. s <= enrollment.cur + 1
      BY <1>0, <2>1, OrderType DEF RecordsTyped, Enrollment
    <2> QED
      BY <1>8, <1>10, <2>2 DEF Approve
  <1> QED
    BY <1>3, <1>4, <1>5, <1>6, <1>7, <1>9, <1>10

\* A new record: of the step the run waits for, where nobody is deciding.
LEMMA ClaimStep ==
  ASSUME Typed, Unstarted, Frontier, LedgerMatchesPointer, NEW w \in Workers, Claim(w)
  PROVE  Frontier' /\ LedgerMatchesPointer'
  <1> DEFINE n == actor[w].step
  <1>0. w \in Actors /\ AtFrontier(w) /\ KnownRecord(w, actor[w]) /\ RecordsTyped
    BY TypedRecords, ApartType DEF Frontier, Typed, ActorsKnown
  <1>1. n \in Order /\ send[n].status = "none" /\ n <= enrollment.cur + 1
    BY <1>0, ClaimEffect DEF AtFrontier, Claim
  <1>2. enrollment.cur \in Nat /\ n = enrollment.cur + 1
    BY <1>0, <1>1 DEF LedgerMatchesPointer, RecordsTyped, Enrollment, Order
  <1>3. ~Decider(w) /\ ~Decider(w)'
    BY ClaimEffect DEF Claim, Decider
  <1>4. \A b \in Actors : ~Decider(b)
    BY <1>1, <1>2 DEF Frontier, AtFrontier, Decider
  <1>5. \A b \in Actors \ {w} : AtFrontier(b)' /\ ~Decider(b)'
    BY <1>4, ClaimEffect DEF Frontier, AtFrontier, Decider, Stay
  <1>6. AtFrontier(w)'
    BY <1>1, <1>3, ClaimEffect DEF AtFrontier, Decider
  <1>7. LedgerMatchesPointer'
    BY <1>1, <1>2, ClaimEffect DEF LedgerMatchesPointer, Order
  <1> QED
    BY <1>3, <1>5, <1>6, <1>7 DEF Frontier, OneDecider

\* The first write of a decision: whoever makes it is the only one that does.
LEMMA DecidesStep ==
  ASSUME Typed, Unstarted, Frontier, LedgerMatchesPointer, NEW a \in Actors,
         ApproveSend(a) \/ RejectSend(a)
  PROVE  Frontier' /\ LedgerMatchesPointer'
  <1> DEFINE n == actor[a].step
  <1>0. AtFrontier(a) /\ KnownRecord(a, actor[a]) /\ RecordsTyped
    BY TypedRecords DEF Frontier, Typed, ActorsKnown
  <1>1. /\ n \in Order /\ enrollment.cur \in Nat /\ UNCHANGED enrollment
        /\ actor[a].pc \in {"approve", "reject"}
    BY <1>0 DEF ApproveSend, RejectSend, KnownRecord, RecordsTyped, Enrollment
  <1>2. CASE Ends(a) /\ UNCHANGED send
    <2>1. RecordsRest
      BY <1>1, <1>2 DEF RecordsRest
    <2> QED
      BY <1>2, <2>1, EndsEffect, QuietAtFrontier, FrontierRestsBy
  <1>3. ASSUME NEW pc \in {"advance", "reread"}, Goes(a, pc), Pending(n),
               pc = "advance" => actor[a].pc = "approve",
               \A r \in Order : r # n => send'[r].status = send[r].status,
               send'[n].status = IF pc = "advance" THEN "approved" ELSE "rejected"
        PROVE  Frontier' /\ LedgerMatchesPointer'
    <2>1. n = enrollment.cur + 1
      BY <1>1, <1>3 DEF Pending, LedgerMatchesPointer, Order
    <2>2. \A b \in Actors : ~Decider(b)
      BY <1>3, <2>1 DEF Frontier, AtFrontier, Decider, Pending
    <2>3. /\ actor'[a].pc = pc /\ actor'[a].step = n /\ actor'[a].from = actor[a].from
          /\ Stay(a)
      BY <1>3, GoesEffect DEF Pcs
    <2>4. \A b \in Actors \ {a} : AtFrontier(b)' /\ ~Decider(b)'
      BY <1>1, <2>2, <2>3 DEF Frontier, AtFrontier, Decider, Stay
    <2>5. pc = "advance" => actor[a].from = enrollment.cur
      BY <1>0, <1>1, <1>3, <2>1 DEF AtFrontier
    <2>6. AtFrontier(a)'
      BY <1>1, <1>3, <2>1, <2>3, <2>5 DEF AtFrontier, Decider
    <2>7. LedgerMatchesPointer'
      BY <1>1, <1>3, <2>1 DEF LedgerMatchesPointer, Order
    <2> QED
      BY <2>4, <2>6, <2>7 DEF Frontier, OneDecider
  <1>4. CASE ApproveSend(a)
    <2>1. CASE send[n].status = "draft"
      BY <1>0, <1>1, <1>3, <1>4, <2>1, CasSendEffect DEF ApproveSend, Pending
    <2>2. CASE send[n].status # "draft"
      BY <1>2, <1>4, <2>2 DEF ApproveSend, CasSend
    <2> QED
      BY <2>1, <2>2
  <1>5. CASE RejectSend(a)
    <2>1. CASE Pending(n)
      <3>1. \A r \in Order : send'[r].status = IF r = n THEN "rejected" ELSE send[r].status
        BY <1>0, <1>1, <1>5, <2>1, CasSendEffect DEF RejectSend, Pending
      <3> QED
        BY <1>1, <1>3, <1>5, <2>1, <3>1 DEF RejectSend
    <2>2. CASE ~Pending(n)
      BY <1>2, <1>5, <2>2 DEF RejectSend, CasSend, Pending
    <2> QED
      BY <2>1, <2>2
  <1> QED
    BY <1>4, <1>5

\* The second: the pointer moves over the step, or the approval is taken back.
LEMMA DecidedStep ==
  ASSUME Typed, Unstarted, Frontier, LedgerMatchesPointer, NEW a \in Actors,
         Advance(a) \/ Skip(a) \/ Withdraw(a)
  PROVE  Frontier' /\ LedgerMatchesPointer'
  <1> DEFINE n == actor[a].step
  <1>0. AtFrontier(a) /\ KnownRecord(a, actor[a]) /\ RecordsTyped
    BY TypedRecords DEF Frontier, Typed, ActorsKnown
  <1>1. /\ n \in Order /\ enrollment.cur \in Nat
        /\ actor[a].pc \in {"advance", "skip", "withdraw"}
        /\ Decider(a) /\ n = enrollment.cur + 1
    BY <1>0 DEF Advance, Skip, Withdraw, KnownRecord, RecordsTyped, Enrollment, Decider,
                AtFrontier
  <1>2. \A b \in Actors \ {a} : ~Decider(b)
    BY <1>1 DEF Frontier, OneDecider
  <1>3. ASSUME Stay(a), NEW pc \in {"idle", "return", "compose", "enqueue", "enqueue_next"},
               actor'[a].pc = pc
        PROVE  /\ AtFrontier(a)' /\ ~Decider(a)'
               /\ \A b \in Actors \ {a} : actor'[b] = actor[b] /\ ~Decider(b)'
    BY <1>2, <1>3 DEF AtFrontier, Decider, Stay
  <1>4. ASSUME Stay(a), AtFrontier(a)', ~Decider(a)', AdvanceTo(n), UNCHANGED send,
               \A b \in Actors \ {a} : actor'[b] = actor[b] /\ ~Decider(b)',
               send[n].status \in {"approved", "rejected", "suppressed"}
        PROVE  Frontier' /\ LedgerMatchesPointer'
    <2>1. enrollment'.cur = enrollment.cur + 1
      BY <1>1, <1>4, AdvanceToEffect
    <2>2. \A b \in Actors \ {a} : AtFrontier(b)'
      <3> SUFFICES ASSUME NEW b \in Actors \ {a} PROVE AtFrontier(b)'
        OBVIOUS
      <3>1. AtFrontier(b) /\ actor[b].step \in Nat /\ actor'[b] = actor[b] /\ ~Decider(b)'
        BY <1>4, OrderType DEF Frontier, Typed, ActorsKnown, ActorRecord
      <3>2. actor[b].pc \in {"checks", "claim", "read", "check", "approve"} =>
              actor[b].step <= enrollment'.cur + 1 /\ actor[b].step <= enrollment'.cur
        BY <1>1, <2>1, <3>1 DEF AtFrontier
      <3> QED
        BY <3>1, <3>2 DEF AtFrontier, Decider
    <2>3. LedgerMatchesPointer'
      BY <1>1, <1>4, <2>1 DEF LedgerMatchesPointer, Order
    <2> QED
      BY <1>4, <2>2, <2>3 DEF Frontier, OneDecider
  <1>5. CASE Advance(a)
    <2>1. AdvanceTo(n) /\ UNCHANGED send /\ Stay(a)
      BY <1>5, AdvanceEffect DEF Advance
    <2>2. send[n].status \in {"approved", "suppressed"}
      BY <1>0, <1>5 DEF Advance, AtFrontier
    <2>3. actor'[a].pc \in {"compose", "enqueue_next"}
      BY <1>5, AdvanceEffect
    <2> QED
      BY <1>3, <1>4, <2>1, <2>2, <2>3
  <1>6. CASE Skip(a)
    <2>1. UNCHANGED send /\ Stay(a) /\ actor'[a].pc \in {"idle", "enqueue"}
      BY <1>6, SkipEffect DEF Skip
    <2>2. send[n].status = "rejected"
      BY <1>0, <1>6 DEF Skip, AtFrontier
    <2>3. CASE AdvanceTo(n)
      BY <1>3, <1>4, <2>1, <2>2, <2>3
    <2>4. CASE UNCHANGED enrollment
      <3>1. RecordsRest
        BY <2>1, <2>4 DEF RecordsRest
      <3> QED
        BY <2>1, <3>1, QuietAtFrontier, FrontierRestsBy
    <2> QED
      BY <1>6, <2>3, <2>4 DEF Skip
  <1>7. CASE Withdraw(a)
    <2>1. Stay(a) /\ actor'[a].pc \in {"idle", "return"} /\ UNCHANGED enrollment
      BY <1>7, EndsEffect DEF Withdraw
    <2>2. \A r \in Order : r # n => send'[r].status = send[r].status
      BY <1>0, <1>1, <1>7, CasSendEffect DEF Withdraw
    <2>3. /\ AtFrontier(a)' /\ ~Decider(a)'
          /\ \A b \in Actors \ {a} : actor'[b] = actor[b] /\ ~Decider(b)'
      BY <1>3, <2>1
    <2>4. \A b \in Actors \ {a} : AtFrontier(b)'
      BY <2>1, <2>3 DEF Frontier, AtFrontier, Decider
    <2>5. LedgerMatchesPointer'
      BY <1>1, <2>1, <2>2 DEF LedgerMatchesPointer, Order
    <2> QED
      BY <2>3, <2>4, <2>5 DEF Frontier, OneDecider
  <1> QED
    BY <1>5, <1>6, <1>7

LEMMA FrontierActorStep ==
  ASSUME Typed, Unstarted, Frontier, LedgerMatchesPointer, NEW a \in Actors, ActorSteps(a)
  PROVE  Frontier' /\ LedgerMatchesPointer'
  <1>1. CASE Quiet(a)
    BY <1>1, QuietEffect, QuietAtFrontier, FrontierRestsBy
  <1>2. CASE a \in Users /\ Enroll(a)
    <2>1. RecordsRest
      BY <1>2 DEF Enroll, Unstarted, RecordsRest
    <2> QED
      BY <1>2, <2>1, EnrollEffect, QuietAtFrontier, FrontierRestsBy
  <1> QED
    BY <1>1, <1>2, KnowingStep, ClaimStep, DecidesStep, DecidedStep
    DEF ActorSteps, WorkerSteps, Handles, Proceeds, Asks, Quiet

LEMMA FrontierStep ==
  ASSUME Typed, Unstarted, Frontier, LedgerMatchesPointer, [Next]_vars
  PROVE  Frontier' /\ LedgerMatchesPointer'
  <1>0. RecordsTyped
    BY TypedRecords DEF Typed
  <1>1. CASE UNCHANGED actor /\ (Cancelled \/ UNCHANGED <<enrollment, send>>)
    <2>1. RecordsRest
      BY <1>0, <1>1, CancelledEffect DEF RecordsRest, Active
    <2> QED
      BY <1>1, <2>1, FrontierRests
  <1> QED
    BY <1>1, NextSteps, FrontierActorStep
    DEF Reclaim, WithdrawJobs, OutsideSteps, Cancel, Suppress, Passes, vars, records

\* The statements that write an enrollment, and who makes them.
LEMMA EnrollmentWrites ==
  ASSUME Typed, NEW a \in Actors, ActorSteps(a)
  PROVE  \/ UNCHANGED enrollment
         \/ Cancelled
         \/ Advances(a) /\ AdvanceTo(actor[a].step) /\ (Advance(a) \/ Skip(a))
         \/ a \in Users /\ Enroll(a)
  <1>1. CASE a \in Workers /\ WorkerSteps(a)
    BY <1>1
    DEF WorkerSteps, Handles, records, Gate, Defer, ChecksPass, CancelInstead, Claim,
        ClaimLost, AutoApprove, AutoApproveLate, Approving, Return, Throw, Takes, TakeJob,
        TakeOver
  <1>2. CASE Proceeds(a)
    BY <1>2
    DEF Proceeds, records, EnqueueStep, EnqueueNext, CheckEnded, CheckSuppressed,
        CheckPasses, ApproveSend, Advance, AdvanceLost, Withdraw, Compose, Link,
        MarkSuppressed, CancelAfter, RejectSend, Reread, Skip
  <1>3. CASE ComposeFails(a) \/ Crash(a) \/ (a \in Users /\ Asks(a))
    BY <1>3 DEF ComposeFails, Crash, Asks, Approve, Approving, Reject, records
  <1> QED
    BY <1>1, <1>2, <1>3 DEF ActorSteps

\* It is not undone, and only an active one moves.
LEMMA StatusMoves ==
  ASSUME Typed, [Next]_vars
  PROVE  /\ \/ enrollment' = enrollment
            \/ Active
            \/ enrollment.status = "absent" /\ enrollment'.status = "active"
         /\ Active => enrollment'.status # "absent"
  <1>1. RecordsTyped
    BY TypedRecords DEF Typed
  <1>2. Cancelled => enrollment' = enrollment \/ (Active /\ enrollment'.status # "absent")
    BY <1>1, CancelledEffect DEF Cancelled
  <1>3. \A s : AdvanceTo(s) => enrollment'.status # "absent"
    BY AdvanceToEffect
  <1>4. \/ enrollment' = enrollment
        \/ Active /\ enrollment'.status # "absent"
        \/ enrollment.status = "absent" /\ enrollment'.status = "active"
    <2>1. ASSUME NEW a \in Actors, ActorSteps(a)
          PROVE  \/ enrollment' = enrollment
                 \/ Active /\ enrollment'.status # "absent"
                 \/ enrollment.status = "absent" /\ enrollment'.status = "active"
      <3>1. CASE Enroll(a)
        BY <3>1 DEF Enroll
      <3>2. CASE Advances(a) /\ AdvanceTo(actor[a].step)
        BY <1>3, <3>2 DEF Advances
      <3> QED
        BY <1>2, <2>1, <3>1, <3>2, EnrollmentWrites
    <2>2. CASE UNCHANGED enrollment \/ Cancelled
      BY <1>2, <2>2
    <2> QED
      BY <2>1, <2>2, NextSteps
      DEF Reclaim, WithdrawJobs, OutsideSteps, Cancel, Suppress, Passes, vars, records
  <1> QED
    BY <1>4 DEF Active

LEMMA UnstartedStep == ASSUME Typed, Unstarted, [Next]_vars PROVE Unstarted'
  <1> SUFFICES ASSUME enrollment'.status = "absent" PROVE Unstarted'
    BY DEF Unstarted
  <1>1. enrollment.status = "absent" /\ enrollment' = enrollment
    BY StatusMoves
  <1>2. /\ \A a \in Actors : actor[a].pc = "idle"
        /\ \A k \in Keys : live[k].st = "absent"
        /\ \A s \in Order : send[s].status = "none"
    BY <1>1 DEF Unstarted, Live
  <1>3. ASSUME NEW a \in Actors, ActorSteps(a) PROVE FALSE
    <2>1. actor[a].pc = "idle"
      BY <1>2
    <2>2. CASE a \in Users /\ Enroll(a)
      BY <1>1, <2>2 DEF Enroll
    <2>3. ASSUME NEW s \in Order, Approve(a, s) \/ Reject(a, s) PROVE FALSE
      BY <1>2, <2>3 DEF Approve, Reject, Unlinked, Pending
    <2>4. ASSUME NEW k \in Keys, Takes(a, k) PROVE FALSE
      BY <1>2, <2>4 DEF Takes, TakeJob, TakeOver, Take, TakesOver
    <2> QED
      BY <1>3, <2>1, <2>2, <2>3, <2>4
      DEF ActorSteps, WorkerSteps, Handles, Proceeds, Asks, Gate, Defer, ChecksPass,
          CancelInstead, Claim, ClaimLost, AutoApprove, AutoApproveLate, Return, Throw,
          EnqueueStep, EnqueueNext, CheckEnded, CheckSuppressed, CheckPasses, ApproveSend,
          Advance, AdvanceLost, Withdraw, Compose, Link, MarkSuppressed, CancelAfter,
          RejectSend, Reread, Skip, ComposeFails, Crash
  <1>4. ASSUME NEW k \in Keys, Reclaim(k) PROVE FALSE
    BY <1>2, <1>4 DEF Reclaim, Reclaims
  <1>6. ~WithdrawJobs
    BY <1>2 DEF WithdrawJobs, Withdraws
  <1>5. CASE OutsideSteps \/ UNCHANGED vars
    <2>1. UNCHANGED <<live, enrollment, send, actor>>
      BY <1>1, <1>5
      DEF OutsideSteps, Cancel, Suppress, Passes, Tick, vars, queueVars, records, Active
    <2> QED
      BY <1>1, <2>1 DEF Unstarted, Live
  <1> QED
    BY <1>3, <1>4, <1>5, <1>6, NextSteps

LEMMA FrontierInit == Init => Unstarted /\ Frontier /\ LedgerMatchesPointer
  BY DEF Init, QueueInit, Live, NoJob, Unstarted, Frontier, AtFrontier, OneDecider, Decider,
         Resting, LedgerMatchesPointer, Actors, Order

LEMMA AlwaysFrontier == Spec => [](Unstarted /\ Frontier /\ LedgerMatchesPointer)
  BY FrontierInit, UnstartedStep, FrontierStep, AlwaysTyped, PTL DEF Spec

\* However the approvals and rejections of any number of users interleave with
\* the handlers', with cancellations and with crashes between the two writes of
\* a decision, currentStepOrder never leaves an undecided step behind and no
\* record is made ahead of it.
THEOREM LedgerAgrees == Spec => []LedgerMatchesPointer
  BY AlwaysFrontier, PTL

-----------------------------------------------------------------------------
(* What is composed.                                                       *)

Behind(s) ==
  s \notin recovered =>
    s <= enrollment.cur /\ send[s].status \in {"approved", "suppressed"}

Composing ==
  /\ \A a \in Actors : \A s \in Order : actor[a].step = s =>
       /\ actor[a].pc \in {"enqueue_next", "compose"} => Behind(s)
       /\ actor[a].pc = "suppress" => mail[s] # "none"
  /\ \A s \in Order : send[s].status = "suppressed" => mail[s] # "none"

\* A record that is written by a step was pending or none, is being withdrawn, or
\* is marked suppressed.
LEMMA RecordWrites ==
  ASSUME Typed, NEW a \in Actors, ActorSteps(a), NEW s \in Order
  PROVE  \/ send'[s].status = send[s].status
         \/ send[s].status \in {"none", "draft", "render_failed"}
              /\ send'[s].status \notin {"none", "suppressed"}
         \/ Withdraw(a) /\ actor[a].step = s /\ send'[s].status = "cancelled"
         \/ MarkSuppressed(a) /\ actor[a].step = s /\ send'[s].status = "suppressed"
  <1> DEFINE Goal ==
        \/ send'[s].status = send[s].status
        \/ send[s].status \in {"none", "draft", "render_failed"}
             /\ send'[s].status \notin {"none", "suppressed"}
        \/ Withdraw(a) /\ actor[a].step = s /\ send'[s].status = "cancelled"
        \/ MarkSuppressed(a) /\ actor[a].step = s /\ send'[s].status = "suppressed"
  <1> SUFFICES Goal
    OBVIOUS
  <1>0. RecordsTyped /\ KnownRecord(a, actor[a])
    BY TypedRecords DEF Typed, ActorsKnown
  <1>1. CASE UNCHANGED send
    BY <1>1
  <1>2. CASE Cancelled
    BY <1>0, <1>2, CancelledEffect DEF Pending
  <1>3. CASE a \in Workers /\ Claim(a)
    BY <1>3, ClaimEffect
  <1>4. CASE CheckEnded(a) \/ ApproveSend(a) \/ RejectSend(a) \/ Withdraw(a)
    <2>1. actor[a].step \in Order
      BY <1>0, <1>4 DEF CheckEnded, ApproveSend, RejectSend, Withdraw, KnownRecord
    <2>2. CASE CheckEnded(a)
      BY <1>0, <2>1, <2>2, CasSendEffect DEF CheckEnded
    <2>3. CASE ApproveSend(a)
      BY <1>0, <2>1, <2>3, CasSendEffect DEF ApproveSend
    <2>4. CASE RejectSend(a)
      BY <1>0, <2>1, <2>4, CasSendEffect DEF RejectSend
    <2>5. CASE Withdraw(a)
      <3>1. CasSend(actor[a].step, {"approved"}, "cancelled")
        BY <2>5 DEF Withdraw
      <3>2. send'[s].status = send[s].status
              \/ (actor[a].step = s /\ send'[s].status = "cancelled")
        BY <1>0, <2>1, <3>1, CasSendEffect
      <3> QED
        BY <2>5, <3>2
    <2> QED
      BY <1>4, <2>2, <2>3, <2>4, <2>5
  <1>5. CASE MarkSuppressed(a)
    BY <1>5, MarkSuppressedEffect
  <1>6. CASE Link(a)
    BY <1>6, LinkEffect
  <1> HIDE DEF Goal
  <1>7. CASE a \in Workers /\ WorkerSteps(a)
    BY <1>1, <1>2, <1>3, <1>7
    DEF WorkerSteps, Handles, records, Gate, Defer, ChecksPass, CancelInstead, ClaimLost,
        AutoApprove, AutoApproveLate, Approving, Return, Throw, Takes, TakeJob, TakeOver
  <1>8. CASE Proceeds(a)
    BY <1>1, <1>2, <1>4, <1>5, <1>6, <1>8
    DEF Proceeds, records, EnqueueStep, EnqueueNext, CheckSuppressed, CheckPasses, Advance,
        AdvanceLost, Compose, CancelAfter, Reread, Skip
  <1>9. CASE ComposeFails(a) \/ Crash(a) \/ (a \in Users /\ Asks(a))
    BY <1>1, <1>9 DEF ComposeFails, Crash, Asks, Enroll, Approve, Approving, Reject, records
  <1> QED
    BY <1>7, <1>8, <1>9 DEF ActorSteps

\* The pointer does not go back.
LEMMA PointerGrows ==
  ASSUME Typed, Unstarted, Frontier, [Next]_vars
  PROVE  enrollment.cur <= enrollment'.cur
  <1>0. enrollment.cur \in Nat /\ RecordsTyped
    BY TypedRecords, OrderType DEF Typed, RecordsTyped, Enrollment
  <1>1. CASE UNCHANGED enrollment \/ Cancelled
    <2>1. enrollment'.cur = enrollment.cur
      BY <1>0, <1>1, CancelledEffect
    <2> QED
      BY <1>0, <2>1
  <1>2. ASSUME NEW a \in Actors, ActorSteps(a) PROVE enrollment.cur <= enrollment'.cur
    <2>1. CASE Enroll(a)
      <3>1. enrollment.cur = 0 /\ enrollment'.cur = 0
        BY <2>1 DEF Enroll, Unstarted
      <3> QED
        BY <3>1
    <2>2. CASE Advance(a) \/ Skip(a)
      <3>1. actor[a].step = enrollment.cur + 1
        BY <2>2 DEF Frontier, AtFrontier, Decider, Advance, Skip
      <3>2. enrollment'.cur = enrollment.cur + 1 \/ UNCHANGED enrollment
        BY <2>2, <3>1, AdvanceToEffect DEF Advance, Skip
      <3> QED
        BY <1>0, <3>2
    <2>3. CASE UNCHANGED enrollment \/ Cancelled
      BY <1>1, <2>3
    <2>4. ~Enroll(a) /\ ~Advance(a) /\ ~Skip(a) => UNCHANGED enrollment \/ Cancelled
      <3>1. CASE a \in Workers /\ WorkerSteps(a)
        BY <3>1
        DEF WorkerSteps, Handles, records, Gate, Defer, ChecksPass, CancelInstead, Claim,
            ClaimLost, AutoApprove, AutoApproveLate, Approving, Return, Throw, Takes,
            TakeJob, TakeOver
      <3>2. CASE Proceeds(a)
        BY <3>2
        DEF Proceeds, records, EnqueueStep, EnqueueNext, CheckEnded, CheckSuppressed,
            CheckPasses, ApproveSend, AdvanceLost, Withdraw, Compose, Link, MarkSuppressed,
            CancelAfter, RejectSend, Reread
      <3>3. CASE ComposeFails(a) \/ Crash(a) \/ (a \in Users /\ Asks(a))
        BY <3>3 DEF ComposeFails, Crash, Asks, Approve, Approving, Reject, records
      <3> QED
        BY <1>2, <3>1, <3>2, <3>3 DEF ActorSteps
    <2> QED
      BY <2>1, <2>2, <2>3, <2>4
  <1> QED
    BY <1>1, <1>2, NextSteps
    DEF Reclaim, WithdrawJobs, OutsideSteps, Cancel, Suppress, Passes, vars, records

\* The outbound rows and the ghost of a second approval.
LEMMA MailMoves ==
  ASSUME Typed, [Next]_vars
  PROVE  /\ recovered \subseteq recovered'
         /\ \A s \in Order :
              \/ mail'[s] = mail[s]
              \/ /\ mail[s] = "none" /\ mail'[s] # "none"
                 /\ UNCHANGED <<enrollment, send, recovered>>
                 /\ \E a \in Actors : actor[a].pc = "compose" /\ actor[a].step = s
  <1>0. mail \in [Order -> Mails]
    BY TypedRecords DEF Typed
  <1> DEFINE Goal ==
        /\ recovered \subseteq recovered'
        /\ \A s \in Order :
             \/ mail'[s] = mail[s]
             \/ /\ mail[s] = "none" /\ mail'[s] # "none"
                /\ UNCHANGED <<enrollment, send, recovered>>
                /\ \E a \in Actors : actor[a].pc = "compose" /\ actor[a].step = s
  <1> SUFFICES Goal
    OBVIOUS
  <1>1. CASE UNCHANGED mail /\ recovered \subseteq recovered'
    BY <1>1
  <1>2. ASSUME NEW a \in Actors, Compose(a) \/ ComposeFails(a) PROVE Goal
    <2>1. /\ actor[a].pc = "compose"
          /\ UNCHANGED mail \/ Composed(actor[a].step)
          /\ UNCHANGED <<enrollment, send, recovered>>
      BY <1>2 DEF Compose, ComposeFails, ghosts
    <2>2. \A s \in Order :
            mail'[s] = mail[s] \/ (s = actor[a].step /\ mail[s] = "none" /\ mail'[s] # "none")
      BY <1>0, <2>1 DEF Composed
    <2> QED
      BY <2>1, <2>2
  <1> HIDE DEF Goal
  <1>3. ASSUME NEW a \in Actors, ActorSteps(a) PROVE Goal
    <2>1. CASE a \in Workers /\ WorkerSteps(a)
      BY <1>1, <2>1
      DEF WorkerSteps, Handles, records, ghosts, Gate, Defer, ChecksPass, CancelInstead,
          Claim, ClaimLost, AutoApprove, AutoApproveLate, Approving, Return, Throw, Takes,
          TakeJob, TakeOver
    <2>2. CASE Proceeds(a)
      BY <1>1, <1>2, <2>2
      DEF Proceeds, records, ghosts, EnqueueStep, EnqueueNext, CheckEnded, CheckSuppressed,
          CheckPasses, ApproveSend, Advance, AdvanceLost, Withdraw, Link, MarkSuppressed,
          CancelAfter, RejectSend, Reread, Skip
    <2>3. CASE ComposeFails(a) \/ Crash(a) \/ (a \in Users /\ Asks(a))
      BY <1>1, <1>2, <2>3
      DEF Crash, Asks, Enroll, Approve, Approving, Reject, records, ghosts
    <2> QED
      BY <1>3, <2>1, <2>2, <2>3 DEF ActorSteps
  <1> QED
    BY <1>1, <1>3, NextSteps
    DEF Reclaim, WithdrawJobs, OutsideSteps, Cancel, Suppress, Passes, vars, records, ghosts

\* What was approved and is behind the pointer stays so.
LEMMA BehindStays ==
  ASSUME Typed, Unstarted, Frontier, LedgerMatchesPointer, [Next]_vars, NEW s \in Order,
         Behind(s)
  PROVE  Behind(s)'
  <1>0. enrollment.cur \in Nat /\ enrollment'.cur \in Nat /\ RecordsTyped
    BY TypedRecords, TypedStep, OrderType DEF Typed, TypeOK, RecordsTyped, Enrollment
  <1> SUFFICES ASSUME s \notin recovered'
               PROVE  s <= enrollment'.cur /\ send'[s].status \in {"approved", "suppressed"}
    BY DEF Behind
  <1>1. s <= enrollment.cur /\ send[s].status \in {"approved", "suppressed"}
    BY MailMoves DEF Behind
  <1>2. s <= enrollment'.cur
    BY <1>0, <1>1, PointerGrows DEF Order
  <1>3. ASSUME NEW a \in Actors, ActorSteps(a)
        PROVE  send'[s].status \in {"approved", "suppressed"}
    <2>1. ~(Withdraw(a) /\ actor[a].step = s)
      BY <1>0, <1>1 DEF Withdraw, Frontier, AtFrontier, Decider
    <2> QED
      BY <1>1, <1>3, <2>1, RecordWrites
  <1>4. CASE UNCHANGED send \/ Cancelled
    BY <1>0, <1>1, <1>2, <1>4, CancelledEffect DEF Pending
  <1> QED
    BY <1>2, <1>3, <1>4, NextSteps
    DEF Reclaim, WithdrawJobs, OutsideSteps, Cancel, Suppress, Passes, vars, records

\* An actor that goes to compose has the step behind it, or approves it again.
LEMMA ComposingActor ==
  ASSUME Typed, Unstarted, Frontier, LedgerMatchesPointer, Composing, NEW a \in Actors,
         ActorSteps(a)
  PROVE  /\ Stay(a)
         /\ \A s \in Order : actor'[a].step = s =>
              /\ actor'[a].pc \in {"enqueue_next", "compose"} => Behind(s)'
              /\ actor'[a].pc = "suppress" => mail'[s] # "none"
  <1>0. AtFrontier(a) /\ KnownRecord(a, actor[a]) /\ RecordsTyped
    BY TypedRecords DEF Frontier, Typed, ActorsKnown
  <1> DEFINE Goal ==
         /\ Stay(a)
         /\ \A s \in Order : actor'[a].step = s =>
              /\ actor'[a].pc \in {"enqueue_next", "compose"} => Behind(s)'
              /\ actor'[a].pc = "suppress" => mail'[s] # "none"
  <1> SUFFICES Goal
    OBVIOUS
  <1>1. CASE Stay(a) /\ actor'[a].pc \notin {"enqueue_next", "compose", "suppress"}
    BY <1>1
  <1>2. CASE EnqueueNext(a)
    <2>1. /\ actor'[a].pc = "compose" /\ actor'[a].step = actor[a].step /\ Stay(a)
          /\ actor[a].pc = "enqueue_next"
      BY <1>2, GoesEffect DEF EnqueueNext, Pcs
    <2>2. \A s \in Order : actor'[a].step = s => Behind(s)'
      BY <1>2, <2>1 DEF EnqueueNext, Composing, Behind, records, ghosts
    <2> QED
      BY <2>1, <2>2
  <1>3. ASSUME NEW s \in Order, Approving(a, s) PROVE Goal
    <2>1. /\ actor'[a].pc = IF Unlinked(s) THEN "compose" ELSE "check"
          /\ actor'[a].step = s /\ Stay(a)
      BY <1>3, ApprovingEffect
    <2>2. Unlinked(s) => Behind(s)'
      BY <1>3 DEF Approving, Behind
    <2> QED
      BY <2>1, <2>2
  <1>4. CASE Advance(a)
    <2>1. /\ Stay(a) /\ actor'[a].pc # "suppress" /\ actor'[a].step = actor[a].step
      BY <1>4, AdvanceEffect
    <2>2. /\ enrollment'.cur = actor[a].step /\ actor[a].step \in Nat
          /\ send[actor[a].step].status \in {"approved", "suppressed"}
          /\ UNCHANGED send
      BY <1>0, <1>4, AdvanceToEffect, OrderType DEF Advance, AtFrontier, KnownRecord, ActorRecord
    <2>3. \A s \in Order : actor'[a].step = s => Behind(s)'
      BY <2>1, <2>2 DEF Behind
    <2> QED
      BY <2>1, <2>3
  <1>5. CASE Compose(a)
    <2>1. CASE suppressed
      <3>1. actor'[a].pc = "suppress" /\ actor'[a].step = actor[a].step /\ Stay(a)
        BY <1>5, <2>1, GoesEffect DEF Compose, Pcs
      <3>2. mail'[actor[a].step] # "none"
        <4>1. actor[a].step \in Order /\ mail \in [Order -> Mails]
          BY <1>0, <1>5, TypedRecords DEF Compose, KnownRecord, Typed
        <4> QED
          BY <1>5, <4>1 DEF Compose, Composed
      <3> QED
        BY <3>1, <3>2
    <2>2. CASE ~suppressed
      BY <1>1, <1>5, <2>2, GoesEffect DEF Compose, Pcs
    <2> QED
      BY <2>1, <2>2
  <1> HIDE DEF Goal
  <1>6. CASE Quiet(a) /\ ~EnqueueNext(a) /\ ~Compose(a)
    <2>1. CASE Goes(a, "cancel")
      BY <1>1, <2>1, GoesEffect DEF Pcs
    <2>2. CASE Ends(a)
      BY <1>1, <2>2, EndsEffect
    <2>3. CASE actor' = [actor EXCEPT ![a] = Resting]
      BY <1>1, <2>3, RestsEffect
    <2>4. CASE a \in Workers /\ \E k \in Keys : Takes(a, k)
      BY <1>1, <2>4, TakesEffect
    <2>5. CASE a \in Users /\ \E s \in Order : Reject(a, s)
      BY <1>1, <2>5, RejectEffect
    <2> QED
      BY <1>6, <2>1, <2>2, <2>3, <2>4, <2>5
      DEF Quiet, Defer, CancelInstead, ClaimLost, AutoApproveLate, Return, Throw,
          EnqueueStep, CheckEnded, CheckSuppressed, ComposeFails, Link, MarkSuppressed,
          CancelAfter, Crash
  <1>7. CASE \/ Gate(a) \/ ChecksPass(a) \/ AdvanceLost(a) \/ ApproveSend(a)
             \/ RejectSend(a) \/ Withdraw(a)
    <2>1. CASE Ends(a)
      BY <1>1, <2>1, EndsEffect
    <2>2. ASSUME NEW pc \in {"checks", "claim", "withdraw", "advance", "reread"}, Goes(a, pc)
          PROVE  Goal
      BY <1>1, <2>2, GoesEffect DEF Pcs
    <2> QED
      BY <1>7, <2>1, <2>2 DEF Gate, ChecksPass, AdvanceLost, ApproveSend, RejectSend, Withdraw
  <1>8. CASE CheckPasses(a)
    BY <1>1, <1>8, CheckPassesEffect
  <1>9. CASE Reread(a)
    BY <1>1, <1>9, RereadEffect
  <1>10. CASE Skip(a)
    BY <1>1, <1>10, SkipEffect
  <1>11. CASE a \in Workers /\ Claim(a)
    BY <1>1, <1>11, ClaimEffect
  <1>12. CASE a \in Users /\ Enroll(a)
    BY <1>1, <1>12, EnrollEffect
  <1>13. CASE AutoApprove(a)
    BY <1>0, <1>3, <1>13 DEF AutoApprove, KnownRecord
  <1> QED
    BY <1>2, <1>3, <1>4, <1>5, <1>6, <1>7, <1>8, <1>9, <1>10, <1>11, <1>12, <1>13
    DEF ActorSteps, WorkerSteps, Handles, Proceeds, Asks, Quiet, Approve

LEMMA ComposingStep ==
  ASSUME Typed, Unstarted, Frontier, LedgerMatchesPointer, Composing, [Next]_vars
  PROVE  Composing'
  <1>0. RecordsTyped
    BY TypedRecords DEF Typed
  <1>1. ASSUME NEW a \in Actors, actor'[a] = actor[a], NEW s \in Order, actor'[a].step = s
        PROVE  /\ actor'[a].pc \in {"enqueue_next", "compose"} => Behind(s)'
               /\ actor'[a].pc = "suppress" => mail'[s] # "none"
    <2>1. CASE actor[a].pc \in {"enqueue_next", "compose"}
      <3>1. Behind(s)'
        BY <1>1, <2>1, BehindStays DEF Composing
      <3> QED
        BY <1>1, <2>1, <3>1
    <2>2. CASE actor[a].pc = "suppress"
      BY <1>1, <2>2, MailMoves DEF Composing
    <2> QED
      BY <1>1, <2>1, <2>2
  <1>2. ASSUME NEW a \in Actors, NEW s \in Order, actor'[a].step = s
        PROVE  /\ actor'[a].pc \in {"enqueue_next", "compose"} => Behind(s)'
               /\ actor'[a].pc = "suppress" => mail'[s] # "none"
    <2>1. CASE ActorSteps(a)
      BY <1>2, <2>1, ComposingActor
    <2>2. ASSUME NEW b \in Actors \ {a}, ActorSteps(b) PROVE actor'[a] = actor[a]
      BY <2>2, ComposingActor DEF Stay
    <2>3. UNCHANGED actor => actor'[a] = actor[a]
      OBVIOUS
    <2> QED
      BY <1>1, <1>2, <2>1, <2>2, <2>3, NextSteps
      DEF Reclaim, WithdrawJobs, OutsideSteps, Cancel, Suppress, Passes, vars
  <1>3. ASSUME NEW s \in Order, send'[s].status = "suppressed" PROVE mail'[s] # "none"
    <2>1. send[s].status = "suppressed" => mail'[s] # "none"
      BY MailMoves DEF Composing
    <2>2. ASSUME NEW a \in Actors, ActorSteps(a) PROVE mail'[s] # "none"
      <3>1. CASE MarkSuppressed(a) /\ actor[a].step = s
        BY <3>1, MailMoves DEF MarkSuppressed, Composing
      <3> QED
        BY <1>3, <2>1, <2>2, <3>1, RecordWrites
    <2>3. CASE UNCHANGED send \/ Cancelled
      BY <1>0, <1>3, <2>1, <2>3, CancelledEffect
    <2> QED
      BY <2>2, <2>3, NextSteps
      DEF Reclaim, WithdrawJobs, OutsideSteps, Cancel, Suppress, Passes, vars, records
  <1> QED
    BY <1>2, <1>3 DEF Composing

LEMMA ComposedStep ==
  ASSUME Typed, Unstarted, Frontier, LedgerMatchesPointer, Composing, ComposedAfterBoth,
         [Next]_vars
  PROVE  ComposedAfterBoth'
  <1> SUFFICES ASSUME NEW s \in Order, mail'[s] # "none" PROVE Behind(s)'
    BY DEF ComposedAfterBoth, Behind
  <1>1. mail[s] # "none" => Behind(s)
    BY DEF ComposedAfterBoth, Behind
  <1>2. mail'[s] # mail[s] => Behind(s)
    BY MailMoves DEF Composing
  <1> QED
    BY <1>1, <1>2, BehindStays

LEMMA AlwaysComposing == Spec => [](Composing /\ ComposedAfterBoth)
  <1>1. Init => Composing /\ ComposedAfterBoth
    BY DEF Init, Composing, ComposedAfterBoth, Resting, Actors
  <1> QED
    BY <1>1, ComposingStep, ComposedStep, AlwaysTyped, AlwaysFrontier, PTL DEF Spec

\* An outbound row of a step takes both compare-and-sets, the approval of its
\* record and the advance of the run, unless a second approval recovers it.
THEOREM ComposedAfterAdvance == Spec => []ComposedAfterBoth
  BY AlwaysComposing, PTL

LEMMA QuietStep ==
  ASSUME Typed, Unstarted, Frontier, LedgerMatchesPointer, Composing, [Next]_vars
  PROVE  QuietAfterEnd
  <1>1. enrollment.status \in {"completed", "cancelled"} => enrollment' = enrollment
    BY StatusMoves DEF Active
  <1>2. ASSUME NEW s \in Order \ recovered, mail'[s] # mail[s]
        PROVE  send[s].status = "approved" /\ s <= enrollment.cur
    <2>1. mail[s] = "none" /\ Behind(s)
      BY <1>2, MailMoves DEF Composing
    <2> QED
      BY <1>2, <2>1 DEF Behind, Composing
  <1> QED
    BY <1>1, <1>2 DEF QuietAfterEnd

\* A run that has ended stays ended, and nothing is composed for it that had not
\* passed both before the end.
THEOREM EndStays == Spec => EndIsFinal
  <1>1. Typed /\ Unstarted /\ Frontier /\ LedgerMatchesPointer /\ Composing /\ [Next]_vars
          => [QuietAfterEnd]_vars
    BY QuietStep
  <1> QED
    BY <1>1, AlwaysTyped, AlwaysFrontier, AlwaysComposing, PTL DEF Spec, EndIsFinal

-----------------------------------------------------------------------------
(* What an active run waits for.                                           *)

Cut == mishaps \cap {"crash", "throw", "withdraw"} # {}

NoneAhead ==
  /\ \A k \in Keys : Live(k) => k[1] <= enrollment.cur + 1
  /\ \A a \in Actors :
       /\ actor[a].pc = "enqueue" => actor[a].step <= enrollment.cur + 1
       /\ actor[a].pc = "enqueue_next" => actor[a].step <= enrollment.cur
       /\ a \in Workers /\ actor[a].pc # "idle" => actor[a].key[1] <= enrollment.cur + 1
       /\ a \in Workers /\ actor[a].pc \notin {"idle", "gate", "checks", "claim", "return"} =>
            send[actor[a].step].status # "none"

\* A handler has yet to claim the step, whoever its row now belongs to.
Looks(w, n) == actor[w].step = n /\ actor[w].pc \in {"gate", "checks", "claim"}

Enqueuing(a, n) ==
  \/ actor[a].pc = "enqueue" /\ actor[a].step = n
  \/ actor[a].pc = "enqueue_next" /\ actor[a].step + 1 = n

\* The step is awaited: its record waits for a decision or has had one, or its
\* job waits, has a handler that will come to a claim, or is about to be made.
Covered(n) ==
  \/ Pending(n)
  \/ /\ send[n].status \in {"approved", "rejected", "suppressed"}
     /\ \E a \in Actors : Decider(a)
  \/ /\ send[n].status = "none"
     /\ \/ \E b \in Buckets : live[<<n, b>>].st = "pending"
        \/ \E w \in Workers : Looks(w, n)
        \/ /\ \A b \in Buckets : ~Live(<<n, b>>)
           /\ \E a \in Actors : Enqueuing(a, n)

Waits ==
  /\ Active => enrollment.cur < Steps
  /\ Active /\ ~Cut /\ ~dropped =>
       \A n \in Order : n = enrollment.cur + 1 => Covered(n)

\* What the earlier invariants say together.
Consistent == Typed /\ Unstarted /\ Frontier /\ LedgerMatchesPointer /\ Composing

\* The statements that write the queue, and who makes them.
LEMMA QueueWrites ==
  ASSUME Typed, NEW a \in Actors, ActorSteps(a)
  PROVE  \/ UNCHANGED queueVars
         \/ EnqueueStep(a) \/ EnqueueNext(a) \/ (a \in Workers /\ Defer(a))
         \/ a \in Workers /\ Return(a)
         \/ a \in Workers /\ Throw(a)
         \/ a \in Workers /\ \E k \in Keys : Takes(a, k)
  <1>1. CASE a \in Workers /\ WorkerSteps(a)
    BY <1>1
    DEF WorkerSteps, Handles, Gate, ChecksPass, CancelInstead, Claim, ClaimLost,
        AutoApprove, AutoApproveLate, Approving
  <1>2. CASE Proceeds(a)
    BY <1>2
    DEF Proceeds, CheckEnded, CheckSuppressed, CheckPasses, ApproveSend, Advance,
        AdvanceLost, Withdraw, Compose, Link, MarkSuppressed, CancelAfter, RejectSend,
        Reread, Skip
  <1>3. CASE ComposeFails(a) \/ Crash(a) \/ (a \in Users /\ Asks(a))
    BY <1>3 DEF ComposeFails, Crash, Asks, Enroll, Approve, Approving, Reject
  <1> QED
    BY <1>1, <1>2, <1>3 DEF ActorSteps

\* How a worker moves: it takes a job, it lets go of one, or it goes on with it.
LEMMA WorkerMoves ==
  ASSUME Typed, NEW w \in Workers, ActorSteps(w)
  PROVE  \/ Return(w) /\ actor'[w].pc = "idle"
         \/ Throw(w) \/ Crash(w)
         \/ \E k \in Keys : Takes(w, k)
         \/ /\ actor[w].pc \notin {"idle", "return"}
            /\ actor'[w].pc # "idle"
            /\ actor'[w].key = actor[w].key
            /\ actor'[w].pc # "return" => actor'[w].step = actor[w].step
            /\ actor'[w].pc \notin {"gate", "checks", "claim", "return"} =>
                 Claim(w) \/ actor[w].pc \notin {"gate", "checks", "claim"}
  <1> DEFINE GoesOn ==
            /\ actor[w].pc \notin {"idle", "return"}
            /\ actor'[w].pc # "idle"
            /\ actor'[w].key = actor[w].key
            /\ actor'[w].pc # "return" => actor'[w].step = actor[w].step
            /\ actor'[w].pc \notin {"gate", "checks", "claim", "return"} =>
                 Claim(w) \/ actor[w].pc \notin {"gate", "checks", "claim"}
  <1>0. w \in Actors /\ w \notin Users /\ KnownRecord(w, actor[w])
    BY ApartType DEF Typed, ActorsKnown
  <1>1. ASSUME Ends(w), actor[w].pc \notin {"idle", "return"} PROVE GoesOn
    BY <1>0, <1>1, EndsEffect
  <1>2. ASSUME NEW pc \in Pcs \ {"idle", "return"}, Goes(w, pc), actor[w].pc \notin {"idle", "return"},
               pc \in {"checks", "claim"} \/ Claim(w) \/ actor[w].pc \notin {"gate", "checks", "claim"}
        PROVE  GoesOn
    BY <1>0, <1>2, GoesEffect
  <1> HIDE DEF GoesOn
  <1>3. CASE \/ Defer(w) \/ CancelInstead(w) \/ ClaimLost(w) \/ AutoApproveLate(w)
             \/ EnqueueStep(w) \/ CheckEnded(w) \/ CheckSuppressed(w) \/ Withdraw(w)
             \/ Link(w) \/ CancelAfter(w) \/ ComposeFails(w)
    <2>1. GoesOn
      BY <1>1, <1>3
      DEF Defer, CancelInstead, ClaimLost, AutoApproveLate, EnqueueStep, CheckEnded,
          CheckSuppressed, Withdraw, Link, CancelAfter, ComposeFails
    <2> QED
      BY <2>1 DEF GoesOn
  <1>4. CASE \/ Gate(w) \/ ChecksPass(w) \/ Claim(w) \/ EnqueueNext(w) \/ ApproveSend(w)
             \/ AdvanceLost(w) \/ Compose(w) \/ MarkSuppressed(w) \/ RejectSend(w)
    <2>1. GoesOn
      <3>1. CASE Gate(w) \/ ChecksPass(w) \/ Claim(w)
        BY <1>1, <1>2, <3>1 DEF Gate, ChecksPass, Claim, Pcs
      <3>2. CASE EnqueueNext(w) \/ ApproveSend(w) \/ AdvanceLost(w)
        BY <1>1, <1>2, <3>2 DEF EnqueueNext, ApproveSend, AdvanceLost, Pcs
      <3>3. CASE Compose(w) \/ MarkSuppressed(w) \/ RejectSend(w)
        BY <1>1, <1>2, <3>3 DEF Compose, MarkSuppressed, RejectSend, Pcs
      <3> QED
        BY <1>4, <3>1, <3>2, <3>3
    <2> QED
      BY <2>1 DEF GoesOn
  <1>5. CASE AutoApprove(w)
    <2>1. GoesOn
      BY <1>0, <1>5, ApprovingEffect DEF AutoApprove, GoesOn
    <2> QED
      BY <2>1 DEF GoesOn
  <1>6. CASE CheckPasses(w)
    <2>1. GoesOn
      BY <1>0, <1>6, CheckPassesEffect DEF CheckPasses, GoesOn
    <2> QED
      BY <2>1 DEF GoesOn
  <1>7. CASE Advance(w)
    <2>2. actor[w].pc = "advance"
      BY <1>7 DEF Advance
    <2>3. /\ actor'[w].pc \in {"compose", "enqueue_next"}
          /\ actor'[w].step = actor[w].step /\ actor'[w].key = actor[w].key
      BY <1>0, <1>7, AdvanceEffect
    <2>1. GoesOn
      BY <2>2, <2>3 DEF GoesOn
    <2> QED
      BY <2>1 DEF GoesOn
  <1>8. CASE Return(w)
    BY <1>0, <1>8, RestsEffect DEF Return
  <1>9. ~Reread(w) /\ ~Skip(w)
    BY <1>0 DEF Reread, Skip, KnownRecord
  <1> QED
    BY <1>0, <1>3, <1>4, <1>5, <1>6, <1>7, <1>8, <1>9
    DEF ActorSteps, WorkerSteps, Handles, Proceeds

LEMMA GhostsGrow ==
  ASSUME Typed, [Next]_vars
  PROVE  mishaps \subseteq mishaps' /\ (dropped => dropped')
  <1> DEFINE Goal == mishaps \subseteq mishaps' /\ (dropped => dropped')
  <1> SUFFICES Goal
    OBVIOUS
  <1>1. CASE UNCHANGED <<mishaps, dropped>>
    BY <1>1
  <1>2. \A k : Lapses(k) => mishaps \subseteq mishaps'
    BY DEF Lapses, Happens
  <1>3. ASSUME NEW a \in Actors, ActorSteps(a) PROVE Goal
    <2>1. mishaps \subseteq mishaps'
      <3>1. CASE a \in Workers /\ WorkerSteps(a)
        BY <1>2, <3>1
        DEF WorkerSteps, Handles, ghosts, Gate, Defer, ChecksPass, CancelInstead, Claim,
            ClaimLost, AutoApprove, AutoApproveLate, Approving, Return, Throw, Takes,
            TakeJob, TakeOver, Happens
      <3>2. CASE Proceeds(a)
        BY <3>2
        DEF Proceeds, ghosts, EnqueueStep, EnqueueNext, CheckEnded, CheckSuppressed,
            CheckPasses, ApproveSend, Advance, AdvanceLost, Withdraw, Compose, Link,
            MarkSuppressed, CancelAfter, RejectSend, Reread, Skip
      <3>3. CASE ComposeFails(a) \/ Crash(a) \/ (a \in Users /\ Asks(a))
        BY <3>3
        DEF ComposeFails, Crash, Happens, Asks, Enroll, Approve, Approving, Reject, ghosts
      <3> QED
        BY <1>3, <3>1, <3>2, <3>3 DEF ActorSteps
    <2>2. dropped => dropped'
      <3>1. UNCHANGED dropped \/ dropped' = (dropped \/ Live(<<actor[a].step, Bucket(ResumeAt)>>))
        <4>1. CASE a \in Workers /\ WorkerSteps(a)
          BY <4>1
          DEF WorkerSteps, Handles, ghosts, Gate, Defer, ChecksPass, CancelInstead, Claim,
              ClaimLost, AutoApprove, AutoApproveLate, Approving, Return, Throw, Takes,
              TakeJob, TakeOver
        <4>2. CASE Proceeds(a)
          BY <4>2
          DEF Proceeds, ghosts, EnqueueStep, EnqueueNext, CheckEnded, CheckSuppressed,
              CheckPasses, ApproveSend, Advance, AdvanceLost, Withdraw, Compose, Link,
              MarkSuppressed, CancelAfter, RejectSend, Reread, Skip
        <4>3. CASE ComposeFails(a) \/ Crash(a) \/ (a \in Users /\ Asks(a))
          BY <4>3 DEF ComposeFails, Crash, Asks, Enroll, Approve, Approving, Reject, ghosts
        <4> QED
          BY <1>3, <4>1, <4>2, <4>3 DEF ActorSteps
      <3> QED
        BY <3>1, Zenon
    <2> QED
      BY <2>1, <2>2
  <1>4. ASSUME NEW k \in Keys, Reclaim(k) PROVE Goal
    BY <1>2, <1>4 DEF Reclaim
  <1>5. CASE WithdrawJobs
    BY <1>5 DEF WithdrawJobs, Happens
  <1>6. CASE OutsideSteps \/ UNCHANGED vars
    BY <1>1, <1>6
    DEF OutsideSteps, Cancel, Suppress, Passes, Tick, vars, queueVars, ghosts
  <1> HIDE DEF Goal
  <1> QED
    BY <1>3, <1>4, <1>5, <1>6, NextSteps

\* Who enqueues, for which step, and what it leaves of the other rows.
LEMMA EnqueueEffect ==
  ASSUME Typed, NEW a \in Actors,
         EnqueueStep(a) \/ EnqueueNext(a) \/ (a \in Workers /\ Defer(a))
  PROVE  \E k \in Keys : \E t :
           /\ live' = Enqueued(k, t)
           /\ EnqueueStep(a) => k = <<actor[a].step, Plain>>
           /\ EnqueueNext(a) => k = <<actor[a].step + 1, Plain>>
           /\ Defer(a) => k[1] = actor[a].step /\ (~dropped' => ~Live(k))
  <1>0. QueueTypeOK /\ KnownRecord(a, actor[a]) /\ actor[a].step \in Nat
    BY OrderType DEF Typed, TypeOK, ActorsKnown, KnownRecord, ActorRecord
  <1>1. CASE EnqueueStep(a)
    <2>1. <<actor[a].step, Plain>> \in Keys /\ ~Defer(a) /\ ~EnqueueNext(a)
      BY <1>0, <1>1, PlainType, SequenceAssumption
      DEF EnqueueStep, EnqueueNext, Defer, KnownRecord
    <2> QED
      BY <1>1, <2>1 DEF EnqueueStep
  <1>2. CASE EnqueueNext(a)
    <2>1. actor[a].step + 1 \in Order
      BY <1>0, <1>2, SequenceAssumption DEF EnqueueNext, KnownRecord, Order
    <2>2. <<actor[a].step + 1, Plain>> \in Keys /\ ~Defer(a) /\ ~EnqueueStep(a)
      BY <1>2, <2>1, PlainType, SequenceAssumption DEF EnqueueStep, EnqueueNext, Defer
    <2> QED
      BY <1>2, <2>2 DEF EnqueueNext
  <1>3. CASE Defer(a)
    <2>1. ResumeAt \in 0 .. LastHalfHour + 1
      BY <1>0, QueueAssumption DEF QueueTypeOK, ResumeAt
    <2>2. Bucket(ResumeAt) \in Buckets
      BY <2>1, BucketType
    <2>3. <<actor[a].step, Bucket(ResumeAt)>> \in Keys /\ ~EnqueueNext(a) /\ ~EnqueueStep(a)
      BY <1>0, <1>3, <2>2, SequenceAssumption DEF EnqueueStep, EnqueueNext, Defer, KnownRecord
    <2>4. ~dropped' => ~Live(<<actor[a].step, Bucket(ResumeAt)>>)
      BY <1>3 DEF Defer
    <2> QED
      BY <1>3, <2>3, <2>4 DEF Defer
  <1> QED
    BY <1>1, <1>2, <1>3

LEMMA ActorStays ==
  ASSUME Consistent, NEW a \in Actors, ActorSteps(a) PROVE Stay(a)
  BY ComposingActor DEF Consistent

\* Only a held row has an owner.
LEMMA OwnedStep ==
  ASSUME Consistent, OwnedIsHeld, [Next]_vars
  PROVE  OwnedIsHeld'
  <1>0. Typed /\ QueueTypeOK
    BY DEF Consistent, Typed, TypeOK
  <1>1. CASE UNCHANGED live
    BY <1>1 DEF OwnedIsHeld
  <1>2. ASSUME NEW a \in Actors, ActorSteps(a) PROVE OwnedIsHeld'
    <2>1. CASE EnqueueStep(a) \/ EnqueueNext(a) \/ (a \in Workers /\ Defer(a))
      BY <1>0, <2>1, EnqueueEffect, EnqueuedSeen
    <2>2. CASE a \in Workers /\ (Return(a) \/ Throw(a))
      <3>1. /\ actor[a].key \in Keys
            /\ Completes(a, actor[a].key) \/ Fails(a, actor[a].key)
        BY <1>0, <2>2 DEF Return, Throw, Typed, ActorsKnown, KnownRecord
      <3>2. CASE live[actor[a].key].owner = a
        BY <1>0, <3>1, <3>2, CompletesSeen, AgainSeen DEF Fails
      <3>3. CASE live[actor[a].key].owner # a
        BY <1>1, <3>1, <3>3 DEF Completes, Fails
      <3> QED
        BY <3>2, <3>3
    <2>3. CASE a \in Workers /\ \E k \in Keys : Takes(a, k)
      BY <1>0, <2>3, TakeSeen, TakesOverSeen DEF Takes, TakeJob, TakeOver
    <2>4. CASE UNCHANGED queueVars
      BY <1>1, <2>4 DEF queueVars
    <2> QED
      BY <1>0, <1>2, <2>1, <2>2, <2>3, <2>4, QueueWrites
  <1>3. ASSUME NEW k \in Keys, Reclaim(k) PROVE OwnedIsHeld'
    BY <1>0, <1>3, ReclaimsSeen DEF Reclaim
  <1>4. CASE WithdrawJobs
    BY <1>0, <1>4, WithdrawsSeen DEF WithdrawJobs
  <1>5. CASE OutsideSteps \/ UNCHANGED vars
    BY <1>1, <1>5 DEF OutsideSteps, Cancel, Suppress, Passes, Tick, vars, queueVars
  <1> QED
    BY <1>2, <1>3, <1>4, <1>5, NextSteps

LEMMA KeysType == \A k \in Keys : k[1] \in Order /\ k[1] \in Nat
  BY SequenceAssumption DEF Order

\* The actor that moves.
LEMMA NoneAheadActor ==
  ASSUME Consistent, Consistent', NoneAhead, NEW a \in Actors, ActorSteps(a),
         enrollment.cur <= enrollment'.cur
  PROVE  /\ actor'[a].pc = "enqueue" => actor'[a].step <= enrollment'.cur + 1
         /\ actor'[a].pc = "enqueue_next" => actor'[a].step <= enrollment'.cur
         /\ a \in Workers /\ actor'[a].pc # "idle" => actor'[a].key[1] <= enrollment'.cur + 1
         /\ a \in Workers /\ actor'[a].pc \notin {"idle", "gate", "checks", "claim", "return"} =>
              send'[actor'[a].step].status # "none"
  <1>0. /\ Typed /\ AtFrontier(a) /\ KnownRecord(a, actor[a]) /\ KnownRecord(a, actor'[a])
        /\ enrollment.cur \in Nat /\ enrollment'.cur \in Nat
    <2>1. RecordsTyped /\ RecordsTyped'
      BY TypedRecords DEF Consistent, Typed, TypeOK, RecordsTyped, Enrollment, Record, Statuses
    <2>2. enrollment.cur \in Nat /\ enrollment'.cur \in Nat
      BY <2>1, OrderType DEF RecordsTyped, Enrollment
    <2> QED
      BY <2>2 DEF Consistent, Frontier, Typed, ActorsKnown
  <1>1. /\ actor'[a].pc = "enqueue" => actor'[a].step <= enrollment'.cur + 1
        /\ actor'[a].pc = "enqueue_next" => actor'[a].step <= enrollment'.cur
    <2> DEFINE Goal ==
          /\ actor'[a].pc = "enqueue" => actor'[a].step <= enrollment'.cur + 1
          /\ actor'[a].pc = "enqueue_next" => actor'[a].step <= enrollment'.cur
    <2> SUFFICES Goal
      OBVIOUS
    <2>1. CASE actor'[a].pc \notin {"enqueue", "enqueue_next"}
      BY <2>1
    <2>2. CASE a \in Users /\ Enroll(a)
      BY <1>0, <2>2, EnrollEffect
    <2>3. CASE Advance(a)
      <3>1. enrollment'.cur = actor[a].step
        BY <2>3, AdvanceToEffect DEF Advance
      <3>2. actor'[a].pc # "enqueue" /\ actor'[a].step = actor[a].step
        BY <1>0, <2>3, AdvanceEffect
      <3> QED
        BY <1>0, <3>1, <3>2
    <2>4. CASE Skip(a)
      <3>1. CASE Advances(a) /\ actor[a].step < Steps
        <4>1. enrollment'.cur = actor[a].step
          BY <2>4, <3>1, AdvanceToEffect DEF Skip
        <4>2. actor'[a].pc = "enqueue" /\ actor'[a].step = actor[a].step + 1
          BY <1>0, <2>4, <3>1, SkipEffect
        <4>3. actor'[a].step <= enrollment'.cur + 1
          BY <1>0, <4>1, <4>2
        <4> QED
          BY <4>2, <4>3
      <3>2. CASE ~(Advances(a) /\ actor[a].step < Steps)
        BY <1>0, <2>1, <2>4, <3>2, SkipEffect
      <3> QED
        BY <3>1, <3>2
    <2> HIDE DEF Goal
    <2>5. ASSUME NEW pc \in Pcs \ {"enqueue", "enqueue_next"}, Goes(a, pc) PROVE Goal
      BY <1>0, <2>1, <2>5, GoesEffect
    <2>6. CASE Ends(a)
      BY <1>0, <2>1, <2>6, EndsEffect
    <2>7. CASE actor' = [actor EXCEPT ![a] = Resting]
      BY <1>0, <2>1, <2>7, RestsEffect
    <2>8. ASSUME NEW s, Approving(a, s) PROVE Goal
      BY <1>0, <2>1, <2>8, ApprovingEffect
    <2>9. CASE CheckPasses(a)
      BY <1>0, <2>1, <2>9, CheckPassesEffect
    <2>10. CASE Reread(a)
      BY <1>0, <2>1, <2>10, RereadEffect
    <2>11. CASE a \in Workers /\ \E k \in Keys : Takes(a, k)
      BY <1>0, <2>1, <2>11, TakesEffect
    <2>12. CASE a \in Users /\ \E s \in Order : Reject(a, s)
      BY <1>0, <2>1, <2>12, RejectEffect
    <2>13. CASE a \in Workers /\ WorkerSteps(a)
      BY <2>5, <2>6, <2>7, <2>8, <2>11, <2>13
      DEF WorkerSteps, Handles, Gate, Defer, ChecksPass, CancelInstead, Claim, ClaimLost,
          AutoApprove, AutoApproveLate, Return, Throw, Pcs
    <2>14. CASE Proceeds(a)
      <3>1. CASE \/ EnqueueStep(a) \/ EnqueueNext(a) \/ CheckEnded(a) \/ CheckSuppressed(a)
                 \/ ApproveSend(a) \/ AdvanceLost(a) \/ Withdraw(a) \/ RejectSend(a)
        BY <2>5, <2>6, <3>1
        DEF EnqueueStep, EnqueueNext, CheckEnded, CheckSuppressed, ApproveSend, AdvanceLost,
            Withdraw, RejectSend, Pcs
      <3>2. CASE Compose(a) \/ Link(a) \/ MarkSuppressed(a) \/ CancelAfter(a)
        BY <2>5, <2>6, <3>2 DEF Compose, Link, MarkSuppressed, CancelAfter, Pcs
      <3> QED
        BY <2>3, <2>4, <2>9, <2>10, <2>14, <3>1, <3>2 DEF Proceeds
    <2>15. CASE ComposeFails(a) \/ Crash(a) \/ (a \in Users /\ Asks(a))
      BY <2>2, <2>6, <2>7, <2>8, <2>12, <2>15 DEF ComposeFails, Crash, Asks, Approve
    <2> QED
      BY <2>13, <2>14, <2>15 DEF ActorSteps
  <1>2. ASSUME a \in Workers, actor'[a].pc # "idle"
        PROVE  /\ actor'[a].key[1] <= enrollment'.cur + 1
               /\ actor'[a].pc \notin {"idle", "gate", "checks", "claim", "return"} =>
                     send'[actor'[a].step].status # "none"
    <2>1. ASSUME NEW k \in Keys, Takes(a, k)
          PROVE  actor'[a].key[1] <= enrollment'.cur + 1 /\ actor'[a].pc = "gate"
      <3>1. Live(k) /\ enrollment' = enrollment /\ k[1] \in Nat
        <4>1. Live(k)
          BY <1>0, <1>2, <2>1, TakesRow DEF Typed, TypeOK
        <4>2. UNCHANGED records
          BY <1>0, <1>2, <2>1, TakesEffect
        <4> QED
          BY <4>1, <4>2, KeysType DEF records
      <3> QED
        BY <1>0, <1>2, <2>1, <3>1, TakesEffect DEF NoneAhead
    <2>2. ~Throw(a) /\ ~Crash(a)
      BY <1>0, <1>2, RestsEffect DEF Throw, Crash
    <2>3. CASE ~\E k \in Keys : Takes(a, k)
      <3>1. /\ actor[a].pc \notin {"idle", "return"}
            /\ actor'[a].key = actor[a].key
            /\ actor'[a].pc # "return" => actor'[a].step = actor[a].step
            /\ actor'[a].pc \notin {"gate", "checks", "claim", "return"} =>
                 Claim(a) \/ actor[a].pc \notin {"gate", "checks", "claim"}
        BY <1>0, <1>2, <2>2, <2>3, WorkerMoves
      <3>2. actor[a].key[1] <= enrollment.cur + 1 /\ actor[a].key[1] \in Nat
        BY <1>0, <1>2, <3>1, KeysType DEF NoneAhead, KnownRecord
      <3>3. actor[a].step \in Order
        BY <1>0, <3>1 DEF KnownRecord
      <3>4. ASSUME actor'[a].pc \notin {"idle", "gate", "checks", "claim", "return"}
            PROVE  send'[actor'[a].step].status # "none"
        <4>1. CASE Claim(a)
          BY <1>0, <1>2, <3>1, <3>4, <4>1, ClaimEffect
        <4>2. CASE ~Claim(a)
          <5>1. send[actor[a].step].status # "none"
            BY <1>2, <3>1, <3>4, <4>2 DEF NoneAhead
          <5>2. send'[actor[a].step].status # "none"
            BY <1>0, <3>3, <5>1, RecordWrites
          <5> QED
            BY <3>1, <3>4, <5>2
        <4> QED
          BY <4>1, <4>2
      <3> QED
        BY <1>0, <3>1, <3>2, <3>4
    <2> QED
      BY <2>1, <2>3
  <1> QED
    BY <1>1, <1>2

LEMMA NoneAheadStep ==
  ASSUME Consistent, Consistent', NoneAhead, [Next]_vars
  PROVE  NoneAhead'
  <1>0. /\ Typed /\ QueueTypeOK /\ RecordsTyped
        /\ enrollment.cur \in Nat /\ enrollment'.cur \in Nat /\ enrollment.cur <= enrollment'.cur
    <2>1. RecordsTyped /\ RecordsTyped'
      BY TypedRecords DEF Consistent, Typed, TypeOK, RecordsTyped, Enrollment, Record, Statuses
    <2>2. enrollment.cur \in Nat /\ enrollment'.cur \in Nat
      BY <2>1, OrderType DEF RecordsTyped, Enrollment
    <2> QED
      BY <2>1, <2>2, PointerGrows DEF Consistent, Typed, TypeOK
  <1>1. ASSUME NEW k \in Keys, Live(k)' PROVE k[1] <= enrollment'.cur + 1
    <2>1. CASE Live(k)
      BY <1>0, <2>1, KeysType DEF NoneAhead
    <2>2. CASE ~Live(k)
      <3>1. ASSUME NEW a \in Actors, ActorSteps(a) PROVE k[1] <= enrollment.cur + 1
        <4>1. CASE EnqueueStep(a) \/ EnqueueNext(a) \/ (a \in Workers /\ Defer(a))
          <5>0. PICK j \in Keys : \E t :
                  /\ live' = Enqueued(j, t)
                  /\ EnqueueStep(a) => j = <<actor[a].step, Plain>>
                  /\ EnqueueNext(a) => j = <<actor[a].step + 1, Plain>>
                  /\ Defer(a) => j[1] = actor[a].step
            BY <1>0, <4>1, EnqueueEffect
          <5>1. PICK t :
                  /\ live' = Enqueued(j, t)
                  /\ EnqueueStep(a) => j = <<actor[a].step, Plain>>
                  /\ EnqueueNext(a) => j = <<actor[a].step + 1, Plain>>
                  /\ Defer(a) => j[1] = actor[a].step
            BY <5>0
          <5>2. k = j
            BY <1>0, <1>1, <2>2, <5>1, EnqueuedEffect DEF Live
          <5>3. KnownRecord(a, actor[a]) /\ actor[a].step \in Nat
            BY <1>0, OrderType DEF Typed, ActorsKnown, KnownRecord, ActorRecord
          <5>4. CASE EnqueueStep(a)
            BY <1>0, <5>1, <5>2, <5>4 DEF EnqueueStep, NoneAhead
          <5>5. CASE EnqueueNext(a)
            BY <1>0, <5>1, <5>2, <5>3, <5>5 DEF EnqueueNext, NoneAhead
          <5>6. CASE a \in Workers /\ Defer(a)
            BY <1>0, <5>1, <5>2, <5>3, <5>6 DEF Defer, NoneAhead, KnownRecord
          <5> QED
            BY <4>1, <5>4, <5>5, <5>6
        <4>2. CASE UNCHANGED queueVars
          BY <1>1, <2>2, <4>2 DEF queueVars, Live
        <4>3. CASE Return(a)
          <5>1. live'[k] = live[k] \/ live'[k] = NoJob
            BY <1>0, <4>3 DEF Return, Completes, QueueTypeOK
          <5> QED
            BY <1>1, <2>2, <5>1 DEF Live, NoJob
        <4>4. CASE a \in Workers /\ Throw(a)
          <5>1. actor[a].key \in Keys
            BY <1>0, <4>4 DEF Throw, Typed, ActorsKnown, KnownRecord
          <5>2. CASE live[actor[a].key].owner = a
            <6>1. Again(actor[a].key) /\ live[actor[a].key].owner # None
              BY <4>4, <5>2, QueueAssumption DEF Throw, Fails
            <6>2. k = actor[a].key
              BY <1>0, <1>1, <2>2, <5>1, <6>1, AgainEffect DEF Live
            <6> QED
              BY <1>0, <4>4, <5>1, <6>2 DEF NoneAhead, Throw
          <5>3. CASE live[actor[a].key].owner # a
            BY <1>1, <2>2, <4>4, <5>3 DEF Throw, Fails, Live
          <5> QED
            BY <5>2, <5>3
        <4>5. ASSUME a \in Workers, NEW j \in Keys, Takes(a, j) PROVE k[1] <= enrollment.cur + 1
          <5>1. Live(j)
            BY <1>0, <4>5, TakesRow
          <5>2. j = k
            BY <1>0, <1>1, <2>2, <4>5, TakesRow DEF Live
          <5> QED
            BY <2>2, <5>1, <5>2
        <4> QED
          BY <1>0, <3>1, <4>1, <4>2, <4>3, <4>4, <4>5, QueueWrites
      <3>2. ASSUME NEW j \in Keys, Reclaim(j) PROVE k[1] <= enrollment.cur + 1
        <4>1. Reclaims(j) /\ Live(j)
          BY <3>2 DEF Reclaim, Reclaims, Live
        <4>2. j = k
          BY <1>0, <1>1, <2>2, <4>1, ReclaimsEffect DEF Live
        <4> QED
          BY <2>2, <4>1, <4>2
      <3>3. ~OutsideSteps /\ ~UNCHANGED vars
        BY <1>1, <2>2
        DEF OutsideSteps, Cancel, Suppress, Passes, Tick, vars, queueVars, Live
      <3>5. ~WithdrawJobs
        BY <1>0, <1>1, <2>2, WithdrawsEffect DEF WithdrawJobs, Live, NoJob
      <3>4. k[1] <= enrollment.cur + 1
        BY <3>1, <3>2, <3>3, <3>5, NextSteps
      <3> QED
        BY <1>0, <3>4, KeysType
    <2> QED
      BY <2>1, <2>2
  <1>2. ASSUME NEW s \in Order, send[s].status # "none" PROVE send'[s].status # "none"
    <2>1. CASE UNCHANGED send \/ Cancelled
      BY <1>0, <1>2, <2>1, CancelledEffect
    <2>2. ASSUME NEW a \in Actors, ActorSteps(a) PROVE send'[s].status # "none"
      BY <1>0, <1>2, <2>2, RecordWrites
    <2> QED
      BY <2>1, <2>2, NextSteps
      DEF Reclaim, WithdrawJobs, OutsideSteps, Cancel, Suppress, Passes, vars, records
  <1> DEFINE Goal(a) ==
         /\ actor'[a].pc = "enqueue" => actor'[a].step <= enrollment'.cur + 1
         /\ actor'[a].pc = "enqueue_next" => actor'[a].step <= enrollment'.cur
         /\ a \in Workers /\ actor'[a].pc # "idle" => actor'[a].key[1] <= enrollment'.cur + 1
         /\ a \in Workers /\ actor'[a].pc \notin {"idle", "gate", "checks", "claim", "return"} =>
              send'[actor'[a].step].status # "none"
  <1>3. ASSUME NEW a \in Actors, actor'[a] = actor[a] PROVE Goal(a)
    <2>1. KnownRecord(a, actor[a]) /\ actor[a].step \in Nat
      BY <1>0, OrderType DEF Typed, ActorsKnown, KnownRecord, ActorRecord
    <2>2. a \in Workers /\ actor[a].pc # "idle" =>
            actor[a].key[1] \in Nat /\ actor[a].key[1] <= enrollment.cur + 1
      BY <2>1, KeysType DEF NoneAhead, KnownRecord
    <2>3. a \in Workers /\ actor[a].pc \notin {"idle", "gate", "checks", "claim", "return"} =>
            send'[actor[a].step].status # "none"
      BY <1>2, <2>1 DEF NoneAhead, KnownRecord
    <2>4. /\ actor[a].pc = "enqueue" => actor[a].step <= enrollment'.cur + 1
          /\ actor[a].pc = "enqueue_next" => actor[a].step <= enrollment'.cur
      BY <1>0, <2>1 DEF NoneAhead
    <2>5. a \in Workers /\ actor[a].pc # "idle" => actor[a].key[1] <= enrollment'.cur + 1
      BY <1>0, <2>2
    <2> QED
      BY <1>3, <2>3, <2>4, <2>5
  <1>4. ASSUME NEW a \in Actors, ActorSteps(a) PROVE Goal(a)
    BY <1>0, <1>4, NoneAheadActor
  <1> HIDE DEF Goal
  <1>5. \A a \in Actors : Goal(a)
    <2>1. ASSUME NEW b \in Actors, ActorSteps(b) PROVE \A a \in Actors : Goal(a)
      <3>1. Stay(b)
        BY <2>1, ActorStays
      <3> QED
        BY <1>3, <1>4, <2>1, <3>1 DEF Stay
    <2>2. CASE UNCHANGED actor
      BY <1>3, <2>2
    <2> QED
      BY <2>1, <2>2, NextSteps DEF Reclaim, WithdrawJobs, OutsideSteps, Cancel, Suppress, Passes, vars
  <1> QED
    BY <1>1, <1>5 DEF NoneAhead, Goal

\* How an active run comes to wait for its next step.
LEMMA PointerMoves ==
  ASSUME Typed, [Next]_vars, Active'
  PROVE  \/ enrollment' = enrollment /\ Active
         \/ \E u \in Users : Enroll(u)
         \/ \E a \in Actors :
              /\ Advances(a) /\ AdvanceTo(actor[a].step) /\ (Advance(a) \/ Skip(a))
              /\ actor[a].step < Steps
  <1>1. Cancelled => enrollment' = enrollment
    <2>1. RecordsTyped
      BY TypedRecords DEF Typed
    <2> QED
      BY <2>1, CancelledEffect DEF Cancelled, Active
  <1>2. enrollment' = enrollment => Active
    BY DEF Active
  <1>3. ASSUME NEW a \in Actors, AdvanceTo(actor[a].step), Advance(a) \/ Skip(a)
        PROVE  actor[a].step < Steps
    <2>1. actor[a].step # Steps
      BY <1>3, AdvanceToEffect DEF Active
    <2>2. KnownRecord(a, actor[a]) /\ actor[a].pc \in {"advance", "skip"}
      BY <1>3 DEF Advance, Skip, Typed, ActorsKnown
    <2>3. actor[a].step \in Order
      BY <2>2 DEF KnownRecord
    <2> QED
      BY <2>1, <2>3, SequenceAssumption DEF Order
  <1>4. ASSUME NEW a \in Actors, ActorSteps(a)
        PROVE  \/ enrollment' = enrollment
               \/ a \in Users /\ Enroll(a)
               \/ /\ Advances(a) /\ AdvanceTo(actor[a].step) /\ (Advance(a) \/ Skip(a))
                  /\ actor[a].step < Steps
    BY <1>1, <1>3, <1>4, EnrollmentWrites
  <1>5. UNCHANGED enrollment \/ Cancelled => enrollment' = enrollment
    BY <1>1
  <1> QED
    BY <1>2, <1>4, <1>5, NextSteps
    DEF Reclaim, WithdrawJobs, OutsideSteps, Cancel, Suppress, Passes, vars, records

LEMMA FirstWait ==
  ASSUME Consistent, NEW u \in Users, Enroll(u), NEW n \in Order, n = enrollment'.cur + 1
  PROVE  Covered(n)'
  <1>0. /\ n = 1 /\ enrollment.status = "absent" /\ UNCHANGED <<live, send>> /\ u \in Actors
    BY DEF Enroll, queueVars, Actors
  <1>1. /\ send'[n].status = "none"
        /\ \A k \in Keys : live'[k].st = "absent"
    BY <1>0 DEF Consistent, Unstarted, Live
  <1>2. actor'[u].pc = "enqueue" /\ actor'[u].step = n
    BY <1>0, EnrollEffect DEF Consistent
  <1>3. \A b \in Buckets : <<n, b>> \in Keys
    BY SequenceAssumption
  <1> QED
    BY <1>0, <1>1, <1>2, <1>3 DEF Covered, Enqueuing, Live

LEMMA NextWait ==
  ASSUME Consistent, NoneAhead, NEW a \in Actors, Advance(a) \/ Skip(a), Advances(a),
         AdvanceTo(actor[a].step), actor[a].step < Steps,
         NEW n \in Order, n = enrollment'.cur + 1
  PROVE  Covered(n)'
  <1>0. /\ Typed /\ UNCHANGED <<live, send>>
        /\ enrollment.cur \in Nat /\ actor[a].step = enrollment.cur + 1
    BY OrderType
    DEF Consistent, Typed, TypeOK, Advance, Skip, queueVars, Frontier, AtFrontier, Decider
  <1>1. n = actor[a].step + 1 /\ n = enrollment.cur + 2
    BY <1>0, AdvanceToEffect
  <1>2. send'[n].status = "none"
    BY <1>0, <1>1 DEF Consistent, LedgerMatchesPointer
  <1>3. ASSUME NEW b \in Buckets PROVE ~Live(<<n, b>>)'
    <2>1. <<n, b>> \in Keys /\ <<n, b>>[1] = n
      BY SequenceAssumption
    <2>2. ~Live(<<n, b>>)
      BY <1>0, <1>1, <2>1 DEF NoneAhead
    <2> QED
      BY <1>0, <2>2 DEF Live
  <1>4. CASE Advance(a)
    <2>1. actor'[a].pc = "enqueue_next" /\ actor'[a].step + 1 = n
      BY <1>0, <1>1, <1>4, AdvanceEffect
    <2> QED
      BY <1>2, <1>3, <2>1 DEF Covered, Enqueuing
  <1>5. CASE Skip(a)
    <2>1. actor'[a].pc = "enqueue" /\ actor'[a].step = n
      BY <1>0, <1>1, <1>5, SkipEffect
    <2> QED
      BY <1>2, <1>3, <2>1 DEF Covered, Enqueuing
  <1> QED
    BY <1>4, <1>5

\* What becomes of the record an active run waits for.
LEMMA AwaitedRecord ==
  ASSUME Consistent, NEW a \in Actors, ActorSteps(a), Active, enrollment' = enrollment,
         NEW n \in Order
  PROVE  \/ send'[n].status = send[n].status
         \/ a \in Workers /\ Claim(a) /\ Pending(n)'
         \/ ApproveSend(a) /\ send'[n].status = "approved" /\ actor'[a].pc = "advance"
         \/ RejectSend(a) /\ send'[n].status = "rejected" /\ actor'[a].pc = "reread"
         \/ MarkSuppressed(a) /\ send[n].status = "approved" /\ send'[n].status = "suppressed"
  <1> DEFINE Goal ==
         \/ send'[n].status = send[n].status
         \/ a \in Workers /\ Claim(a) /\ Pending(n)'
         \/ ApproveSend(a) /\ send'[n].status = "approved" /\ actor'[a].pc = "advance"
         \/ RejectSend(a) /\ send'[n].status = "rejected" /\ actor'[a].pc = "reread"
         \/ MarkSuppressed(a) /\ send[n].status = "approved" /\ send'[n].status = "suppressed"
  <1> SUFFICES Goal
    OBVIOUS
  <1>0. RecordsTyped /\ KnownRecord(a, actor[a]) /\ AtFrontier(a) /\ Typed
    BY TypedRecords DEF Typed, ActorsKnown, Consistent, Frontier
  <1>1. CASE UNCHANGED send
    BY <1>1
  <1>2. ~Cancelled
    BY <1>0, CancelledEffect DEF Active
  <1>3. CASE a \in Workers /\ Claim(a)
    BY <1>0, <1>3, ClaimEffect DEF Pending
  <1>4. CASE ApproveSend(a)
    <2>1. actor[a].step \in Order
      BY <1>0, <1>4 DEF ApproveSend, KnownRecord
    <2>2. CASE send[actor[a].step].status = "draft"
      <3>1. actor'[a].pc = "advance"
        BY <1>0, <1>4, <2>2, GoesEffect DEF ApproveSend, Pcs
      <3>2. send'[n].status = IF n = actor[a].step THEN "approved" ELSE send[n].status
        BY <1>0, <1>4, <2>1, <2>2, CasSendEffect DEF ApproveSend
      <3> QED
        BY <1>4, <3>1, <3>2
    <2>3. CASE send[actor[a].step].status # "draft"
      BY <1>4, <2>3 DEF ApproveSend, CasSend
    <2> QED
      BY <2>2, <2>3
  <1>5. CASE RejectSend(a)
    <2>1. actor[a].step \in Order
      BY <1>0, <1>5 DEF RejectSend, KnownRecord
    <2>2. CASE Pending(actor[a].step)
      <3>1. actor'[a].pc = "reread"
        BY <1>0, <1>5, <2>2, GoesEffect DEF RejectSend, Pcs
      <3>2. send'[n].status = IF n = actor[a].step THEN "rejected" ELSE send[n].status
        BY <1>0, <1>5, <2>1, <2>2, CasSendEffect DEF RejectSend, Pending
      <3> QED
        BY <1>5, <3>1, <3>2
    <2>3. CASE ~Pending(actor[a].step)
      BY <1>5, <2>3 DEF RejectSend, CasSend, Pending
    <2> QED
      BY <2>2, <2>3
  <1>6. ~CheckEnded(a) /\ ~Withdraw(a)
    BY <1>0 DEF CheckEnded, Withdraw, AtFrontier, Active
  <1>7. CASE MarkSuppressed(a)
    BY <1>0, <1>7, MarkSuppressedEffect
  <1>8. CASE Link(a)
    BY <1>0, <1>8, LinkEffect
  <1> HIDE DEF Goal
  <1>9. CASE a \in Workers /\ WorkerSteps(a)
    BY <1>1, <1>2, <1>3, <1>9
    DEF WorkerSteps, Handles, records, Gate, Defer, ChecksPass, CancelInstead, ClaimLost,
        AutoApprove, AutoApproveLate, Approving, Return, Throw, Takes, TakeJob, TakeOver
  <1>10. CASE Proceeds(a)
    BY <1>1, <1>2, <1>4, <1>5, <1>6, <1>7, <1>8, <1>10
    DEF Proceeds, records, EnqueueStep, EnqueueNext, CheckSuppressed, CheckPasses, Advance,
        AdvanceLost, Compose, CancelAfter, Reread, Skip
  <1>11. CASE ComposeFails(a) \/ Crash(a) \/ (a \in Users /\ Asks(a))
    BY <1>1, <1>11 DEF ComposeFails, Crash, Asks, Enroll, Approve, Approving, Reject, records
  <1> QED
    BY <1>9, <1>10, <1>11 DEF ActorSteps

\* A decider goes on deciding, or moves the pointer.
LEMMA DeciderStays ==
  ASSUME Consistent, NEW a \in Actors, ActorSteps(a), Active, enrollment' = enrollment, ~Cut',
         Decider(a)
  PROVE  Decider(a)'
  <1>0. /\ Typed /\ KnownRecord(a, actor[a]) /\ AtFrontier(a) /\ enrollment.cur \in Nat
        /\ a \in Workers => a \notin Users
    BY OrderType, ApartType DEF Consistent, Frontier, Typed, TypeOK, ActorsKnown
  <1>1. actor[a].pc # "withdraw" /\ ~AdvanceLost(a) /\ ~Advance(a)
    <2>1. actor[a].pc # "withdraw" /\ ~AdvanceLost(a)
      BY <1>0 DEF AtFrontier, Active, AdvanceLost, Advances
    <2>2. ASSUME Advance(a) PROVE FALSE
      <3>1. enrollment'.cur = actor[a].step /\ actor[a].step = enrollment.cur + 1
        BY <1>0, <2>2, AdvanceToEffect DEF Advance, AtFrontier
      <3> QED
        BY <1>0, <3>1
    <2> QED
      BY <2>1, <2>2
  <1>2. ~Skip(a)
    <2> SUFFICES ASSUME Skip(a) PROVE FALSE
      OBVIOUS
    <2>1. Advances(a) /\ actor[a].step = enrollment.cur + 1
      BY <1>0 DEF Skip, Advances, AtFrontier, Decider
    <2>2. enrollment'.cur = actor[a].step
      BY <2>1, AdvanceToEffect DEF Skip
    <2> QED
      BY <1>0, <2>1, <2>2
  <1>3. ~Throw(a) /\ ~Crash(a)
    BY DEF Throw, Crash, Happens, Cut
  <1>4. CASE Reread(a)
    BY <1>0, <1>4, RereadEffect DEF Decider
  <1> QED
    BY <1>1, <1>2, <1>3, <1>4
    DEF Decider, ActorSteps, WorkerSteps, Handles, Proceeds, Asks, Gate, Defer,
        ChecksPass, CancelInstead, Claim, ClaimLost, AutoApprove, AutoApproveLate, Return,
        Takes, TakeJob, TakeOver, Begins, EnqueueStep, EnqueueNext, CheckEnded,
        CheckSuppressed, CheckPasses, ApproveSend, Withdraw, Compose, Link,
        MarkSuppressed, CancelAfter, RejectSend, ComposeFails, Enroll, Approve, Reject

LEMMA CoveredByJob ==
  ASSUME NEW n \in Order, send'[n].status = "none",
         NEW k \in Keys, k[1] = n, live'[k].st = "pending"
  PROVE  Covered(n)'
  <1>1. PICK b \in Buckets : k = <<n, b>>
    BY SequenceAssumption
  <1> QED
    BY <1>1 DEF Covered

LEMMA CoveredByHandler ==
  ASSUME NEW n \in Order, send'[n].status = "none", NEW w \in Workers, Looks(w, n)'
  PROVE  Covered(n)'
  BY DEF Covered

\* A handler that has yet to claim the step finds the run waiting for it, and
\* leaves a record or a deferral.
LEMMA LookStays ==
  ASSUME Consistent, NEW w \in Workers, ActorSteps(w), ~Cut', ~dropped',
         Active, enrollment' = enrollment, NEW n \in Order, n = enrollment.cur + 1,
         send[n].status = "none", send'[n].status = "none", Looks(w, n)
  PROVE  Covered(n)'
  <1>0. /\ Typed /\ QueueTypeOK /\ RecordsTyped /\ KnownRecord(w, actor[w])
        /\ w \in Actors /\ w \notin Users
    BY ApartType, TypedRecords DEF Consistent, Typed, TypeOK, ActorsKnown
  <1>1. ASSUME NEW pc \in {"checks", "claim"}, Goes(w, pc) PROVE Covered(n)'
    <2>1. Looks(w, n)'
      BY <1>0, <1>1, GoesEffect DEF Looks, Pcs
    <2> QED
      BY <2>1, CoveredByHandler
  <1>2. CASE Gate(w)
    <2>1. Goes(w, "checks")
      BY <1>2 DEF Gate, Actionable, Looks
    <2> QED
      BY <1>1, <2>1
  <1>3. CASE ChecksPass(w)
    BY <1>1, <1>3 DEF ChecksPass
  <1>4. ~CancelInstead(w)
    BY <1>0, CancelledEffect DEF CancelInstead, Active
  <1>5. ~Claim(w)
    BY <1>0, ClaimEffect DEF Looks
  <1>6. ~ClaimLost(w)
    BY DEF ClaimLost, Looks
  <1>7. ~Throw(w) /\ ~Crash(w)
    BY DEF Throw, Crash, Happens, Cut
  <1>8. CASE Defer(w)
    <2>1. PICK j \in Keys : \E t :
            live' = Enqueued(j, t) /\ j[1] = actor[w].step /\ ~Live(j)
      BY <1>0, <1>8, EnqueueEffect
    <2>2. live'[j].st = "pending" /\ j[1] = n
      BY <1>0, <2>1, EnqueuedFresh DEF Looks
    <2> QED
      BY <2>2, CoveredByJob
  <1> QED
    BY <1>0, <1>2, <1>3, <1>4, <1>5, <1>6, <1>7, <1>8
    DEF Looks, ActorSteps, WorkerSteps, Handles, Proceeds, AutoApprove, AutoApproveLate,
        Return, Takes, TakeJob, TakeOver, Begins, EnqueueStep, EnqueueNext, CheckEnded,
        CheckSuppressed, CheckPasses, ApproveSend, Advance, AdvanceLost, Withdraw, Compose,
        Link, MarkSuppressed, CancelAfter, RejectSend, Reread, Skip, ComposeFails

\* A row that waits goes on waiting until a handler takes it.
LEMMA PendingStays ==
  ASSUME Consistent, OwnedIsHeld, NEW a \in Actors, ActorSteps(a), ~Cut',
         NEW n \in Order, send'[n].status = "none",
         NEW k \in Keys, k[1] = n, live[k].st = "pending"
  PROVE  Covered(n)'
  <1>0. Typed /\ QueueTypeOK /\ Live(k)
    BY DEF Consistent, Typed, TypeOK, Live
  <1>1. CASE live'[k] = live[k]
    BY <1>1, CoveredByJob
  <1>2. CASE EnqueueStep(a) \/ EnqueueNext(a) \/ (a \in Workers /\ Defer(a))
    BY <1>0, <1>1, <1>2, EnqueueEffect, EnqueuedKeeps
  <1>3. CASE a \in Workers /\ Return(a)
    <2>1. Completes(a, actor[a].key) /\ actor[a].key \in Keys
      BY <1>0, <1>3 DEF Return, Typed, ActorsKnown, KnownRecord
    <2>2. live[k].owner # a
      BY <1>3, QueueAssumption DEF OwnedIsHeld
    <2>3. live'[k] = live[k]
      BY <1>0, <2>1, <2>2, CompletesEffect
    <2> QED
      BY <1>1, <2>3
  <1>4. ~Throw(a)
    BY DEF Throw, Happens, Cut
  <1>5. ASSUME a \in Workers, NEW j \in Keys, Takes(a, j) PROVE Covered(n)'
    <2>1. CASE j = k
      <3>1. Looks(a, n)'
        BY <1>0, <1>5, <2>1, TakesEffect DEF Looks
      <3> QED
        BY <1>5, <3>1, CoveredByHandler
    <2>2. CASE j # k
      BY <1>0, <1>1, <1>5, <2>2, TakesRow
    <2> QED
      BY <2>1, <2>2
  <1>6. CASE UNCHANGED queueVars
    BY <1>1, <1>6 DEF queueVars
  <1> QED
    BY <1>0, <1>2, <1>3, <1>4, <1>5, <1>6, QueueWrites

\* Nobody is on the way but somebody about to enqueue.
LEMMA EnqueuingStays ==
  ASSUME Consistent, NoneAhead, NEW a \in Actors, ActorSteps(a), ~Cut',
         NEW n \in Order, send'[n].status = "none",
         \A b \in Buckets : ~Live(<<n, b>>), NEW e \in Actors, Enqueuing(e, n)
  PROVE  Covered(n)'
  <1>0. Typed /\ QueueTypeOK /\ Stay(a) /\ KnownRecord(a, actor[a])
    BY ActorStays DEF Consistent, Typed, TypeOK, ActorsKnown
  <1>1. ASSUME NEW k \in Keys, k[1] = n, live'[k].st = "pending" PROVE Covered(n)'
    BY <1>1, CoveredByJob
  <1>2. \A k \in Keys : k[1] = n => ~Live(k)
    BY SequenceAssumption
  <1>3. ASSUME EnqueueStep(a) \/ EnqueueNext(a) \/ (a \in Workers /\ Defer(a)),
               NEW k \in Keys, k[1] = n, live'[k] # live[k]
        PROVE  Covered(n)'
    <2>1. live'[k].st = "pending"
      BY <1>0, <1>3, EnqueueEffect, EnqueuedEffect
    <2> QED
      BY <1>1, <1>3, <2>1
  <1>4. CASE /\ e # a
             /\ \A k \in Keys : k[1] = n => ~Live(k)'
    <2>1. Enqueuing(e, n)'
      BY <1>0, <1>4 DEF Enqueuing, Stay
    <2>2. \A b \in Buckets : <<n, b>> \in Keys /\ <<n, b>>[1] = n
      BY SequenceAssumption
    <2>3. \A b \in Buckets : ~Live(<<n, b>>)'
      BY <1>4, <2>2
    <2> QED
      BY <2>1, <2>3 DEF Covered
  <1>5. ASSUME \A k \in Keys : k[1] = n => live'[k] = live[k]
        PROVE  \A k \in Keys : k[1] = n => ~Live(k)'
    BY <1>2, <1>5 DEF Live
  <1>6. CASE e # a
    <2>1. CASE EnqueueStep(a) \/ EnqueueNext(a) \/ (a \in Workers /\ Defer(a))
      BY <1>3, <1>4, <1>5, <1>6, <2>1
    <2>2. CASE a \in Workers /\ Return(a)
      <3>1. \A k \in Keys : live'[k] = live[k] \/ live'[k] = NoJob
        BY <1>0, <2>2 DEF Return, Completes, QueueTypeOK
      <3>2. \A k \in Keys : k[1] = n => ~Live(k)'
        BY <1>2, <3>1 DEF Live, NoJob
      <3> QED
        BY <1>4, <1>6, <3>2
    <2>3. ASSUME a \in Workers, NEW j \in Keys, Takes(a, j) PROVE Covered(n)'
      <3>1. Live(j)
        BY <1>0, <2>3, TakesRow
      <3>2. \A k \in Keys : k[1] = n => k # j
        BY <1>2, <3>1
      <3>3. \A k \in Keys : k[1] = n => live'[k] = live[k]
        BY <1>0, <2>3, <3>2, TakesRow
      <3> QED
        BY <1>4, <1>5, <1>6, <3>3
    <2>4. ~Throw(a)
      BY DEF Throw, Happens, Cut
    <2>5. CASE UNCHANGED queueVars
      BY <1>4, <1>5, <1>6, <2>5 DEF queueVars
    <2> QED
      BY <1>0, <2>1, <2>2, <2>3, <2>4, <2>5, QueueWrites
  <1>7. CASE e = a
    <2>1. EnqueueStep(a) \/ EnqueueNext(a)
      <3>1. actor[a].pc \in {"enqueue", "enqueue_next"}
        BY <1>7 DEF Enqueuing
      <3>2. ~Throw(a) /\ ~Crash(a)
        BY DEF Throw, Crash, Happens, Cut
      <3> QED
        BY <3>1, <3>2
        DEF ActorSteps, WorkerSteps, Handles, Proceeds, Asks, Gate, Defer, ChecksPass,
            CancelInstead, Claim, ClaimLost, AutoApprove, AutoApproveLate, Return, Takes,
            TakeJob, TakeOver, Begins, CheckEnded, CheckSuppressed, CheckPasses,
            ApproveSend, Advance, AdvanceLost, Withdraw, Compose, Link, MarkSuppressed,
            CancelAfter, RejectSend, Reread, Skip, ComposeFails, Enroll, Approve, Reject
    <2>0. PICK k \in Keys : \E t :
            /\ live' = Enqueued(k, t)
            /\ EnqueueStep(a) => k = <<actor[a].step, Plain>>
            /\ EnqueueNext(a) => k = <<actor[a].step + 1, Plain>>
      BY <1>0, <2>1, EnqueueEffect
    <2>2. PICK t :
            /\ live' = Enqueued(k, t)
            /\ EnqueueStep(a) => k = <<actor[a].step, Plain>>
            /\ EnqueueNext(a) => k = <<actor[a].step + 1, Plain>>
      BY <2>0
    <2>3. k[1] = n
      BY <1>7, <2>1, <2>2 DEF Enqueuing, EnqueueStep, EnqueueNext
    <2>4. live'[k].st = "pending"
      BY <1>0, <1>2, <2>2, <2>3, EnqueuedFresh
    <2> QED
      BY <1>1, <2>3, <2>4
  <1> QED
    BY <1>6, <1>7

LEMMA SameWait ==
  ASSUME Consistent, OwnedIsHeld, NoneAhead, NEW a \in Actors, ActorSteps(a),
         ~Cut', ~dropped', Active, enrollment' = enrollment,
         NEW n \in Order, n = enrollment.cur + 1, Covered(n)
  PROVE  Covered(n)'
  <1>0. Stay(a)
    BY ActorStays
  <1>1. CASE a \in Workers /\ Claim(a) /\ Pending(n)'
    BY <1>1 DEF Covered
  <1>2. CASE ApproveSend(a) /\ send'[n].status = "approved" /\ actor'[a].pc = "advance"
    BY <1>2 DEF Covered, Decider
  <1>3. CASE RejectSend(a) /\ send'[n].status = "rejected" /\ actor'[a].pc = "reread"
    BY <1>3 DEF Covered, Decider
  <1>4. ASSUME NEW d \in Actors, Decider(d) PROVE Decider(d)'
    <2>1. CASE d = a
      BY <1>4, <2>1, DeciderStays
    <2>2. CASE d # a
      BY <1>0, <1>4, <2>2 DEF Stay, Decider
    <2> QED
      BY <2>1, <2>2
  <1>5. CASE MarkSuppressed(a) /\ send[n].status = "approved" /\ send'[n].status = "suppressed"
    BY <1>4, <1>5 DEF Covered, Pending
  <1>6. CASE send'[n].status = send[n].status
    <2>1. CASE Pending(n)
      BY <1>6, <2>1 DEF Covered, Pending
    <2>2. CASE send[n].status \in {"approved", "rejected", "suppressed"} /\ \E d \in Actors : Decider(d)
      BY <1>4, <1>6, <2>2 DEF Covered
    <2>3. ASSUME send[n].status = "none", NEW b \in Buckets, live[<<n, b>>].st = "pending"
          PROVE  Covered(n)'
      <3>1. PICK k \in Keys : k[1] = n /\ live[k].st = "pending"
        BY <2>3, SequenceAssumption
      <3> QED
        BY <1>6, <2>3, <3>1, PendingStays
    <2>4. ASSUME send[n].status = "none", NEW w \in Workers, Looks(w, n)
          PROVE  Covered(n)'
      <3>1. CASE w = a
        BY <1>6, <2>4, <3>1, LookStays
      <3>2. CASE w # a
        <4>1. Looks(w, n)'
          BY <1>0, <2>4, <3>2, ApartType DEF Stay, Looks
        <4> QED
          BY <1>6, <2>4, <4>1, CoveredByHandler
      <3> QED
        BY <3>1, <3>2
    <2>5. ASSUME send[n].status = "none", \A b \in Buckets : ~Live(<<n, b>>),
                 NEW e \in Actors, Enqueuing(e, n)
          PROVE  Covered(n)'
      BY <1>6, <2>5, EnqueuingStays
    <2> QED
      BY <2>1, <2>2, <2>3, <2>4, <2>5 DEF Covered
  <1> QED
    BY <1>1, <1>2, <1>3, <1>5, <1>6, AwaitedRecord

LEMMA WaitsStep ==
  ASSUME Consistent, OwnedIsHeld, NoneAhead, Waits, [Next]_vars
  PROVE  Waits'
  <1>0. /\ Typed /\ QueueTypeOK /\ enrollment.cur \in Nat
        /\ (Cut => Cut') /\ (dropped => dropped')
    BY OrderType, GhostsGrow DEF Consistent, Typed, TypeOK, Cut
  <1>1. ASSUME Active' PROVE enrollment'.cur < Steps
    <2>1. CASE enrollment' = enrollment /\ Active
      BY <2>1 DEF Waits
    <2>2. ASSUME NEW u \in Users, Enroll(u) PROVE enrollment'.cur < Steps
      BY <2>2, SequenceAssumption DEF Enroll
    <2>3. ASSUME NEW a \in Actors, AdvanceTo(actor[a].step), actor[a].step < Steps
          PROVE  enrollment'.cur < Steps
      BY <2>3, AdvanceToEffect
    <2> QED
      BY <1>0, <1>1, <2>1, <2>2, <2>3, PointerMoves
  <1>2. ASSUME Active', ~Cut', ~dropped', NEW n \in Order, n = enrollment'.cur + 1
        PROVE  Covered(n)'
    <2>1. CASE enrollment' = enrollment /\ Active
      <3>0. Covered(n)
        BY <1>0, <1>2, <2>1 DEF Waits
      <3>1. ASSUME NEW a \in Actors, ActorSteps(a) PROVE Covered(n)'
        BY <1>2, <2>1, <3>0, <3>1, SameWait
      <3>2. ASSUME NEW j \in Keys, Reclaim(j) PROVE Covered(n)'
        <4>1. /\ Reclaims(j) /\ live[j].st = "held"
              /\ UNCHANGED <<actor, send>>
          BY <3>2 DEF Reclaim, Reclaims, records
        <4>2. \A k \in Keys : live[k].st # "held" => live'[k] = live[k]
          BY <1>0, <4>1, ReclaimsEffect
        <4>3. ASSUME NEW b \in Buckets PROVE live[<<n, b>>].st # "held" => live'[<<n, b>>] = live[<<n, b>>]
          BY <4>2, SequenceAssumption
        <4> QED
          BY <3>0, <4>1, <4>3 DEF Covered, Looks, Live, Enqueuing, Pending, Decider
      <3>4. ~WithdrawJobs
        BY <1>2 DEF WithdrawJobs, Happens, Cut
      <3>3. CASE OutsideSteps \/ UNCHANGED vars
        <4>1. UNCHANGED <<live, actor, send>>
          <5>1. ~Cancel
            <6>1. RecordsTyped
              BY <1>0, TypedRecords DEF Typed
            <6> QED
              BY <2>1, <6>1, CancelledEffect DEF Cancel, Active
          <5> QED
            BY <3>3, <5>1 DEF OutsideSteps, Suppress, Passes, Tick, vars, queueVars, records
        <4> QED
          BY <3>0, <4>1 DEF Covered, Looks, Live, Enqueuing, Pending, Decider
      <3> QED
        BY <3>1, <3>2, <3>3, <3>4, NextSteps
    <2>2. ASSUME NEW u \in Users, Enroll(u) PROVE Covered(n)'
      BY <1>2, <2>2, FirstWait
    <2>3. ASSUME NEW a \in Actors, Advances(a), AdvanceTo(actor[a].step),
                 Advance(a) \/ Skip(a), actor[a].step < Steps
          PROVE  Covered(n)'
      BY <1>2, <2>3, NextWait
    <2> QED
      BY <1>0, <1>2, <2>1, <2>2, <2>3, PointerMoves
  <1> QED
    BY <1>1, <1>2 DEF Waits

-----------------------------------------------------------------------------
(* None is stranded.                                                       *)

LEMMA WaitingInit == Init => OwnedIsHeld /\ NoneAhead /\ Waits
  <1> SUFFICES ASSUME Init PROVE OwnedIsHeld /\ NoneAhead /\ Waits
    OBVIOUS
  <1>1. \A k \in Keys : live[k].st = "absent" /\ live[k].owner = None
    BY DEF Init, QueueInit, NoJob
  <1>2. \A a \in Actors : actor[a].pc = "idle"
    BY DEF Init, Resting, Actors
  <1>3. ~Active
    BY DEF Init, Active
  <1> QED
    BY <1>1, <1>2, <1>3 DEF OwnedIsHeld, NoneAhead, Waits, Live, Actors

LEMMA AlwaysConsistent == Spec => []Consistent
  BY AlwaysTyped, AlwaysFrontier, AlwaysComposing, PTL DEF Consistent

LEMMA AlwaysWaits == Spec => [](Consistent /\ OwnedIsHeld /\ NoneAhead /\ Waits)
  BY WaitingInit, OwnedStep, NoneAheadStep, WaitsStep, AlwaysConsistent, PTL DEF Spec

\* Whoever covers the next step is somebody the run waits for.
LEMMA CoveredIsAwaited ==
  ASSUME Consistent, Active, NEW n \in Order, n = enrollment.cur + 1, Covered(n)
  PROVE  Awaits(n)
  <1>1. ASSUME NEW b \in Buckets, live[<<n, b>>].st = "pending" PROVE Live(<<n, b>>)
    BY <1>1 DEF Live
  <1>2. ASSUME NEW a \in Actors, Decider(a)
        PROVE  actor[a].pc \in {"advance", "reread", "skip"}
    <2>1. actor[a].pc # "withdraw"
      BY DEF Consistent, Frontier, AtFrontier, Active
    <2> QED
      BY <1>2, <2>1 DEF Decider
  <1> QED
    BY <1>1, <1>2 DEF Covered, Looks, Awaits, Enqueuing, Actors

LEMMA StrandedBy ==
  ASSUME Consistent, Waits
  PROVE  StrandedOnlyBy
  <1> SUFFICES ASSUME Stranded, ~Cut, ~dropped PROVE FALSE
    BY DEF StrandedOnlyBy, Cut
  <1>1. Active /\ enrollment.cur \in Nat /\ enrollment.cur < Steps
    BY OrderType DEF Stranded, Waits, Consistent, Typed, TypeOK
  <1>2. enrollment.cur + 1 \in Order
    BY <1>1, SequenceAssumption DEF Order
  <1>3. Covered(enrollment.cur + 1)
    BY <1>1, <1>2 DEF Waits
  <1> QED
    BY <1>1, <1>2, <1>3, CoveredIsAwaited DEF Stranded

\* An active run waits for nobody only if an actor was cut off between two of its
\* writes, pending jobs were cancelled, or a deferral found its own job's key.  A
\* lease that ends, or a row taken back or written off under a handler, however
\* often, strands no run: the handler goes on with it.
THEOREM NoneStranded == Spec => []StrandedOnlyBy
  BY AlwaysWaits, StrandedBy, PTL

-----------------------------------------------------------------------------
(* The queue keeps its contract.  A worker's step is seen when it takes a   *)
(* row and when it is over, a user's only when it enqueues.                 *)

\* A step that leaves each worker idle or at its key.
LEMMA TasksStay ==
  ASSUME \A w \in Workers :
           (actor'[w].pc = "idle" <=> actor[w].pc = "idle") /\ actor'[w].key = actor[w].key
  PROVE  HandlerTask' = HandlerTask
  BY DEF HandlerTask

\* And the rows too.
LEMMA Unseen ==
  ASSUME live' = live, HandlerTask' = HandlerTask
  PROVE  UNCHANGED Contract!vars
  <1>1. KeyPhase' = KeyPhase /\ KeyHolder' = KeyHolder
    BY DEF KeyPhase, KeyHolder, PhaseOf
  <1> QED
    BY <1>1 DEF Contract!vars, Contract!jobs

LEMMA EnqueueSeen ==
  ASSUME Typed, OwnedIsHeld, NEW k, NEW t, live' = Enqueued(k, t),
         HandlerTask' = HandlerTask
  PROVE  [Contract!Next]_(Contract!vars)
  <1>1. /\ KeyHolder' = KeyHolder
        /\ \/ KeyPhase' = KeyPhase
           \/ \E j \in Keys : /\ KeyPhase[j] = "ended"
                             /\ KeyPhase' = [KeyPhase EXCEPT ![j] = "waiting"]
    BY EnqueuedSeen DEF Typed, TypeOK
  <1>2. CASE KeyPhase' = KeyPhase
    BY <1>1, <1>2 DEF Contract!vars, Contract!jobs
  <1>3. ASSUME NEW j \in Keys, KeyPhase[j] = "ended",
               KeyPhase' = [KeyPhase EXCEPT ![j] = "waiting"]
        PROVE  Contract!Replay(j)
    BY <1>1, <1>3 DEF Contract!Replay
  <1> QED
    BY <1>1, <1>2, <1>3 DEF Contract!Next

LEMMA TakesDeliver ==
  ASSUME Typed, OwnedIsHeld, NEW w \in Workers, NEW k \in Keys, Takes(w, k)
  PROVE  Contract!Deliver(w, k)
  <1>1. /\ actor[w].pc = "idle"
        /\ actor'[w].pc = "gate" /\ actor'[w].key = k /\ Stay(w)
    BY TakesEffect
  <1>2. /\ KeyPhase[k] \in {"waiting", "held"}
        /\ KeyPhase' = [KeyPhase EXCEPT ![k] = "held"]
        /\ KeyHolder' = [KeyHolder EXCEPT ![k] = w]
    BY TakeSeen, TakesOverSeen DEF Takes, TakeJob, TakeOver, Typed, TypeOK
  <1>3. HandlerTask[w].pc = "idle"
    BY <1>1 DEF HandlerTask
  <1>4. HandlerTask' = [HandlerTask EXCEPT ![w] = [pc |-> "running", job |-> k]]
    BY <1>1, ApartType DEF HandlerTask, Stay
  <1> QED
    BY <1>2, <1>3, <1>4 DEF Contract!Deliver

\* A handler that is over, be its row decided by it or not.
LEMMA RestsFree ==
  ASSUME Typed, NEW w \in Workers, actor' = [actor EXCEPT ![w] = Resting]
  PROVE  HandlerTask' = [HandlerTask EXCEPT ![w] = Contract!Free]
  <1>1. actor'[w].pc = "idle" /\ Stay(w)
    BY RestsEffect, ApartType
  <1> QED
    BY <1>1, ApartType DEF HandlerTask, Stay, Contract!Free

LEMMA HandlerQuits ==
  ASSUME Typed, NEW w \in Workers, actor' = [actor EXCEPT ![w] = Resting], live' = live
  PROVE  Contract!Quit
  <1>1. HandlerTask' = [v \in Workers |-> IF v \in {w} THEN Contract!Free ELSE HandlerTask[v]]
    BY RestsFree DEF HandlerTask
  <1>2. KeyPhase' = KeyPhase /\ KeyHolder' = KeyHolder
    BY DEF KeyPhase, KeyHolder, PhaseOf
  <1>3. {w} \in SUBSET Workers
    OBVIOUS
  <1> QED
    BY <1>1, <1>2, <1>3 DEF Contract!Quit, Contract!jobs

LEMMA HandlerFinishes ==
  ASSUME Typed, OwnedIsHeld, NEW w \in Workers, actor[w].pc # "idle",
         actor' = [actor EXCEPT ![w] = Resting],
         Completes(w, actor[w].key) \/ Fails(w, actor[w].key)
  PROVE  Contract!Finish(w) \/ Contract!Quit
  <1> DEFINE k == actor[w].key
  <1>0. QueueTypeOK /\ k \in Keys
    BY ApartType DEF Typed, TypeOK, ActorsKnown, KnownRecord
  <1>1. CASE live[k].owner # w
    <2>1. live' = live
      BY <1>1 DEF Completes, Fails
    <2> QED
      BY <2>1, HandlerQuits
  <1>2. CASE live[k].owner = w
    <2>1. HandlerTask[w].pc = "running" /\ HandlerTask[w].job = k
      BY DEF HandlerTask
    <2>2. HandlerTask' = [HandlerTask EXCEPT ![w] = Contract!Free]
      BY RestsFree
    <2>3. KeyHolder[k] = w
      BY <1>0, <1>2, PhaseCases
    <2>4. /\ \E ph \in {"waiting", "ended"} : KeyPhase' = [KeyPhase EXCEPT ![k] = ph]
          /\ KeyHolder' = [KeyHolder EXCEPT ![k] = None]
      BY <1>0, <1>2, AgainSeen, CompletesSeen DEF Fails
    <2>5. Contract!Finish(w)
      BY <2>1, <2>2, <2>3, <2>4, Zenon DEF Contract!Finish
    <2> QED
      BY <2>5
  <1> QED
    BY <1>1, <1>2

LEMMA ReclaimTakesBack ==
  ASSUME Typed, OwnedIsHeld, NEW k \in Keys, Reclaim(k)
  PROVE  Contract!TakeBack
  <1>0. QueueTypeOK /\ Reclaims(k)
    BY DEF Reclaim, Typed, TypeOK
  <1>1. HandlerTask' = HandlerTask
    BY DEF Reclaim, HandlerTask
  <1>2. KeyPhase[k] = "held" /\ KeyHolder' = [KeyHolder EXCEPT ![k] = None]
    BY <1>0, ReclaimsSeen
  <1>3. PICK ph \in {"waiting", "ended"} : KeyPhase' = [KeyPhase EXCEPT ![k] = ph]
    BY <1>0, ReclaimsSeen
  <1>4. KeyPhase \in [Keys -> Contract!Phases]
    <2>1. KeyPhase = [j \in Keys |-> KeyPhase[j]]
      BY DEF KeyPhase
    <2> QED
      BY <1>0, <2>1, PhaseCases DEF Contract!Phases
  <1>5. KeyHolder \in [Keys -> Workers \cup {None}]
    BY <1>0 DEF KeyHolder, QueueTypeOK, Job
  <1> QED
    BY <1>1, <1>2, <1>3, <1>4, <1>5 DEF Contract!TakeBack, Contract!Phases

LEMMA WithdrawalWithdraws ==
  ASSUME Typed, OwnedIsHeld, WithdrawJobs
  PROVE  Contract!Withdraw
  <1>1. HandlerTask' = HandlerTask
    BY DEF WithdrawJobs, HandlerTask
  <1> QED
    BY <1>1, WithdrawsSeen DEF WithdrawJobs, Typed, TypeOK, Contract!Withdraw

LEMMA KeptInit == ASSUME Init PROVE Contract!InitEmptied
  <1>1. live = [k \in Keys |-> NoJob] /\ \A w \in Workers : actor[w] = Resting
    BY DEF Init, QueueInit
  <1>2. KeyPhase = [k \in Keys |-> "ended"] /\ KeyHolder = [k \in Keys |-> None]
    BY <1>1 DEF KeyPhase, KeyHolder, PhaseOf, NoJob
  <1>3. HandlerTask = [w \in Workers |-> Contract!Free]
    BY <1>1 DEF HandlerTask, Resting, Contract!Free
  <1> QED
    BY <1>2, <1>3 DEF Contract!InitEmptied

\* An actor that neither takes a job nor is over with one leaves the tasks.
LEMMA TasksKept ==
  ASSUME Consistent, NEW a \in Actors, ActorSteps(a),
         a \in Workers =>
           ~Return(a) /\ ~Throw(a) /\ ~Crash(a) /\ ~(\E k \in Keys : Takes(a, k))
  PROVE  HandlerTask' = HandlerTask
  <1>1. Stay(a) /\ Typed
    BY ActorStays DEF Consistent
  <1>2. CASE a \in Workers
    <2>1. actor[a].pc # "idle" /\ actor'[a].pc # "idle" /\ actor'[a].key = actor[a].key
      BY <1>1, <1>2, WorkerMoves
    <2> QED
      BY <1>1, <2>1, ApartType, TasksStay DEF Stay
  <1>3. CASE a \notin Workers
    BY <1>1, <1>3, ApartType, TasksStay DEF Stay
  <1> QED
    BY <1>2, <1>3

LEMMA KeptStep ==
  ASSUME Consistent, OwnedIsHeld, [Next]_vars
  PROVE  [Contract!Next]_(Contract!vars)
  <1>0. Typed
    BY DEF Consistent
  <1>1. ASSUME NEW a \in Actors, ActorSteps(a) PROVE [Contract!Next]_(Contract!vars)
    <2>1. CASE a \in Workers /\ (Return(a) \/ Throw(a))
      <3>1. Contract!Finish(a) \/ Contract!Quit
        BY <1>0, <2>1, HandlerFinishes DEF Return, Throw
      <3> QED
        BY <2>1, <3>1 DEF Contract!Next
    <2>2. CASE a \in Workers /\ Crash(a)
      <3>1. Contract!Quit
        BY <1>0, <2>2, HandlerQuits DEF Crash, queueVars
      <3> QED
        BY <3>1 DEF Contract!Next
    <2>3. ASSUME a \in Workers, NEW k \in Keys, Takes(a, k) PROVE Contract!Next
      BY <1>0, <2>3, TakesDeliver DEF Contract!Next
    <2>4. CASE a \in Workers =>
                 ~Return(a) /\ ~Throw(a) /\ ~Crash(a) /\ ~(\E k \in Keys : Takes(a, k))
      <3>1. HandlerTask' = HandlerTask
        BY <1>1, <2>4, TasksKept
      <3>2. CASE EnqueueStep(a) \/ EnqueueNext(a) \/ (a \in Workers /\ Defer(a))
        <4>1. PICK k \in Keys : \E t : live' = Enqueued(k, t)
          BY <1>0, <3>2, EnqueueEffect
        <4> QED
          BY <1>0, <3>1, <4>1, EnqueueSeen
      <3>3. CASE UNCHANGED queueVars
        BY <3>1, <3>3, Unseen DEF queueVars
      <3> QED
        BY <1>0, <1>1, <2>4, <3>2, <3>3, QueueWrites
    <2> QED
      BY <2>1, <2>2, <2>3, <2>4
  <1>2. ASSUME NEW k \in Keys, Reclaim(k) PROVE Contract!Next
    BY <1>0, <1>2, ReclaimTakesBack DEF Contract!Next
  <1>4. CASE WithdrawJobs
    BY <1>0, <1>4, WithdrawalWithdraws DEF Contract!Next
  <1>3. CASE OutsideSteps \/ UNCHANGED vars
    <2>1. live' = live /\ actor' = actor
      BY <1>3 DEF OutsideSteps, Cancel, Suppress, Passes, Tick, vars, queueVars
    <2> QED
      BY <2>1, TasksStay, Unseen
  <1> QED
    BY <1>1, <1>2, <1>3, <1>4, NextSteps

\* With rows enqueued by users and by handlers whose own rows are still live, and
\* handlers cut off anywhere, the queue under the step handler keeps the contract
\* that WorkQueue is proved to implement.
THEOREM StepsKeepContract == Spec => QueueKept
  BY KeptInit, KeptStep, AlwaysWaits, PTL DEF Spec, QueueKept, Contract!SpecEmptied
==============================================================================
