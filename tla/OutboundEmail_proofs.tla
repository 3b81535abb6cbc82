-------------------------- MODULE OutboundEmail_proofs --------------------------
(***************************************************************************)
(* Machine-checked proofs about OutboundEmail, for any number of handlers, *)
(* attempts, deferrals and half hours and for every set of Faults.         *)
(***************************************************************************)
EXTENDS OutboundEmail, DedupeQueue_proofs

SendRow ==
  [status : Final \cup {"absent", "queued", "deferred", "sending"},
   message : BOOLEAN,
   claimed : BOOLEAN,
   deferrals : 0 .. MaxDeferrals]

Pcs == {"idle", "read", "gates", "requeue_pause", "requeue_window",
        "claim_front", "claim_sendgrid", "front", "sendgrid", "sent_front",
        "sent", "unknown", "failed", "unsent", "throw", "return"}

\* The steps of a handler, with what may befall it.
HandlerSteps(w) ==
  Handles(w) \/ SentMisread(w) \/ Throw(w) \/ Crash(w) \/ \E k \in Keys : TakeJob(w, k)

\* A row is taken over from a handler that is gone, or that is still at work.
TakeOvers == \E w \in Workers, k \in Keys : TakeOver(w, k)

\* The steps of the compose call.
ComposeSteps ==
  Compose \/ ComposeAgain \/ ComposeSuppressed \/ Composes \/ CutCompose

-----------------------------------------------------------------------------
(* TypeOK is an invariant.  A running handler has a key, and what it defers *)
(* to has one.                                                             *)

HandlersHaveKeys == \A w \in Workers : actor[w].pc # "idle" => actor[w].key \in Keys

DeferralsHaveKeys ==
  \A w \in Workers :
    actor[w].pc = "requeue_window" => actor[w].at \div HalfHoursPerDay \in Windows

Typed == TypeOK /\ HandlersHaveKeys /\ DeferralsHaveKeys

\* The start of a window is a half hour of the model, of the day it is named for.
LEMMA WindowStart ==
  ASSUME NEW d \in Windows
  PROVE  /\ d * HalfHoursPerDay \in 0 .. LastHalfHour + 1
         /\ (d * HalfHoursPerDay) \div HalfHoursPerDay = d
  <1>1. /\ HalfHoursPerDay \in Nat \ {0} /\ LastHalfHour \in Nat
        /\ d \in Nat /\ d <= LastHalfHour \div HalfHoursPerDay
        /\ LastHalfHour \div HalfHoursPerDay \in Nat
    BY OutboundAssumption, QueueAssumption DEF Windows
  <1>2. d * HalfHoursPerDay <= (LastHalfHour \div HalfHoursPerDay) * HalfHoursPerDay
    BY <1>1
  <1>3. (LastHalfHour \div HalfHoursPerDay) * HalfHoursPerDay <= LastHalfHour
    BY <1>1
  <1>4. (d * HalfHoursPerDay) \div HalfHoursPerDay = d /\ d * HalfHoursPerDay \in Nat
    BY <1>1
  <1> QED
    BY <1>1, <1>2, <1>3, <1>4

LEMMA DeferralKeysType ==
  /\ \A b \in Buckets : b \in Keys
  /\ \A d \in Windows : WindowKey(d) \in Keys
  BY OutboundAssumption

LEMMA RestingType == Resting \in ActorRecord /\ Resting.pc = "idle"
  BY QueueAssumption, OutboundAssumption DEF Resting, ActorRecord

\* A handler that only moves on, and one that returns.
LEMMA GoesType ==
  ASSUME Typed, NEW w \in Workers, NEW pc \in Pcs \ {"idle", "requeue_window"},
         actor[w].pc # "idle", Goes(w, pc)
  PROVE  actor' \in [Workers -> ActorRecord] /\ HandlersHaveKeys' /\ DeferralsHaveKeys'
  <1> USE DEF Typed, TypeOK
  <1>1. actor[w] \in ActorRecord
    OBVIOUS
  <1>2. /\ [actor[w] EXCEPT !.pc = pc] \in ActorRecord
        /\ [actor[w] EXCEPT !.pc = pc].pc = pc
        /\ [actor[w] EXCEPT !.pc = pc].key = actor[w].key
    BY <1>1 DEF ActorRecord, Pcs
  <1>3. actor' = [actor EXCEPT ![w] = [actor[w] EXCEPT !.pc = pc]]
    BY DEF Goes
  <1> QED
    BY <1>2, <1>3 DEF HandlersHaveKeys, DeferralsHaveKeys

LEMMA EndsType ==
  ASSUME Typed, NEW w \in Workers, actor[w].pc # "idle", Ends(w)
  PROVE  /\ actor' \in [Workers -> ActorRecord] /\ HandlersHaveKeys' /\ DeferralsHaveKeys'
         /\ actor'[w].pc = "return"
         /\ actor'[w].key = actor[w].key
         /\ \A v \in Workers \ {w} : actor'[v] = actor[v]
  <1> USE DEF Typed, TypeOK
  <1> DEFINE r == [Resting EXCEPT !.pc = "return", !.key = actor[w].key]
  <1>1. actor[w] \in ActorRecord
    OBVIOUS
  <1>2. r \in ActorRecord /\ r.pc = "return" /\ r.key = actor[w].key
    BY <1>1, RestingType DEF ActorRecord
  <1>3. actor' = [actor EXCEPT ![w] = r]
    BY DEF Ends
  <1> HIDE DEF r
  <1> QED
    BY <1>2, <1>3 DEF HandlersHaveKeys, DeferralsHaveKeys

LEMMA RestsType ==
  ASSUME Typed, NEW w \in Workers, actor' = [actor EXCEPT ![w] = Resting]
  PROVE  /\ actor' \in [Workers -> ActorRecord] /\ HandlersHaveKeys' /\ DeferralsHaveKeys'
         /\ actor'[w].pc = "idle"
         /\ \A v \in Workers \ {w} : actor'[v] = actor[v]
  BY RestingType DEF Typed, TypeOK, HandlersHaveKeys, DeferralsHaveKeys

LEMMA BeginsType ==
  ASSUME Typed, NEW w \in Workers, NEW k \in Keys, Begins(w, k)
  PROVE  actor' \in [Workers -> ActorRecord] /\ HandlersHaveKeys' /\ DeferralsHaveKeys'
  <1> DEFINE r == [Resting EXCEPT !.pc = "read", !.key = k, !.attempts = live[k].attempts]
  <1>1. r \in ActorRecord /\ r.pc = "read" /\ r.key = k
    <2>1. live[k].attempts \in 0 .. MaxAttempts - 1
      BY DEF Typed, TypeOK, QueueTypeOK, Job
    <2> QED
      BY <2>1, RestingType DEF ActorRecord
  <1>2. actor' = [actor EXCEPT ![w] = r]
    BY DEF Begins
  <1> HIDE DEF r
  <1> QED
    BY <1>1, <1>2 DEF Typed, TypeOK, HandlersHaveKeys, DeferralsHaveKeys

LEMMA ActorType ==
  ASSUME Typed, NEW w \in Workers, HandlerSteps(w)
  PROVE  actor' \in [Workers -> ActorRecord] /\ HandlersHaveKeys' /\ DeferralsHaveKeys'
  <1> DEFINE Goal == actor' \in [Workers -> ActorRecord] /\ HandlersHaveKeys' /\ DeferralsHaveKeys'
  <1>0. actor[w] \in ActorRecord
    BY DEF Typed, TypeOK
  <1>1. CASE GatesPass(w) \/ Claim(w) \/ Post(w) \/ PostFails(w) \/ SentMisread(w) \/ Release(w)
    BY <1>1, GoesType DEF GatesPass, Claim, Post, PostFails, SentMisread, Release, Pcs
  <1>2. CASE \/ Refuse(w) \/ GiveUp(w) \/ RequeueForPause(w) \/ RequeueForCap(w)
             \/ ClaimLost(w) \/ RecordSent(w) \/ RecordOutcome(w) \/ FailForGood(w)
    BY <1>2, EndsType
    DEF Refuse, GiveUp, RequeueForPause, RequeueForCap, Requeues, ClaimLost, RecordSent,
        RecordOutcome, FailForGood
  <1>3. CASE Return(w) \/ Rethrow(w) \/ Throw(w) \/ Crash(w)
    BY <1>3, RestsType DEF Return, Rethrow, Throw, Crash
  <1>4. CASE ReadRow(w)
    <2>1. CASE Actionable
      <3> DEFINE r == [actor[w] EXCEPT !.pc = "gates", !.deferrals = row.deferrals]
      <3>1. r \in ActorRecord /\ r.pc = "gates" /\ r.key = actor[w].key
        BY <1>0 DEF Typed, TypeOK, ActorRecord
      <3>2. actor' = [actor EXCEPT ![w] = r]
        BY <1>4, <2>1, <1>0 DEF ReadRow, ActorRecord, Typed, TypeOK
      <3>3. actor[w].key \in Keys
        BY <1>4 DEF ReadRow, Typed, HandlersHaveKeys
      <3> HIDE DEF r
      <3> QED
        BY <3>1, <3>2, <3>3 DEF Typed, TypeOK, HandlersHaveKeys, DeferralsHaveKeys
    <2>2. CASE ~Actionable
      BY <1>4, <2>2, EndsType DEF ReadRow
    <2> QED
      BY <2>1, <2>2
  <1>5. CASE DeferForPause(w)
    <2> DEFINE r == [actor[w] EXCEPT !.pc = "requeue_pause", !.at = ResumeAt]
    <2>1. r \in ActorRecord /\ r.pc = "requeue_pause" /\ r.key = actor[w].key
      <3>1. ResumeAt \in 0 .. LastHalfHour + 1
        BY QueueAssumption DEF Typed, TypeOK, QueueTypeOK, ResumeAt
      <3> QED
        BY <1>0, <3>1 DEF ActorRecord
    <2>2. actor' = [actor EXCEPT ![w] = r]
      BY <1>5, <1>0 DEF DeferForPause, ActorRecord, Typed, TypeOK
    <2>3. actor[w].key \in Keys
      BY <1>5 DEF DeferForPause, Typed, HandlersHaveKeys
    <2> HIDE DEF r
    <2> QED
      BY <2>1, <2>2, <2>3 DEF Typed, TypeOK, HandlersHaveKeys, DeferralsHaveKeys
  <1>6. CASE DeferForCap(w)
    <2> DEFINE r == [actor[w] EXCEPT !.pc = "requeue_window", !.at = (Today + 1) * HalfHoursPerDay]
    <2>1. Today + 1 \in Windows
      BY <1>6 DEF DeferForCap, AtCap
    <2>2. /\ r \in ActorRecord /\ r.pc = "requeue_window" /\ r.key = actor[w].key
          /\ r.at = (Today + 1) * HalfHoursPerDay
      BY <1>0, <2>1, WindowStart DEF ActorRecord
    <2>3. actor' = [actor EXCEPT ![w] = r]
      BY <1>6, <1>0 DEF DeferForCap, ActorRecord, Typed, TypeOK
    <2>4. actor[w].key \in Keys
      BY <1>6 DEF DeferForCap, Typed, HandlersHaveKeys
    <2>5. r.at \div HalfHoursPerDay \in Windows
      BY <2>1, <2>2, WindowStart
    <2> HIDE DEF r
    <2> QED
      BY <2>2, <2>3, <2>4, <2>5 DEF Typed, TypeOK, HandlersHaveKeys, DeferralsHaveKeys
  <1>7. ASSUME NEW k \in Keys, TakeJob(w, k) PROVE Goal
    BY <1>7, BeginsType DEF TakeJob
  <1> QED
    BY <1>1, <1>2, <1>3, <1>4, <1>5, <1>6, <1>7 DEF HandlerSteps, Handles

LEMMA HandlerQueueType ==
  ASSUME Typed, NEW w \in Workers, HandlerSteps(w)
  PROVE  QueueTypeOK'
  <1>1. QueueTypeOK /\ actor[w] \in ActorRecord
    BY DEF Typed, TypeOK
  <1>2. CASE RequeueForPause(w) \/ RequeueForCap(w)
    <2>1. actor[w].at \in 0 .. LastHalfHour + 1
      BY <1>1 DEF ActorRecord
    <2>2. \A k : Enqueued(k, actor[w].at) \in [Keys -> Job]
      BY <1>1, <2>1, EnqueuedType
    <2> QED
      BY <1>1, <1>2, <2>2 DEF RequeueForPause, RequeueForCap, Requeues, QueueTypeOK
  <1>3. CASE Return(w)
    BY <1>1, <1>3, CompletesType DEF Return
  <1>4. CASE Rethrow(w) \/ Throw(w)
    <2>1. actor[w].key \in Keys
      BY <1>4 DEF Rethrow, Throw, Typed, HandlersHaveKeys
    <2> QED
      BY <1>1, <1>4, <2>1, FailsType DEF Rethrow, Throw
  <1>5. ASSUME NEW k \in Keys, TakeJob(w, k) PROVE QueueTypeOK'
    BY <1>1, <1>5, TakeType DEF TakeJob
  <1>6. CASE UNCHANGED queueVars
    BY <1>1, <1>6 DEF queueVars, QueueTypeOK
  <1> QED
    BY <1>2, <1>3, <1>4, <1>5, <1>6
    DEF HandlerSteps, Handles, ReadRow, DeferForPause, Refuse, GateWrites, GatesPass,
        DeferForCap, GiveUp, Claim, ClaimLost, Post, PostFails, RecordSent, RecordOutcome,
        FailForGood, Release, SentMisread, Crash

\* Every write of the row is an update of some of its fields.
LEMMA HandlerRowType ==
  ASSUME Typed, NEW w \in Workers, HandlerSteps(w)
  PROVE  row' \in SendRow
  <1> USE DEF Typed, TypeOK, SendRow, Final
  <1>1. row \in SendRow
    OBVIOUS
  <1>2. CASE UNCHANGED row
    BY <1>1, <1>2
  <1>3. CASE DeferForPause(w) \/ Refuse(w) \/ GiveUp(w)
    BY <1>1, <1>3 DEF DeferForPause, Refuse, GiveUp, GateWrites
  <1>4. CASE DeferForCap(w)
    <2>1. actor[w].deferrals + 1 \in 0 .. MaxDeferrals
      BY <1>4, OutboundAssumption DEF DeferForCap, ActorRecord
    <2>2. [row EXCEPT !.status = "deferred", !.deferrals = actor[w].deferrals + 1] \in SendRow
      BY <1>1, <2>1
    <2> QED
      BY <1>4, <2>2 DEF DeferForCap, GateWrites
  <1>5. CASE Claim(w) \/ RecordSent(w) \/ FailForGood(w) \/ Release(w)
    BY <1>1, <1>5 DEF Claim, RecordSent, FailForGood, Release, Writes
  <1>6. CASE RecordOutcome(w)
    BY <1>1, <1>6 DEF RecordOutcome, Writes
  <1> QED
    BY <1>2, <1>3, <1>4, <1>5, <1>6
    DEF HandlerSteps, Handles, ReadRow, GatesPass, RequeueForPause, RequeueForCap, Requeues,
        ClaimLost, Post, PostFails, SentMisread, Throw, Crash, Return, Rethrow, TakeJob

LEMMA HandlerGhostType ==
  ASSUME Typed, NEW w \in Workers, HandlerSteps(w)
  PROVE  /\ posted' \in 0 .. 2
         /\ clobbered' \in BOOLEAN
         /\ misread' \in BOOLEAN
         /\ dropped' \in BOOLEAN
         /\ mishaps' \subseteq Faults
         /\ UNCHANGED compose
  <1> USE DEF Typed, TypeOK
  <1>1. CASE UNCHANGED <<ghosts, compose>>
    BY <1>1 DEF ghosts
  <1>2. CASE DeferForPause(w) \/ Refuse(w) \/ GiveUp(w) \/ DeferForCap(w)
    BY <1>2 DEF DeferForPause, Refuse, GiveUp, DeferForCap, GateWrites
  <1>3. CASE RequeueForPause(w) \/ RequeueForCap(w)
    BY <1>3 DEF RequeueForPause, RequeueForCap, Requeues
  <1>4. CASE Post(w)
    BY <1>4 DEF Post
  <1>5. CASE SentMisread(w) \/ Throw(w) \/ Crash(w)
    BY <1>5 DEF SentMisread, Throw, Crash, Happens, queueVars
  <1> QED
    BY <1>1, <1>2, <1>3, <1>4, <1>5
    DEF HandlerSteps, Handles, ReadRow, GatesPass, Claim, ClaimLost, PostFails, RecordSent,
        RecordOutcome, FailForGood, Release, Return, Rethrow, TakeJob

LEMMA TypedInit == ASSUME Init PROVE Typed
  <1>1. NoRow \in SendRow
    BY OutboundAssumption DEF NoRow, SendRow
  <1>2. QueueTypeOK
    BY QueueInitType DEF Init
  <1>3. actor \in [Workers -> ActorRecord] /\ HandlersHaveKeys /\ DeferralsHaveKeys
    BY RestingType DEF Init, HandlersHaveKeys, DeferralsHaveKeys
  <1>4. row \in SendRow /\ posted \in 0 .. 2
    BY <1>1 DEF Init
  <1>5. clobbered \in BOOLEAN /\ misread \in BOOLEAN /\ dropped \in BOOLEAN
    BY Zenon DEF Init
  <1> QED
    BY <1>2, <1>3, <1>4, <1>5 DEF Init, Typed, TypeOK, SendRow

LEMMA TypedStep == ASSUME Typed, [Next]_vars PROVE Typed'
  <1>1. ASSUME NEW w \in Workers, HandlerSteps(w) PROVE Typed'
    BY <1>1, ActorType, HandlerQueueType, HandlerRowType, HandlerGhostType
    DEF Typed, TypeOK, SendRow
  <1>2. CASE ComposeSteps
    <2>1. /\ UNCHANGED <<actor, now, ended>>
          /\ compose' \in {"idle", "list", "enqueue"}
          /\ UNCHANGED <<posted, clobbered, misread, dropped>>
          /\ mishaps' \subseteq Faults
      BY <1>2
      DEF ComposeSteps, Compose, ComposeAgain, ComposeSuppressed, Composes, ListBatch,
          EnqueueListed, CutCompose, Happens, ghosts, queueVars, Typed, TypeOK
    <2>2. row' \in SendRow
      BY <1>2
      DEF ComposeSteps, Compose, ComposeAgain, ComposeSuppressed, Composes, ListBatch,
          EnqueueListed, CutCompose, Writes, SendRow, Final, Typed, TypeOK
    <2>3. live' \in [Keys -> Job]
      <3>1. Enqueued(Plain, 0) \in [Keys -> Job]
        BY EnqueuedType, QueueAssumption DEF Typed, TypeOK
      <3> QED
        BY <1>2, <3>1
        DEF ComposeSteps, Compose, ComposeAgain, ComposeSuppressed, Composes, ListBatch,
            EnqueueListed, CutCompose, queueVars, Typed, TypeOK, QueueTypeOK
    <2> QED
      BY <2>1, <2>2, <2>3
      DEF Typed, TypeOK, QueueTypeOK, HandlersHaveKeys, DeferralsHaveKeys, SendRow
  <1>3. ASSUME NEW k \in Keys, Reclaim(k) PROVE Typed'
    <2>1. QueueTypeOK'
      BY <1>3, ReclaimsType DEF Reclaim, Typed, TypeOK
    <2>2. mishaps' \subseteq Faults
      BY <1>3 DEF Reclaim, Lapses, Happens, Typed, TypeOK
    <2> QED
      BY <1>3, <2>1, <2>2 DEF Reclaim, Typed, TypeOK, HandlersHaveKeys, DeferralsHaveKeys
  <1>4. CASE Passes
    <2>1. QueueTypeOK'
      BY <1>4, TickType DEF Passes, Typed, TypeOK
    <2> QED
      BY <1>4, <2>1 DEF Passes, ghosts, Typed, TypeOK, HandlersHaveKeys, DeferralsHaveKeys
  <1>5. CASE UNCHANGED vars
    BY <1>5
    DEF vars, queueVars, ghosts, Typed, TypeOK, QueueTypeOK, HandlersHaveKeys, DeferralsHaveKeys
  <1>6. ASSUME NEW w \in Workers, NEW k \in Keys, TakeOver(w, k) PROVE Typed'
    <2>1. QueueTypeOK'
      BY <1>6, TakesOverType DEF TakeOver, Typed, TypeOK
    <2>2. mishaps' \subseteq Faults
      BY <1>6 DEF TakeOver, Lapses, Happens, Typed, TypeOK
    <2>3. actor' \in [Workers -> ActorRecord] /\ HandlersHaveKeys' /\ DeferralsHaveKeys'
      BY <1>6, BeginsType DEF TakeOver
    <2> QED
      BY <1>6, <2>1, <2>2, <2>3 DEF TakeOver, Typed, TypeOK
  <1>7. CASE WithdrawJobs
    <2>1. QueueTypeOK'
      BY <1>7, WithdrawsType DEF WithdrawJobs, Typed, TypeOK
    <2>2. mishaps' \subseteq Faults
      BY <1>7 DEF WithdrawJobs, Happens, Typed, TypeOK
    <2> QED
      BY <1>7, <2>1, <2>2 DEF WithdrawJobs, Typed, TypeOK, HandlersHaveKeys, DeferralsHaveKeys
  <1> QED
    BY <1>1, <1>2, <1>3, <1>4, <1>5, <1>6, <1>7 DEF Next, HandlerSteps, ComposeSteps

LEMMA AlwaysTyped == Spec => []Typed
  BY TypedInit, TypedStep, PTL DEF Spec

\* Every variable keeps its type; in particular no deferral is due after the
\* last window or counted past MaxDeferrals.
THEOREM TypeCorrect == Spec => []TypeOK
  <1>1. Typed => TypeOK
    BY DEF Typed
  <1> QED
    BY <1>1, AlwaysTyped, PTL

-----------------------------------------------------------------------------
(* Where a step leaves its handler, and the others.                        *)

Stay(w) == \A v \in Workers \ {w} : actor'[v] = actor[v]

LEMMA GoesEffect ==
  ASSUME TypeOK, NEW w \in Workers, NEW pc, Goes(w, pc)
  PROVE  /\ actor'[w].pc = pc
         /\ actor'[w].key = actor[w].key
         /\ Stay(w)
  BY DEF TypeOK, ActorRecord, Goes, Stay

LEMMA EndsEffect ==
  ASSUME TypeOK, NEW w \in Workers, Ends(w)
  PROVE  /\ actor'[w].pc = "return"
         /\ actor'[w].key = actor[w].key
         /\ Stay(w)
  BY DEF TypeOK, Resting, Ends, Stay

LEMMA RestsEffect ==
  ASSUME TypeOK, NEW w \in Workers, actor' = [actor EXCEPT ![w] = Resting]
  PROVE  actor'[w].pc = "idle" /\ actor'[w].key = None /\ Stay(w)
  BY DEF TypeOK, Resting, Stay

LEMMA ReadEffect ==
  ASSUME TypeOK, NEW w \in Workers, ReadRow(w)
  PROVE  /\ actor'[w].pc = IF Actionable THEN "gates" ELSE "return"
         /\ actor'[w].key = actor[w].key
         /\ Stay(w)
  <1>1. CASE Actionable
    BY <1>1 DEF ReadRow, TypeOK, ActorRecord, Stay
  <1>2. CASE ~Actionable
    BY <1>2, EndsEffect DEF ReadRow
  <1> QED
    BY <1>1, <1>2

LEMMA DefersEffect ==
  ASSUME TypeOK, NEW w \in Workers, DeferForPause(w) \/ DeferForCap(w)
  PROVE  /\ actor'[w].pc = IF DeferForPause(w) THEN "requeue_pause" ELSE "requeue_window"
         /\ actor'[w].key = actor[w].key
         /\ Stay(w)
  <1>1. CASE DeferForPause(w)
    BY <1>1 DEF DeferForPause, TypeOK, ActorRecord, Stay
  <1>2. CASE DeferForCap(w) /\ ~DeferForPause(w)
    BY <1>2 DEF DeferForCap, TypeOK, ActorRecord, Stay
  <1> QED
    BY <1>1, <1>2

LEMMA TakeJobEffect ==
  ASSUME TypeOK, NEW w \in Workers, NEW k \in Keys, TakeJob(w, k)
  PROVE  actor'[w].pc = "read" /\ actor'[w].key = k /\ Stay(w)
  BY DEF TakeJob, Begins, TypeOK, Resting, Stay

LEMMA TakeOverEffect ==
  ASSUME TypeOK, NEW w \in Workers, NEW k \in Keys, TakeOver(w, k)
  PROVE  /\ actor[w].pc = "idle"
         /\ actor'[w].pc = "read" /\ actor'[w].key = k /\ Stay(w)
         /\ UNCHANGED <<row, compose, posted, clobbered, misread, dropped, ended>>
  BY DEF TakeOver, TakesOver, Begins, TypeOK, Resting, Stay

\* Nothing takes back what the ghosts have noted.
LEMMA GhostsGrow ==
  ASSUME NEW w \in Workers, HandlerSteps(w)
  PROVE  (clobbered => clobbered') /\ (misread => misread') /\ (dropped => dropped')
  <1>1. CASE UNCHANGED <<clobbered, misread, dropped>>
    BY <1>1
  <1>2. CASE DeferForPause(w) \/ Refuse(w) \/ DeferForCap(w) \/ GiveUp(w)
    <2>1. UNCHANGED <<misread, dropped>> /\ clobbered' = (clobbered \/ ~Actionable)
      BY <1>2 DEF DeferForPause, Refuse, DeferForCap, GiveUp, GateWrites
    <2> QED
      BY <2>1
  <1>3. CASE RequeueForPause(w) \/ RequeueForCap(w)
    <2>1. PICK k : UNCHANGED <<misread, clobbered>> /\ dropped' = (dropped \/ Live(k))
      BY <1>3 DEF RequeueForPause, RequeueForCap, Requeues
    <2> QED
      BY <2>1
  <1>4. CASE SentMisread(w)
    BY <1>4 DEF SentMisread
  <1> QED
    BY <1>1, <1>2, <1>3, <1>4
    DEF HandlerSteps, Handles, ReadRow, GatesPass, Claim, ClaimLost, Post, PostFails,
        RecordSent, RecordOutcome, FailForGood, Release, Return, Rethrow, Throw, Crash,
        TakeJob, ghosts

\* A row changes by a gate, or by a handler that takes or has the claim.
Gating(w) == DeferForPause(w) \/ Refuse(w) \/ DeferForCap(w) \/ GiveUp(w)
Recording(w) == RecordSent(w) \/ RecordOutcome(w) \/ FailForGood(w) \/ Release(w)

-----------------------------------------------------------------------------
(* At most one delivery.  Unless a gate has written over a claimed row, a  *)
(* handler between its claim and its record is the only one and its row is *)
(* "sending"; nobody who may still post, and no row that may be claimed,   *)
(* has a delivery behind it.                                               *)

Dispatching(w) ==
  actor[w].pc \in {"front", "sendgrid", "sent_front", "sent", "unknown", "failed", "unsent"}

OneDispatcher ==
  ~clobbered =>
    \A w \in Workers : Dispatching(w) =>
      /\ row.status = "sending"
      /\ \A v \in Workers \ {w} : ~Dispatching(v)

Unposted ==
  ~clobbered /\ ~misread =>
    /\ row.status \in {"absent", "queued", "deferred"} => posted = 0
    /\ \A w \in Workers :
         actor[w].pc \in {"front", "sendgrid", "failed", "unsent"} => posted = 0
    /\ posted <= 1

LEMMA OneDispatcherStep ==
  ASSUME Typed, OneDispatcher, [Next]_vars
  PROVE  OneDispatcher'
  <1>0. TypeOK
    BY DEF Typed
  <1>1. ASSUME NEW w \in Workers, HandlerSteps(w) PROVE OneDispatcher'
    <2>1. CASE Gating(w)
      <3>1. ~Dispatching(w)' /\ Stay(w)
        BY <1>0, <2>1, DefersEffect, EndsEffect DEF Gating, Refuse, GiveUp, Dispatching
      <3>2. ~clobbered' => ~clobbered /\ Actionable
        BY <2>1 DEF Gating, DeferForPause, Refuse, DeferForCap, GiveUp, GateWrites
      <3> QED
        BY <3>1, <3>2 DEF OneDispatcher, Actionable, Stay, Dispatching
    <2>2. CASE Claim(w)
      <3>1. row'.status = "sending" /\ Actionable /\ UNCHANGED clobbered
        BY <1>0, <2>2 DEF Claim, Claimable, TypeOK, ghosts
      <3>2. Stay(w)
        BY <1>0, <2>2, GoesEffect DEF Claim
      <3> QED
        BY <3>1, <3>2 DEF OneDispatcher, Actionable, Stay, Dispatching
    <2>3. CASE Recording(w)
      <3>1. Dispatching(w) /\ ~Dispatching(w)' /\ Stay(w) /\ UNCHANGED clobbered
        BY <1>0, <2>3, EndsEffect, GoesEffect
        DEF Recording, RecordSent, RecordOutcome, FailForGood, Release, Dispatching, ghosts
      <3> QED
        BY <3>1 DEF OneDispatcher, Stay, Dispatching
    <2>4. CASE Post(w) \/ PostFails(w) \/ SentMisread(w)
      <3>1. Dispatching(w) /\ Stay(w) /\ UNCHANGED <<row, clobbered>>
        BY <1>0, <2>4, GoesEffect DEF Post, PostFails, SentMisread, Dispatching, ghosts
      <3> QED
        BY <3>1 DEF OneDispatcher, Stay, Dispatching
    <2>5. CASE \/ ReadRow(w) \/ GatesPass(w) \/ RequeueForPause(w) \/ RequeueForCap(w)
               \/ ClaimLost(w) \/ Return(w) \/ Rethrow(w) \/ Throw(w) \/ Crash(w)
               \/ \E k \in Keys : TakeJob(w, k)
      <3>1. ~Dispatching(w)' /\ Stay(w)
        BY <1>0, <2>5, ReadEffect, GoesEffect, EndsEffect, RestsEffect, TakeJobEffect
        DEF GatesPass, RequeueForPause, RequeueForCap, Requeues, ClaimLost, Return, Rethrow,
            Throw, Crash, Dispatching
      <3>2. UNCHANGED <<row, clobbered>>
        BY <2>5
        DEF ReadRow, GatesPass, RequeueForPause, RequeueForCap, Requeues, ClaimLost, Return,
            Rethrow, Throw, Crash, TakeJob, ghosts
      <3> QED
        BY <3>1, <3>2 DEF OneDispatcher, Stay, Dispatching
    <2> QED
      BY <1>1, <2>1, <2>2, <2>3, <2>4, <2>5 DEF HandlerSteps, Handles, Gating, Recording
  <1>2. CASE ComposeSteps
    <2>1. UNCHANGED <<actor, clobbered>>
      BY <1>2
      DEF ComposeSteps, Compose, ComposeAgain, ComposeSuppressed, Composes, ListBatch,
          EnqueueListed, CutCompose, ghosts
    <2>2. UNCHANGED row \/ row.status = "absent"
      BY <1>2
      DEF ComposeSteps, Compose, ComposeAgain, ComposeSuppressed, Composes, ListBatch,
          EnqueueListed, CutCompose
    <2> QED
      BY <2>1, <2>2 DEF OneDispatcher, Dispatching
  <1>3. CASE (\E k \in Keys : Reclaim(k)) \/ WithdrawJobs \/ Passes \/ UNCHANGED vars
    BY <1>3 DEF Reclaim, WithdrawJobs, Passes, vars, ghosts, OneDispatcher, Dispatching
  <1>4. CASE TakeOvers
    BY <1>0, <1>4, TakeOverEffect DEF TakeOvers, Stay, OneDispatcher, Dispatching
  <1> QED
    BY <1>1, <1>2, <1>3, <1>4 DEF Next, HandlerSteps, ComposeSteps, TakeOvers

Posting(w) == actor[w].pc \in {"front", "sendgrid", "failed", "unsent"}

LEMMA UnpostedStep ==
  ASSUME Typed, OneDispatcher, Unposted, [Next]_vars
  PROVE  Unposted'
  <1>0. TypeOK /\ row.status \in Final \cup {"absent", "queued", "deferred", "sending"}
    BY DEF Typed, TypeOK
  <1> SUFFICES ASSUME ~clobbered', ~misread'
               PROVE  /\ row'.status \in {"absent", "queued", "deferred"} => posted' = 0
                      /\ \A w \in Workers : Posting(w)' => posted' = 0
                      /\ posted' <= 1
    BY DEF Unposted, Posting
  <1> DEFINE Goal == /\ row'.status \in {"absent", "queued", "deferred"} => posted' = 0
                     /\ \A w \in Workers : Posting(w)' => posted' = 0
                     /\ posted' <= 1
  <1>1. ASSUME NEW w \in Workers, HandlerSteps(w) PROVE Goal
    <2>1. ~clobbered /\ ~misread
      BY <1>1, GhostsGrow
    <2>2. CASE Gating(w)
      <3>1. ~Posting(w)' /\ Stay(w)
        BY <1>0, <2>2, DefersEffect, EndsEffect DEF Gating, Refuse, GiveUp, Posting
      <3>2. posted' = posted /\ Actionable
        BY <2>2 DEF Gating, DeferForPause, Refuse, DeferForCap, GiveUp, GateWrites
      <3> QED
        BY <2>1, <3>1, <3>2 DEF Unposted, Stay, Posting, Actionable
    <2>3. CASE Claim(w)
      <3>1. row'.status = "sending" /\ Actionable /\ posted' = posted
        BY <1>0, <2>3 DEF Claim, Claimable, TypeOK, ghosts
      <3>2. Stay(w)
        BY <1>0, <2>3, GoesEffect DEF Claim
      <3> QED
        BY <2>1, <3>1, <3>2 DEF Unposted, Actionable, Stay, Posting
    <2>4. CASE Recording(w)
      <3>1. ~Posting(w)' /\ Stay(w) /\ posted' = posted
        BY <1>0, <2>4, EndsEffect, GoesEffect
        DEF Recording, RecordSent, RecordOutcome, FailForGood, Release, Posting, ghosts
      <3>2. row'.status \in {"absent", "queued", "deferred"} => posted = 0
        BY <1>0, <2>1, <2>4
        DEF Recording, RecordSent, RecordOutcome, FailForGood, Release, Writes, TypeOK, Unposted
      <3> QED
        BY <2>1, <3>1, <3>2 DEF Unposted, Stay, Posting
    <2>5. CASE Post(w)
      <3>1. Posting(w) /\ ~Posting(w)' /\ Stay(w) /\ row' = row
        BY <1>0, <2>5, GoesEffect DEF Post, Posting
      <3>2. posted = 0 /\ posted' = 1
        BY <2>1, <2>5, <3>1 DEF Post, Unposted, Posting
      <3>3. row.status = "sending" /\ \A v \in Workers \ {w} : ~Posting(v)
        BY <2>1, <3>1 DEF OneDispatcher, Dispatching, Posting
      <3> QED
        BY <3>1, <3>2, <3>3 DEF Stay, Posting
    <2>6. CASE PostFails(w)
      <3>1. Posting(w) /\ Stay(w) /\ UNCHANGED <<row, posted>>
        BY <1>0, <2>6, GoesEffect DEF PostFails, Posting, ghosts
      <3> QED
        BY <2>1, <3>1 DEF Unposted, Stay, Posting
    <2>7. CASE SentMisread(w)
      BY <2>7 DEF SentMisread
    <2>8. CASE \/ ReadRow(w) \/ GatesPass(w) \/ RequeueForPause(w) \/ RequeueForCap(w)
               \/ ClaimLost(w) \/ Return(w) \/ Rethrow(w) \/ Throw(w) \/ Crash(w)
               \/ \E k \in Keys : TakeJob(w, k)
      <3>1. ~Posting(w)' /\ Stay(w)
        BY <1>0, <2>8, ReadEffect, GoesEffect, EndsEffect, RestsEffect, TakeJobEffect
        DEF GatesPass, RequeueForPause, RequeueForCap, Requeues, ClaimLost, Return, Rethrow,
            Throw, Crash, Posting
      <3>2. UNCHANGED <<row, posted>>
        BY <2>8
        DEF ReadRow, GatesPass, RequeueForPause, RequeueForCap, Requeues, ClaimLost, Return,
            Rethrow, Throw, Crash, TakeJob, ghosts
      <3> QED
        BY <2>1, <3>1, <3>2 DEF Unposted, Stay, Posting
    <2> QED
      BY <1>1, <2>2, <2>3, <2>4, <2>5, <2>6, <2>7, <2>8
      DEF HandlerSteps, Handles, Gating, Recording
  <1>2. CASE ComposeSteps
    <2>1. UNCHANGED <<actor, posted, clobbered, misread>>
      BY <1>2
      DEF ComposeSteps, Compose, ComposeAgain, ComposeSuppressed, Composes, ListBatch,
          EnqueueListed, CutCompose, ghosts
    <2>2. UNCHANGED row \/ row.status = "absent"
      BY <1>2
      DEF ComposeSteps, Compose, ComposeAgain, ComposeSuppressed, Composes, ListBatch,
          EnqueueListed, CutCompose
    <2> QED
      BY <2>1, <2>2 DEF Unposted, Posting
  <1>3. CASE (\E k \in Keys : Reclaim(k)) \/ WithdrawJobs \/ Passes \/ UNCHANGED vars
    BY <1>3 DEF Reclaim, WithdrawJobs, Passes, vars, ghosts, Unposted, Posting
  <1>4. CASE TakeOvers
    BY <1>0, <1>4, TakeOverEffect DEF TakeOvers, Stay, Unposted, Posting
  <1> QED
    BY <1>1, <1>2, <1>3, <1>4 DEF Next, HandlerSteps, ComposeSteps, TakeOvers

\* Whatever is retried, reclaimed, composed again or lost, a second vendor call
\* that may deliver the mail takes a write of a gate over a claimed row or a
\* failed write taken for a failed send.
THEOREM SentOnce == Spec => []SentOnceUnless
  <1>1. Init => OneDispatcher /\ Unposted
    BY DEF Init, OneDispatcher, Unposted, Dispatching, Resting
  <1>2. Unposted => SentOnceUnless
    BY DEF Unposted, SentOnceUnless, AtMostOnce
  <1> QED
    BY <1>1, <1>2, AlwaysTyped, OneDispatcherStep, UnpostedStep, PTL DEF Spec

\* A recorded outcome is final: of the writes by id that do not look at the row,
\* only those of a gate can come after it.
THEOREM OutcomeStays == Spec => OutcomeIsFinal
  <1>1. Init => OneDispatcher
    BY DEF Init, OneDispatcher, Dispatching, Resting
  <1>2. ASSUME Typed, OneDispatcher, [Next]_vars PROVE [RecordStays]_vars
    <2> SUFFICES ASSUME row.status \in Final, ~clobbered', ~UNCHANGED row
                 PROVE  row'.status = row.status
      BY DEF RecordStays
    <2>0. TypeOK /\ ~Actionable /\ row.status # "absent" /\ row.status # "sending"
      BY <1>2 DEF Typed, Actionable, Final
    <2>1. ASSUME NEW w \in Workers, HandlerSteps(w) PROVE FALSE
      <3>1. Gating(w) \/ Claim(w) \/ Recording(w)
        BY <2>1
        DEF HandlerSteps, Handles, Gating, Recording, ReadRow, GatesPass, RequeueForPause,
            RequeueForCap, Requeues, ClaimLost, Post, PostFails, SentMisread, Throw, Crash,
            Return, Rethrow, TakeJob
      <3>2. ~Gating(w) /\ ~Claim(w)
        BY <2>0
        DEF Gating, DeferForPause, Refuse, DeferForCap, GiveUp, GateWrites, Claim, Claimable
      <3>3. Recording(w) => Dispatching(w) /\ ~clobbered
        BY DEF Recording, RecordSent, RecordOutcome, FailForGood, Release, Dispatching, ghosts
      <3> QED
        BY <1>2, <2>0, <3>1, <3>2, <3>3 DEF OneDispatcher
    <2>2. ASSUME ComposeSteps PROVE FALSE
      BY <2>0, <2>2
      DEF ComposeSteps, Compose, ComposeAgain, ComposeSuppressed, Composes, ListBatch,
          EnqueueListed, CutCompose
    <2>3. ~(\/ \E k \in Keys : Reclaim(k)
            \/ TakeOvers \/ WithdrawJobs \/ Passes \/ UNCHANGED vars)
      BY DEF Reclaim, TakeOvers, TakeOver, WithdrawJobs, Passes, vars
    <2> QED
      BY <1>2, <2>1, <2>2, <2>3 DEF Next, HandlerSteps, ComposeSteps, TakeOvers
  <1> QED
    BY <1>1, <1>2, AlwaysTyped, OneDispatcherStep, PTL DEF Spec, OutcomeIsFinal

-----------------------------------------------------------------------------
(* No mail is forgotten.  While no handler has outlived its lease, each     *)
(* running handler holds the row of its key; a mail that may be claimed has *)
(* a live job that is not about to be completed, or a compose under way     *)
(* that found it before any job was made.                                   *)

HandlersHold ==
  "lapse" \notin mishaps =>
    \A w \in Workers :
      actor[w].pc # "idle" =>
        live[actor[w].key].st = "held" /\ live[actor[w].key].owner = w

NoneLive == \A k \in Keys : ~Live(k)

\* Before the compose there is nothing.
Unstarted ==
  row.status = "absent" =>
    /\ row = NoRow
    /\ compose = "idle"
    /\ NoneLive
    /\ \A w \in Workers : actor[w].pc = "idle"

\* A claim that is left behind is of a row that is not to be sent.
Unclaimed == Actionable /\ ~clobbered => ~row.claimed

Returning(k) == \E w \in Workers : actor[w].pc = "return" /\ actor[w].key = k

CoveredJob == \E k \in Keys : Live(k) /\ ~Returning(k)

Fresh == row.status = "queued" /\ compose # "idle" /\ NoneLive

Excused == mishaps \cap {"cut", "lapse"} # {} \/ ended # {} \/ dropped \/ clobbered

Covered == Actionable /\ ~row.message /\ ~Excused => CoveredJob \/ Fresh

\* A step of w leaves the live rows of the other keys live, and those that are
\* held as they are.
LEMMA LiveKept ==
  ASSUME Typed, NEW w \in Workers, HandlerSteps(w), NEW j \in Keys, Live(j),
         actor[w].pc # "idle" => j # actor[w].key
  PROVE  Live(j)' /\ (live[j].st = "held" => live'[j] = live[j])
  <1>0. QueueTypeOK
    BY DEF Typed, TypeOK
  <1>1. CASE RequeueForPause(w) \/ RequeueForCap(w)
    <2>1. PICK k : live' = Enqueued(k, actor[w].at)
      BY <1>1 DEF RequeueForPause, RequeueForCap, Requeues
    <2>2. live'[j] = live[j]
      BY <1>0, <2>1, EnqueuedKeeps
    <2> QED
      BY <2>2 DEF Live
  <1>2. CASE Return(w) \/ Rethrow(w) \/ Throw(w)
    <2>1. actor[w].pc # "idle" /\ actor[w].key \in Keys
      BY <1>2 DEF Return, Rethrow, Throw, Typed, HandlersHaveKeys
    <2>2. live'[j] = live[j]
      BY <1>0, <1>2, <2>1, CompletesEffect, AgainEffect
      DEF Return, Rethrow, Throw, Fails
    <2> QED
      BY <2>2 DEF Live
  <1>3. ASSUME NEW k \in Keys, TakeJob(w, k)
        PROVE  Live(j)' /\ (live[j].st = "held" => live'[j] = live[j])
    <2>1. Take(w, k) /\ live[k].st = "pending"
      BY <1>3 DEF TakeJob, Take
    <2>2. live'[k].st = "held" /\ \A i \in Keys \ {k} : live'[i] = live[i]
      BY <1>0, <2>1, TakeEffect
    <2> QED
      BY <2>1, <2>2 DEF Live
  <1>4. CASE UNCHANGED live
    BY <1>4 DEF Live
  <1> QED
    BY <1>1, <1>2, <1>3, <1>4
    DEF HandlerSteps, Handles, ReadRow, DeferForPause, Refuse, GateWrites, GatesPass,
        DeferForCap, GiveUp, Claim, ClaimLost, Post, PostFails, RecordSent, RecordOutcome,
        FailForGood, Release, SentMisread, Crash, queueVars

\* A handler that goes on keeps its key, and the row of it.
LEMMA OwnKept ==
  ASSUME Typed, NEW w \in Workers, HandlerSteps(w), actor[w].pc # "idle",
         actor'[w].pc # "idle", Live(actor[w].key)
  PROVE  actor'[w].key = actor[w].key /\ live'[actor[w].key] = live[actor[w].key]
  <1>0. TypeOK /\ QueueTypeOK /\ actor[w].key \in Keys
    BY DEF Typed, TypeOK, HandlersHaveKeys
  <1>1. CASE RequeueForPause(w) \/ RequeueForCap(w)
    <2>1. PICK k : live' = Enqueued(k, actor[w].at)
      BY <1>1 DEF RequeueForPause, RequeueForCap, Requeues
    <2> QED
      BY <1>0, <1>1, <2>1, EnqueuedKeeps, EndsEffect
      DEF RequeueForPause, RequeueForCap, Requeues
  <1>2. CASE Return(w) \/ Rethrow(w) \/ Throw(w) \/ Crash(w)
    BY <1>0, <1>2, RestsEffect DEF Return, Rethrow, Throw, Crash
  <1>3. CASE \E k \in Keys : TakeJob(w, k)
    BY <1>3 DEF TakeJob, Begins
  <1>4. CASE Gating(w)
    BY <1>0, <1>4, DefersEffect, EndsEffect
    DEF Gating, DeferForPause, DeferForCap, Refuse, GiveUp, GateWrites, queueVars
  <1>5. CASE ReadRow(w)
    BY <1>0, <1>5, ReadEffect DEF ReadRow, queueVars
  <1>6. CASE \/ GatesPass(w) \/ Claim(w) \/ ClaimLost(w) \/ Post(w) \/ PostFails(w)
             \/ Recording(w) \/ SentMisread(w)
    BY <1>0, <1>6, GoesEffect, EndsEffect
    DEF GatesPass, Claim, ClaimLost, Post, PostFails, Recording, RecordSent, RecordOutcome,
        FailForGood, Release, SentMisread, queueVars
  <1> QED
    BY <1>1, <1>2, <1>3, <1>4, <1>5, <1>6 DEF HandlerSteps, Handles, Gating, Recording

LEMMA StepStays ==
  ASSUME Typed, NEW w \in Workers, HandlerSteps(w)
  PROVE  Stay(w)
  <1>0. TypeOK
    BY DEF Typed
  <1> QED
    BY <1>0, GoesEffect, EndsEffect, RestsEffect, ReadEffect, DefersEffect, TakeJobEffect
    DEF HandlerSteps, Handles, GatesPass, RequeueForPause, RequeueForCap, Requeues, Refuse,
        GiveUp, Claim, ClaimLost, Post, PostFails, RecordSent, RecordOutcome, FailForGood,
        Release, SentMisread, Throw, Crash, Return, Rethrow

LEMMA MishapsGrow == ASSUME [Next]_vars PROVE mishaps \subseteq mishaps'
  <1>1. ASSUME NEW w \in Workers, HandlerSteps(w) PROVE mishaps \subseteq mishaps'
    BY <1>1
    DEF HandlerSteps, Handles, ReadRow, DeferForPause, Refuse, GateWrites, GatesPass,
        DeferForCap, GiveUp, RequeueForPause, RequeueForCap, Requeues, Claim, ClaimLost,
        Post, PostFails, RecordSent, RecordOutcome, FailForGood, Release, Return, Rethrow,
        SentMisread, Throw, Crash, TakeJob, ghosts, Happens
  <1>2. CASE ComposeSteps
    BY <1>2
    DEF ComposeSteps, Compose, ComposeAgain, ComposeSuppressed, Composes, ListBatch,
        EnqueueListed, CutCompose, ghosts, Happens
  <1>3. CASE \/ \E k \in Keys : Reclaim(k)
             \/ TakeOvers \/ WithdrawJobs \/ Passes \/ UNCHANGED vars
    BY <1>3 DEF Reclaim, TakeOvers, TakeOver, Lapses, WithdrawJobs, Passes, vars, ghosts, Happens
  <1> QED
    BY <1>1, <1>2, <1>3 DEF Next, HandlerSteps, ComposeSteps, TakeOvers

LEMMA HandlersHoldStep ==
  ASSUME Typed, HandlersHold, [Next]_vars
  PROVE  HandlersHold'
  <1>0. TypeOK /\ QueueTypeOK
    BY DEF Typed, TypeOK
  <1> SUFFICES ASSUME "lapse" \notin mishaps', NEW v \in Workers, actor'[v].pc # "idle"
               PROVE  live'[actor'[v].key].st = "held" /\ live'[actor'[v].key].owner = v
    BY DEF HandlersHold
  <1>1. "lapse" \notin mishaps
    BY MishapsGrow
  <1>2. \A u \in Workers : actor[u].pc # "idle" =>
          /\ actor[u].key \in Keys
          /\ live[actor[u].key].st = "held" /\ live[actor[u].key].owner = u
          /\ Live(actor[u].key)
    BY <1>1 DEF HandlersHold, Typed, HandlersHaveKeys, Live
  <1>3. ASSUME NEW w \in Workers, HandlerSteps(w)
        PROVE  live'[actor'[v].key].st = "held" /\ live'[actor'[v].key].owner = v
    <2>1. CASE v # w
      <3>1. actor'[v] = actor[v]
        BY <1>3, <2>1, StepStays DEF Stay
      <3>2. actor[w].pc # "idle" => actor[v].key # actor[w].key
        BY <1>2, <2>1, <3>1
      <3> QED
        BY <1>2, <1>3, <3>1, <3>2, LiveKept
    <2>2. CASE v = w /\ actor[w].pc # "idle"
      BY <1>2, <1>3, <2>2, OwnKept
    <2>3. CASE v = w /\ actor[w].pc = "idle"
      <3>1. PICK k \in Keys : TakeJob(w, k)
        BY <1>3, <2>3
        DEF HandlerSteps, Handles, ReadRow, DeferForPause, Refuse, GatesPass, DeferForCap,
            GiveUp, RequeueForPause, RequeueForCap, Claim, ClaimLost, Post, PostFails,
            RecordSent, RecordOutcome, FailForGood, Release, Return, Rethrow, SentMisread,
            Throw, Crash
      <3>2. actor'[w].key = k /\ Take(w, k)
        BY <1>0, <3>1, TakeJobEffect DEF TakeJob
      <3> QED
        BY <1>0, <2>3, <3>2, TakeEffect
    <2> QED
      BY <2>1, <2>2, <2>3
  <1>4. CASE ComposeSteps
    <2>1. actor' = actor /\ (live' = live \/ live' = Enqueued(Plain, 0))
      BY <1>4
      DEF ComposeSteps, Compose, ComposeAgain, ComposeSuppressed, Composes, ListBatch,
          EnqueueListed, CutCompose, queueVars
    <2> QED
      BY <1>0, <1>2, <2>1, EnqueuedKeeps
  <1>5. ASSUME NEW k \in Keys, Reclaim(k)
        PROVE  live'[actor'[v].key].st = "held" /\ live'[actor'[v].key].owner = v
    <2>1. Orphaned(k) /\ Reclaims(k) /\ actor' = actor
      BY <1>5 DEF Reclaim, Lapses, Happens
    <2>2. actor[v].key \in Keys \ {k}
      BY <1>2, <2>1 DEF Orphaned
    <2> QED
      BY <1>0, <1>2, <2>1, <2>2, ReclaimsEffect
  <1>6. CASE Passes \/ UNCHANGED vars
    BY <1>2, <1>6 DEF Passes, Tick, vars, queueVars
  <1>7. ASSUME NEW w \in Workers, NEW k \in Keys, TakeOver(w, k)
        PROVE  live'[actor'[v].key].st = "held" /\ live'[actor'[v].key].owner = v
    <2>1. Orphaned(k) /\ TakesOver(w, k)
      BY <1>7 DEF TakeOver, Lapses, Happens
    <2>2. CASE v = w
      BY <1>0, <1>7, <2>1, <2>2, TakeOverEffect, TakesOverEffect
    <2>3. CASE v # w
      <3>1. actor'[v] = actor[v]
        BY <1>0, <1>7, <2>3, TakeOverEffect DEF Stay
      <3>2. actor[v].key \in Keys \ {k}
        BY <1>2, <2>1, <3>1 DEF Orphaned
      <3> QED
        BY <1>0, <1>2, <2>1, <3>1, <3>2, TakesOverEffect
    <2> QED
      BY <2>2, <2>3
  <1>8. CASE WithdrawJobs
    <2>1. Withdraws /\ actor' = actor
      BY <1>8 DEF WithdrawJobs
    <2> QED
      BY <1>0, <1>2, <2>1, WithdrawsEffect
  <1> QED
    BY <1>3, <1>4, <1>5, <1>6, <1>7, <1>8 DEF Next, HandlerSteps, ComposeSteps

\* What the claim and the records write: only a release leaves a row to be sent.
LEMMA RecordingEffect ==
  ASSUME TypeOK, NEW w \in Workers, Claim(w) \/ Recording(w)
  PROVE  /\ row'.status \in Final \cup {"sending", "queued"}
         /\ row'.status = "queued" => Release(w) /\ ~row'.claimed
  <1>1. CASE Claim(w)
    BY <1>1 DEF Claim, TypeOK
  <1>2. CASE RecordSent(w)
    BY <1>2 DEF RecordSent, TypeOK, Final
  <1>3. CASE RecordOutcome(w)
    <2>1. row'.status = actor[w].pc /\ actor[w].pc \in {"unknown", "failed"}
      BY <1>3 DEF RecordOutcome, Writes, TypeOK
    <2> QED
      BY <2>1 DEF Final
  <1>4. CASE FailForGood(w)
    BY <1>4 DEF FailForGood, Writes, TypeOK, Final
  <1>5. CASE Release(w)
    BY <1>5 DEF Release, TypeOK
  <1> QED
    BY <1>1, <1>2, <1>3, <1>4, <1>5 DEF Recording

LEMMA GatingEffect ==
  ASSUME TypeOK, NEW w \in Workers, Gating(w)
  PROVE  /\ row'.status = IF DeferForPause(w) \/ DeferForCap(w) THEN "deferred"
                         ELSE IF Refuse(w) THEN "suppressed" ELSE "failed"
         /\ row'.claimed = row.claimed
         /\ row'.message = row.message
         /\ ~clobbered' => Actionable
  <1>1. ~clobbered' => Actionable
    BY DEF Gating, DeferForPause, Refuse, DeferForCap, GiveUp, GateWrites
  <1>2. CASE DeferForPause(w) \/ DeferForCap(w)
    BY <1>1, <1>2 DEF DeferForPause, DeferForCap, GateWrites, TypeOK
  <1>3. CASE Refuse(w) /\ ~DeferForPause(w) /\ ~DeferForCap(w)
    <2>1. row' = [row EXCEPT !.status = "suppressed"]
      BY <1>3 DEF Refuse, GateWrites
    <2> QED
      BY <1>1, <1>3, <2>1 DEF TypeOK
  <1>4. CASE GiveUp(w) /\ ~DeferForPause(w) /\ ~DeferForCap(w) /\ ~Refuse(w)
    <2>1. row' = [row EXCEPT !.status = "failed"]
      BY <1>4 DEF GiveUp, GateWrites
    <2> QED
      BY <1>1, <1>4, <2>1 DEF TypeOK
  <1> QED
    BY <1>2, <1>3, <1>4 DEF Gating

LEMMA UnstartedStep ==
  ASSUME Typed, Unstarted, [Next]_vars
  PROVE  Unstarted'
  <1>0. TypeOK
    BY DEF Typed
  <1>1. ASSUME NEW w \in Workers, HandlerSteps(w) PROVE row.status # "absent" /\ row'.status # "absent"
    <2>1. row.status # "absent"
      <3> SUFFICES ASSUME row.status = "absent" PROVE FALSE
        OBVIOUS
      <3>1. NoneLive /\ actor[w].pc = "idle"
        BY DEF Unstarted
      <3>2. PICK k \in Keys : TakeJob(w, k)
        BY <1>1, <3>1
        DEF HandlerSteps, Handles, ReadRow, DeferForPause, Refuse, GatesPass, DeferForCap,
            GiveUp, RequeueForPause, RequeueForCap, Claim, ClaimLost, Post, PostFails,
            RecordSent, RecordOutcome, FailForGood, Release, Return, Rethrow, SentMisread,
            Throw, Crash
      <3> QED
        BY <3>1, <3>2 DEF TakeJob, Take, NoneLive, Live
    <2>2. CASE Gating(w)
      BY <1>0, <2>1, <2>2, GatingEffect
    <2>3. CASE Claim(w) \/ Recording(w)
      BY <1>0, <2>1, <2>3, RecordingEffect DEF Final
    <2>4. CASE UNCHANGED row
      BY <2>1, <2>4
    <2> QED
      BY <1>1, <2>1, <2>2, <2>3, <2>4
      DEF HandlerSteps, Handles, Gating, Recording, ReadRow, GatesPass, RequeueForPause,
          RequeueForCap, Requeues, ClaimLost, Post, PostFails, SentMisread, Throw, Crash,
          Return, Rethrow, TakeJob
  <1>2. CASE ComposeSteps
    <2>1. CASE Compose \/ ComposeSuppressed
      BY <1>0, <2>1 DEF Compose, ComposeSuppressed, Writes, TypeOK, Unstarted
    <2>2. CASE ComposeAgain \/ Composes \/ CutCompose
      BY <1>0, <2>2
      DEF ComposeAgain, Composes, ListBatch, EnqueueListed, CutCompose, Unstarted
    <2> QED
      BY <1>2, <2>1, <2>2 DEF ComposeSteps
  <1>3. ASSUME NEW k \in Keys, Reclaim(k) PROVE Unstarted'
    <2>1. Live(k) /\ row' = row
      BY <1>3 DEF Reclaim, Reclaims, Live
    <2> QED
      BY <2>1 DEF Unstarted, NoneLive
  <1>4. CASE Passes \/ UNCHANGED vars
    BY <1>4 DEF Passes, Tick, vars, queueVars, Unstarted, NoneLive, Live
  <1>5. ASSUME NEW w \in Workers, NEW k \in Keys, TakeOver(w, k) PROVE Unstarted'
    <2>1. Live(k) /\ row' = row
      BY <1>5 DEF TakeOver, TakesOver, Live
    <2> QED
      BY <2>1 DEF Unstarted, NoneLive
  <1>6. CASE WithdrawJobs
    <2>1. \A k \in Keys : ~Live(k) => ~Live(k)'
      BY <1>0, <1>6, WithdrawsEffect DEF WithdrawJobs, TypeOK, Live
    <2> QED
      BY <1>6, <2>1 DEF WithdrawJobs, Unstarted, NoneLive
  <1> QED
    BY <1>1, <1>2, <1>3, <1>4, <1>5, <1>6 DEF Next, HandlerSteps, ComposeSteps, Unstarted

LEMMA UnclaimedStep ==
  ASSUME Typed, Unstarted, Unclaimed, [Next]_vars
  PROVE  Unclaimed'
  <1>0. TypeOK
    BY DEF Typed
  <1> SUFFICES ASSUME row'.status \in {"queued", "deferred"}, ~clobbered'
               PROVE  ~row'.claimed
    BY DEF Unclaimed, Actionable
  <1>1. ASSUME NEW w \in Workers, HandlerSteps(w) PROVE ~row'.claimed
    <2>0. ~clobbered
      BY <1>1, GhostsGrow
    <2>1. CASE Gating(w)
      <3>1. Actionable /\ row'.claimed = row.claimed
        BY <1>0, <2>1, GatingEffect
      <3> QED
        BY <2>0, <3>1 DEF Unclaimed
    <2>2. CASE Claim(w) \/ Recording(w)
      BY <1>0, <2>2, RecordingEffect DEF Final
    <2>3. CASE UNCHANGED row
      BY <2>0, <2>3 DEF Unclaimed, Actionable
    <2> QED
      BY <1>1, <2>1, <2>2, <2>3
      DEF HandlerSteps, Handles, Gating, Recording, ReadRow, GatesPass, RequeueForPause,
          RequeueForCap, Requeues, ClaimLost, Post, PostFails, SentMisread, Throw, Crash,
          Return, Rethrow, TakeJob
  <1>2. CASE ComposeSteps
    <2>1. CASE Compose \/ ComposeSuppressed
      BY <1>0, <2>1 DEF Compose, ComposeSuppressed, Writes, TypeOK, Unstarted, NoRow
    <2>2. CASE ComposeAgain \/ Composes \/ CutCompose
      BY <2>2
      DEF ComposeAgain, Composes, ListBatch, EnqueueListed, CutCompose, ghosts, Unclaimed,
          Actionable
    <2> QED
      BY <1>2, <2>1, <2>2 DEF ComposeSteps
  <1>3. CASE \/ \E k \in Keys : Reclaim(k)
             \/ TakeOvers \/ WithdrawJobs \/ Passes \/ UNCHANGED vars
    BY <1>3
    DEF Reclaim, TakeOvers, TakeOver, WithdrawJobs, Passes, vars, ghosts, Unclaimed, Actionable
  <1> QED
    BY <1>1, <1>2, <1>3 DEF Next, HandlerSteps, ComposeSteps, TakeOvers

LEMMA EndedGrows == ASSUME Typed, [Next]_vars PROVE ended \subseteq ended'
  <1>1. ASSUME NEW w \in Workers, HandlerSteps(w) PROVE ended \subseteq ended'
    <2>1. CASE Rethrow(w) \/ Throw(w)
      BY <2>1 DEF Rethrow, Throw, Fails, Again, WritesOff
    <2>2. CASE UNCHANGED ended
      BY <2>2
    <2> QED
      BY <1>1, <2>1, <2>2
      DEF HandlerSteps, Handles, ReadRow, DeferForPause, Refuse, GateWrites, GatesPass,
          DeferForCap, GiveUp, RequeueForPause, RequeueForCap, Requeues, Claim, ClaimLost,
          Post, PostFails, RecordSent, RecordOutcome, FailForGood, Release, Return, Completes,
          SentMisread, Crash, TakeJob, Take, queueVars
  <1>2. CASE ComposeSteps
    BY <1>2
    DEF ComposeSteps, Compose, ComposeAgain, ComposeSuppressed, Composes, ListBatch,
        EnqueueListed, CutCompose, queueVars
  <1>3. CASE \E k \in Keys : Reclaim(k)
    BY <1>3 DEF Reclaim, Reclaims, Again, HandsBack, WritesOff
  <1>4. CASE TakeOvers \/ WithdrawJobs \/ Passes \/ UNCHANGED vars
    BY <1>4
    DEF TakeOvers, TakeOver, TakesOver, WithdrawJobs, Withdraws, Passes, Tick, vars, queueVars
  <1> QED
    BY <1>1, <1>2, <1>3, <1>4 DEF Next, HandlerSteps, ComposeSteps, TakeOvers

\* A handler that has its key's row and is not about to complete it covers the
\* mail.
LEMMA HolderCovers ==
  ASSUME Typed', HandlersHold', "lapse" \notin mishaps', NEW w \in Workers,
         actor'[w].pc \notin {"idle", "return"}
  PROVE  CoveredJob'
  <1>1. PICK k \in Keys : /\ k = actor'[w].key
                          /\ live'[k].st = "held" /\ live'[k].owner = w
    BY DEF HandlersHold, Typed, HandlersHaveKeys
  <1>2. ~Returning(k)'
    BY <1>1 DEF Returning, HandlersHold
  <1> QED
    BY <1>1, <1>2 DEF CoveredJob, Live

LEMMA PendingCovers ==
  ASSUME HandlersHold', "lapse" \notin mishaps', NEW k \in Keys, live'[k].st = "pending"
  PROVE  CoveredJob'
  BY DEF CoveredJob, Live, Returning, HandlersHold

LEMMA ExcusedStays == ASSUME Typed, [Next]_vars, Excused PROVE Excused'
  <1>1. mishaps \subseteq mishaps' /\ ended \subseteq ended'
    BY MishapsGrow, EndedGrows
  <1>2. (clobbered => clobbered') /\ (dropped => dropped')
    <2>1. ASSUME NEW w \in Workers, HandlerSteps(w)
          PROVE  (clobbered => clobbered') /\ (dropped => dropped')
      BY <2>1, GhostsGrow
    <2>2. CASE ComposeSteps
      BY <2>2
      DEF ComposeSteps, Compose, ComposeAgain, ComposeSuppressed, Composes, ListBatch,
          EnqueueListed, CutCompose, ghosts
    <2>3. CASE \/ \E k \in Keys : Reclaim(k)
               \/ TakeOvers \/ WithdrawJobs \/ Passes \/ UNCHANGED vars
      BY <2>3 DEF Reclaim, TakeOvers, TakeOver, WithdrawJobs, Passes, vars, ghosts
    <2> QED
      BY <2>1, <2>2, <2>3 DEF Next, HandlerSteps, ComposeSteps, TakeOvers
  <1> QED
    BY <1>1, <1>2 DEF Excused

LEMMA CoveredStep ==
  ASSUME Typed, Typed', HandlersHold, HandlersHold', Unstarted, Unclaimed, Covered, [Next]_vars
  PROVE  Covered'
  <1>0. TypeOK /\ QueueTypeOK
    BY DEF Typed, TypeOK
  <1> SUFFICES ASSUME Actionable', ~row'.message, ~Excused' PROVE CoveredJob' \/ Fresh'
    BY DEF Covered
  <1>1. /\ ~Excused
        /\ "cut" \notin mishaps' /\ "lapse" \notin mishaps' /\ "lapse" \notin mishaps
        /\ ended' = {} /\ ~dropped' /\ ~clobbered'
    BY ExcusedStays DEF Excused
  <1>2. UNCHANGED row => CoveredJob \/ Fresh
    BY <1>1 DEF Covered, Actionable
  <1>3. \A v \in Workers : actor[v].pc # "idle" =>
          actor[v].key \in Keys /\ live[actor[v].key].owner = v /\ live[actor[v].key].st = "held"
    BY <1>1 DEF HandlersHold, Typed, HandlersHaveKeys
  <1>4. ASSUME NEW w \in Workers, HandlerSteps(w) PROVE CoveredJob' \/ Fresh'
    <2>1. CASE actor'[w].pc \notin {"idle", "return"}
      BY <1>1, <2>1, HolderCovers
    <2>2. CASE ReadRow(w) \/ Gating(w) \/ ClaimLost(w) \/ Recording(w)
      <3>1. CASE ReadRow(w)
        BY <1>0, <2>1, <3>1, ReadEffect DEF ReadRow, Actionable
      <3>2. CASE Gating(w)
        <4>1. row'.status = "deferred"
          BY <1>0, <3>2, GatingEffect DEF Actionable
        <4>2. DeferForPause(w) \/ DeferForCap(w)
          BY <1>0, <3>2, <4>1, GatingEffect
        <4> QED
          BY <1>0, <2>1, <4>2, DefersEffect
      <3>3. CASE ClaimLost(w)
        BY <1>1, <3>3 DEF ClaimLost, Claimable, Unclaimed, Actionable, ghosts
      <3>4. CASE Recording(w)
        <4>1. Release(w)
          BY <1>0, <3>4, RecordingEffect DEF Actionable, Final
        <4> QED
          BY <1>0, <2>1, <4>1, GoesEffect DEF Release
      <3> QED
        BY <2>2, <3>1, <3>2, <3>3, <3>4
    <2>3. CASE RequeueForPause(w) \/ RequeueForCap(w)
      <3>1. PICK k \in Keys : Requeues(w, k)
        <4>1. CASE RequeueForPause(w)
          <5>1. Bucket(actor[w].at) \in Keys
            BY <1>0, BucketType, DeferralKeysType DEF TypeOK, ActorRecord
          <5> QED
            BY <4>1, <5>1 DEF RequeueForPause
        <4>2. CASE RequeueForCap(w)
          <5>1. WindowKey(actor[w].at \div HalfHoursPerDay) \in Keys
            BY <4>2, DeferralKeysType DEF RequeueForCap, Typed, DeferralsHaveKeys
          <5> QED
            BY <4>2, <5>1 DEF RequeueForCap
        <4> QED
          BY <2>3, <4>1, <4>2
      <3>2. ~Live(k) /\ live' = Enqueued(k, actor[w].at)
        BY <1>1, <3>1 DEF Requeues
      <3>3. live'[k].st = "pending"
        BY <1>0, <3>2, EnqueuedFresh
      <3> QED
        BY <1>1, <3>3, PendingCovers
    <2>4. CASE Rethrow(w) \/ Throw(w)
      <3>1. actor[w].key \in Keys /\ Again(actor[w].key)
        BY <1>3, <2>4 DEF Rethrow, Throw, Fails
      <3>2. live'[actor[w].key].st = "pending"
        BY <1>0, <1>1, <3>1, AgainEffect
      <3> QED
        BY <1>1, <3>1, <3>2, PendingCovers
    <2>5. CASE Return(w) \/ Crash(w)
      <3>1. UNCHANGED row /\ actor[w].pc # "idle"
        BY <2>5 DEF Return, Crash
      <3>2. PICK k \in Keys : Live(k) /\ ~Returning(k)
        BY <1>2, <1>3, <3>1 DEF CoveredJob, Fresh, NoneLive, Live
      <3>3. Live(k)'
        <4>1. CASE Return(w)
          BY <1>4, <3>2, <4>1, LiveKept DEF Return, Returning
        <4>2. CASE Crash(w)
          BY <3>2, <4>2 DEF Crash, queueVars, Live
        <4> QED
          BY <2>5, <4>1, <4>2
      <3>4. ~Returning(k)'
        <4>1. actor'[w].pc = "idle" /\ Stay(w)
          BY <1>0, <2>5, RestsEffect DEF Return, Crash
        <4> QED
          BY <3>2, <4>1 DEF Returning, Stay
      <3> QED
        BY <3>3, <3>4 DEF CoveredJob
    <2>6. CASE \/ GatesPass(w) \/ Claim(w) \/ Post(w) \/ PostFails(w) \/ SentMisread(w)
               \/ \E k \in Keys : TakeJob(w, k)
      <3>1. actor'[w].pc \notin {"idle", "return"}
        BY <1>0, <2>6, GoesEffect, TakeJobEffect
        DEF GatesPass, Claim, Post, PostFails, SentMisread
      <3> QED
        BY <2>1, <3>1
    <2> QED
      BY <1>4, <2>2, <2>3, <2>4, <2>5, <2>6 DEF HandlerSteps, Handles, Gating, Recording
  <1>5. CASE ComposeSteps
    <2>1. CASE Compose
      BY <1>0, <2>1
      DEF Compose, Writes, TypeOK, Unstarted, Fresh, NoneLive, Live, queueVars
    <2>2. CASE ComposeSuppressed
      <3>1. row'.status = "suppressed"
        BY <1>0, <2>2 DEF ComposeSuppressed, Writes, TypeOK
      <3> QED
        BY <3>1 DEF Actionable
    <2>3. CASE ComposeAgain \/ ListBatch
      BY <1>2, <2>3
      DEF ComposeAgain, ListBatch, CoveredJob, Fresh, NoneLive, Live, Returning, queueVars
    <2>4. CASE EnqueueListed
      <3>1. UNCHANGED <<row, actor>> /\ live' = Enqueued(Plain, 0) /\ Plain \in Keys
        BY <2>4, PlainType, DeferralKeysType DEF EnqueueListed
      <3>2. CASE CoveredJob
        <4>1. \A k \in Keys : Live(k) => live'[k] = live[k]
          BY <1>0, <3>1, EnqueuedKeeps
        <4> QED
          BY <3>1, <3>2, <4>1 DEF CoveredJob, Live, Returning
      <3>3. CASE Fresh
        <4>1. live'[Plain].st = "pending"
          BY <1>0, <3>1, <3>3, EnqueuedFresh DEF Fresh, NoneLive
        <4> QED
          BY <1>1, <3>1, <4>1, PendingCovers
      <3> QED
        BY <1>2, <3>1, <3>2, <3>3
    <2>5. CASE CutCompose
      BY <1>1, <2>5 DEF CutCompose, Happens
    <2> QED
      BY <1>5, <2>1, <2>2, <2>3, <2>4, <2>5 DEF ComposeSteps, Composes
  <1>6. ASSUME NEW k \in Keys, Reclaim(k) PROVE CoveredJob' \/ Fresh'
    <2>1. live'[k].st = "pending"
      BY <1>0, <1>1, <1>6, ReclaimsEffect DEF Reclaim
    <2> QED
      BY <1>1, <2>1, PendingCovers
  <1>7. CASE Passes \/ UNCHANGED vars
    BY <1>2, <1>7
    DEF Passes, Tick, vars, queueVars, CoveredJob, Fresh, NoneLive, Live, Returning
  <1>8. ASSUME NEW w \in Workers, NEW k \in Keys, TakeOver(w, k) PROVE CoveredJob' \/ Fresh'
    <2>1. actor'[w].pc = "read"
      BY <1>0, <1>8, TakeOverEffect
    <2> QED
      BY <1>1, <2>1, HolderCovers
  <1>9. ~WithdrawJobs
    BY <1>1 DEF WithdrawJobs, Withdraws
  <1> QED
    BY <1>4, <1>5, <1>6, <1>7, <1>8, <1>9 DEF Next, HandlerSteps, ComposeSteps

\* Short of the causes that ForgottenOnlyBy names, a composed mail that is still
\* to be sent always has a job, a handler or a compose at work on it; it takes
\* neither fairness nor any bound on retries, deferrals or handlers.
THEOREM NoneForgotten == Spec => []ForgottenOnlyBy
  <1>1. Init => HandlersHold /\ Unstarted /\ Unclaimed /\ Covered
    BY DEF Init, QueueInit, HandlersHold, Unstarted, Unclaimed, Covered, Resting, NoRow,
           Actionable, NoneLive, Live, NoJob
  <1>2. Covered => ForgottenOnlyBy
    BY DEF Covered, ForgottenOnlyBy, Forgotten, CoveredJob, Fresh, Excused
  <1> QED
    BY <1>1, <1>2, AlwaysTyped, HandlersHoldStep, UnstartedStep, UnclaimedStep, CoveredStep,
       PTL DEF Spec

-----------------------------------------------------------------------------
(* The queue keeps its contract.  A handler's step is seen when it takes a  *)
(* row and when it is over: it decides what becomes of the row if the row   *)
(* is still its own, and leaves without a trace otherwise.                  *)

\* A step that leaves the rows, and each handler idle or at its key.
LEMMA Unseen ==
  ASSUME UNCHANGED live,
         \A w \in Workers :
           (actor'[w].pc = "idle" <=> actor[w].pc = "idle") /\ actor'[w].key = actor[w].key
  PROVE  UNCHANGED Contract!vars
  <1>1. HandlerTask' = HandlerTask
    BY DEF HandlerTask
  <1>2. KeyPhase' = KeyPhase /\ KeyHolder' = KeyHolder
    BY DEF KeyPhase, KeyHolder, PhaseOf
  <1> QED
    BY <1>1, <1>2 DEF Contract!vars, Contract!jobs

LEMMA EnqueueSeen ==
  ASSUME Typed, OwnedIsHeld, NEW k, NEW t, live' = Enqueued(k, t),
         \A w \in Workers :
           (actor'[w].pc = "idle" <=> actor[w].pc = "idle") /\ actor'[w].key = actor[w].key
  PROVE  OwnedIsHeld' /\ [Contract!Next]_(Contract!vars)
  <1>1. HandlerTask' = HandlerTask
    BY DEF HandlerTask
  <1>2. /\ OwnedIsHeld' /\ KeyHolder' = KeyHolder
        /\ \/ KeyPhase' = KeyPhase
           \/ \E j \in Keys : /\ KeyPhase[j] = "ended"
                             /\ KeyPhase' = [KeyPhase EXCEPT ![j] = "waiting"]
    BY EnqueuedSeen DEF Typed, TypeOK
  <1>3. CASE KeyPhase' = KeyPhase
    BY <1>1, <1>2, <1>3 DEF Contract!vars, Contract!jobs
  <1>4. ASSUME NEW j \in Keys, KeyPhase[j] = "ended",
               KeyPhase' = [KeyPhase EXCEPT ![j] = "waiting"]
        PROVE  Contract!Replay(j)
    BY <1>1, <1>2, <1>4 DEF Contract!Replay
  <1> QED
    BY <1>2, <1>3, <1>4 DEF Contract!Next

LEMMA TakeJobDelivers ==
  ASSUME Typed, OwnedIsHeld, NEW w \in Workers, NEW k \in Keys, TakeJob(w, k)
  PROVE  OwnedIsHeld' /\ Contract!Deliver(w, k)
  <1>1. actor[w].pc = "idle" /\ Take(w, k)
    BY DEF TakeJob, Begins
  <1>2. actor'[w].pc = "read" /\ actor'[w].key = k /\ Stay(w)
    BY TakeJobEffect DEF Typed
  <1>3. HandlerTask[w].pc = "idle"
    BY <1>1 DEF HandlerTask
  <1>4. HandlerTask' = [HandlerTask EXCEPT ![w] = [pc |-> "running", job |-> k]]
    BY <1>2 DEF HandlerTask, Stay
  <1> QED
    BY <1>1, <1>3, <1>4, TakeSeen DEF Typed, TypeOK, Contract!Deliver

\* A handler that is over without a write of its row.
LEMMA HandlerQuits ==
  ASSUME Typed, NEW w \in Workers, actor' = [actor EXCEPT ![w] = Resting], live' = live
  PROVE  Contract!Quit
  <1>1. actor'[w].pc = "idle" /\ Stay(w)
    BY RestsEffect DEF Typed
  <1>2. HandlerTask' = [v \in Workers |-> IF v \in {w} THEN Contract!Free ELSE HandlerTask[v]]
    BY <1>1 DEF HandlerTask, Stay, Contract!Free
  <1>3. KeyPhase' = KeyPhase /\ KeyHolder' = KeyHolder
    BY DEF KeyPhase, KeyHolder, PhaseOf
  <1>4. {w} \in SUBSET Workers
    OBVIOUS
  <1> QED
    BY <1>2, <1>3, <1>4 DEF Contract!Quit, Contract!jobs

LEMMA HandlerFinishes ==
  ASSUME Typed, OwnedIsHeld, NEW w \in Workers, actor[w].pc # "idle",
         actor' = [actor EXCEPT ![w] = Resting],
         Completes(w, actor[w].key) \/ Fails(w, actor[w].key)
  PROVE  OwnedIsHeld' /\ (Contract!Finish(w) \/ Contract!Quit)
  <1> DEFINE k == actor[w].key
  <1>0. QueueTypeOK /\ TypeOK /\ k \in Keys
    BY DEF Typed, TypeOK, HandlersHaveKeys
  <1>1. CASE live[k].owner # w
    <2>1. live' = live
      BY <1>1 DEF Completes, Fails
    <2> QED
      BY <2>1, HandlerQuits DEF OwnedIsHeld
  <1>2. CASE live[k].owner = w
    <2>1. actor'[w].pc = "idle" /\ Stay(w)
      BY <1>0, RestsEffect
    <2>2. HandlerTask[w].pc = "running" /\ HandlerTask[w].job = k
      BY DEF HandlerTask
    <2>3. HandlerTask' = [HandlerTask EXCEPT ![w] = Contract!Free]
      BY <2>1 DEF HandlerTask, Stay, Contract!Free
    <2>4. KeyHolder[k] = w
      BY <1>0, <1>2, PhaseCases
    <2>5. /\ OwnedIsHeld'
          /\ \E ph \in {"waiting", "ended"} : KeyPhase' = [KeyPhase EXCEPT ![k] = ph]
          /\ KeyHolder' = [KeyHolder EXCEPT ![k] = None]
      BY <1>0, <1>2, AgainSeen, CompletesSeen DEF Fails
    <2>6. Contract!Finish(w)
      BY <2>2, <2>3, <2>4, <2>5, Zenon DEF Contract!Finish
    <2> QED
      BY <2>5, <2>6
  <1> QED
    BY <1>1, <1>2

LEMMA TakeOverDelivers ==
  ASSUME Typed, OwnedIsHeld, NEW w \in Workers, NEW k \in Keys, TakeOver(w, k)
  PROVE  OwnedIsHeld' /\ Contract!Deliver(w, k)
  <1>1. TypeOK /\ QueueTypeOK /\ TakesOver(w, k)
    BY DEF TakeOver, Typed, TypeOK
  <1>2. /\ actor[w].pc = "idle"
        /\ actor'[w].pc = "read" /\ actor'[w].key = k /\ Stay(w)
    BY <1>1, TakeOverEffect
  <1>3. HandlerTask[w].pc = "idle"
    BY <1>2 DEF HandlerTask
  <1>4. HandlerTask' = [HandlerTask EXCEPT ![w] = [pc |-> "running", job |-> k]]
    BY <1>2 DEF HandlerTask, Stay
  <1> QED
    BY <1>1, <1>3, <1>4, TakesOverSeen DEF Contract!Deliver

LEMMA ReclaimTakesBack ==
  ASSUME Typed, OwnedIsHeld, NEW k \in Keys, Reclaim(k)
  PROVE  OwnedIsHeld' /\ Contract!TakeBack
  <1>0. QueueTypeOK /\ Reclaims(k)
    BY DEF Reclaim, Typed, TypeOK
  <1>1. HandlerTask' = HandlerTask
    BY DEF Reclaim, HandlerTask
  <1>2. /\ OwnedIsHeld'
        /\ KeyPhase[k] = "held"
        /\ KeyHolder' = [KeyHolder EXCEPT ![k] = None]
    BY <1>0, ReclaimsSeen
  <1>3. PICK ph \in {"waiting", "ended"} : KeyPhase' = [KeyPhase EXCEPT ![k] = ph]
    BY <1>0, ReclaimsSeen
  <1>4. KeyPhase \in [Keys -> Contract!Phases]
    <2>1. KeyPhase = [j \in Keys |-> KeyPhase[j]]
      BY DEF KeyPhase
    <2> QED
      BY <1>0, <2>1, PhaseCases DEF Contract!Phases
  <1>5. KeyHolder \in [Keys -> Workers \cup {None}]
    BY <1>0 DEF KeyHolder, QueueTypeOK, Job
  <1> QED
    BY <1>1, <1>2, <1>3, <1>4, <1>5 DEF Contract!TakeBack, Contract!Phases

LEMMA WithdrawalWithdraws ==
  ASSUME Typed, OwnedIsHeld, WithdrawJobs
  PROVE  OwnedIsHeld' /\ Contract!Withdraw
  <1>1. HandlerTask' = HandlerTask
    BY DEF WithdrawJobs, HandlerTask
  <1> QED
    BY <1>1, WithdrawsSeen DEF WithdrawJobs, Typed, TypeOK, Contract!Withdraw

LEMMA KeptInit == ASSUME Init PROVE OwnedIsHeld /\ Contract!InitEmptied
  <1>1. live = [k \in Keys |-> NoJob] /\ actor = [w \in Workers |-> Resting]
    BY DEF Init, QueueInit
  <1>2. KeyPhase = [k \in Keys |-> "ended"] /\ KeyHolder = [k \in Keys |-> None]
    BY <1>1 DEF KeyPhase, KeyHolder, PhaseOf, NoJob
  <1>3. HandlerTask = [w \in Workers |-> Contract!Free]
    BY <1>1 DEF HandlerTask, Resting, Contract!Free
  <1>4. OwnedIsHeld
    BY <1>1 DEF OwnedIsHeld, NoJob
  <1> QED
    BY <1>2, <1>3, <1>4 DEF Contract!InitEmptied

LEMMA KeptStep ==
  ASSUME Typed, OwnedIsHeld, [Next]_vars
  PROVE  OwnedIsHeld' /\ [Contract!Next]_(Contract!vars)
  <1>0. TypeOK
    BY DEF Typed
  <1> DEFINE Goal == OwnedIsHeld' /\ [Contract!Next]_(Contract!vars)
  <1>1. ASSUME NEW w \in Workers, HandlerSteps(w) PROVE Goal
    <2>1. CASE RequeueForPause(w) \/ RequeueForCap(w)
      <3>1. PICK k : live' = Enqueued(k, actor[w].at)
        BY <2>1 DEF RequeueForPause, RequeueForCap, Requeues
      <3>2. \A v \in Workers : /\ actor'[v].pc = "idle" <=> actor[v].pc = "idle"
                               /\ actor'[v].key = actor[v].key
        BY <1>0, <2>1, EndsEffect DEF RequeueForPause, RequeueForCap, Requeues, Stay
      <3> QED
        BY <3>1, <3>2, EnqueueSeen
    <2>2. CASE Return(w) \/ Rethrow(w) \/ Throw(w)
      <3>1. OwnedIsHeld' /\ (Contract!Finish(w) \/ Contract!Quit)
        BY <2>2, HandlerFinishes DEF Return, Rethrow, Throw
      <3> QED
        BY <3>1 DEF Contract!Next
    <2>3. CASE Crash(w)
      <3>1. live' = live /\ Contract!Quit
        BY <2>3, HandlerQuits DEF Crash, queueVars
      <3> QED
        BY <3>1 DEF Contract!Next, OwnedIsHeld
    <2>4. ASSUME NEW k \in Keys, TakeJob(w, k) PROVE Goal
      BY <2>4, TakeJobDelivers DEF Contract!Next
    <2>5. CASE \/ ReadRow(w) \/ Gating(w) \/ GatesPass(w) \/ Claim(w) \/ ClaimLost(w)
               \/ Post(w) \/ PostFails(w) \/ Recording(w) \/ SentMisread(w)
      <3>1. UNCHANGED live
        BY <2>5
        DEF ReadRow, Gating, DeferForPause, DeferForCap, Refuse, GiveUp, GateWrites,
            GatesPass, Claim, ClaimLost, Post, PostFails, Recording, RecordSent,
            RecordOutcome, FailForGood, Release, SentMisread, queueVars
      <3>2. /\ actor[w].pc # "idle" /\ actor'[w].pc # "idle"
            /\ actor'[w].key = actor[w].key /\ Stay(w)
        <4>1. CASE ReadRow(w)
          BY <1>0, <4>1, ReadEffect DEF ReadRow
        <4>2. CASE Gating(w)
          BY <1>0, <4>2, DefersEffect, EndsEffect
          DEF Gating, DeferForPause, DeferForCap, Refuse, GiveUp
        <4>3. CASE ~ReadRow(w) /\ ~Gating(w)
          BY <1>0, <2>5, <4>3, GoesEffect, EndsEffect
          DEF GatesPass, Claim, ClaimLost, Post, PostFails, Recording, RecordSent,
              RecordOutcome, FailForGood, Release, SentMisread
        <4> QED
          BY <4>1, <4>2, <4>3
      <3> QED
        BY <3>1, <3>2, Unseen DEF Stay, OwnedIsHeld
    <2> QED
      BY <1>1, <2>1, <2>2, <2>3, <2>4, <2>5 DEF HandlerSteps, Handles, Gating, Recording
  <1>2. CASE ComposeSteps
    <2>1. actor' = actor /\ (live' = live \/ live' = Enqueued(Plain, 0))
      BY <1>2
      DEF ComposeSteps, Compose, ComposeAgain, ComposeSuppressed, Composes, ListBatch,
          EnqueueListed, CutCompose, queueVars
    <2> QED
      BY <2>1, Unseen, EnqueueSeen DEF OwnedIsHeld
  <1>3. ASSUME NEW k \in Keys, Reclaim(k) PROVE Goal
    BY <1>3, ReclaimTakesBack DEF Contract!Next
  <1>4. CASE Passes \/ UNCHANGED vars
    BY <1>4, Unseen DEF Passes, Tick, vars, queueVars, OwnedIsHeld
  <1>5. ASSUME NEW w \in Workers, NEW k \in Keys, TakeOver(w, k) PROVE Goal
    BY <1>5, TakeOverDelivers DEF Contract!Next
  <1>6. CASE WithdrawJobs
    BY <1>6, WithdrawalWithdraws DEF Contract!Next
  <1> QED
    BY <1>1, <1>2, <1>3, <1>4, <1>5, <1>6 DEF Next, HandlerSteps, ComposeSteps

\* The rows that the send handler and the compose share with the queue go through
\* the phases of JobContract, the contract that WorkQueue is proved to implement:
\* a handler that comes back after its lease never decides a row that is not its
\* own, be it the row it was given or a later one under the same key.
THEOREM HandlersKeepContract == Spec => QueueKept
  BY KeptInit, KeptStep, AlwaysTyped, PTL DEF Spec, QueueKept, Contract!SpecEmptied
==============================================================================
