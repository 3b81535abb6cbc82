-------------------------- MODULE DedupeQueue_proofs --------------------------
(***************************************************************************)
(* Machine-checked lemmas about DedupeQueue, for any keys, workers and     *)
(* attempts, cited by the proofs of EmailSequence and OutboundEmail.       *)
(***************************************************************************)
EXTENDS DedupeQueue, TLAPS

-----------------------------------------------------------------------------
(* Types.                                                                  *)

LEMMA NoJobType == NoJob \in Job
  BY QueueAssumption DEF NoJob, Job

LEMMA QueueInitType == QueueInit => QueueTypeOK
  BY NoJobType, QueueAssumption DEF QueueInit, QueueTypeOK

\* The key of an enqueue need not be one of Keys: then nothing is enqueued.
LEMMA EnqueuedType ==
  ASSUME QueueTypeOK, NEW k, NEW t \in 0 .. LastHalfHour + 1
  PROVE  Enqueued(k, t) \in [Keys -> Job]
  <1>1. [NoJob EXCEPT !.st = "pending", !.due = t] \in Job
    BY NoJobType DEF Job
  <1> QED
    BY <1>1 DEF Enqueued, QueueTypeOK

\* What the two rewriters of a live row make of it.
LEMMA HeldType ==
  ASSUME NEW r \in Job, NEW w \in Workers
  PROVE  [r EXCEPT !.st = "held", !.owner = w, !.due = 0] \in Job
  <1>1. 0 \in 0 .. LastHalfHour + 1
    BY QueueAssumption
  <1> QED
    BY <1>1 DEF Job

LEMMA RetriedType ==
  ASSUME NEW r \in Job, r.attempts + 1 < MaxAttempts
  PROVE  [r EXCEPT !.st = "pending", !.owner = None, !.attempts = r.attempts + 1] \in Job
  <1>1. r.attempts + 1 \in 0 .. MaxAttempts - 1
    BY QueueAssumption DEF Job
  <1> QED
    BY <1>1 DEF Job

LEMMA TakeType ==
  ASSUME QueueTypeOK, NEW w \in Workers, NEW k \in Keys, Take(w, k)
  PROVE  QueueTypeOK'
  <1>1. [live[k] EXCEPT !.st = "held", !.owner = w, !.due = 0] \in Job
    BY HeldType DEF QueueTypeOK
  <1>2. live' = [live EXCEPT ![k] = [live[k] EXCEPT !.st = "held", !.owner = w, !.due = 0]]
    BY DEF Take, QueueTypeOK, Job
  <1> QED
    BY <1>1, <1>2 DEF Take, QueueTypeOK

LEMMA AgainType ==
  ASSUME QueueTypeOK, NEW k \in Keys, Again(k)
  PROVE  live' \in [Keys -> Job] /\ ended' \subseteq Keys
  <1>1. CASE live[k].attempts + 1 < MaxAttempts
    <2>1. [live[k] EXCEPT !.st = "pending", !.owner = None,
                          !.attempts = live[k].attempts + 1] \in Job
      BY <1>1, RetriedType DEF QueueTypeOK
    <2>2. live' = [live EXCEPT ![k] = [live[k] EXCEPT !.st = "pending", !.owner = None,
                                            !.attempts = live[k].attempts + 1]]
      BY <1>1 DEF Again, QueueTypeOK, Job
    <2> QED
      BY <1>1, <2>1, <2>2 DEF Again, QueueTypeOK
  <1>2. CASE ~(live[k].attempts + 1 < MaxAttempts)
    BY <1>2, NoJobType DEF Again, WritesOff, QueueTypeOK
  <1> QED
    BY <1>1, <1>2

LEMMA CompletesType ==
  ASSUME QueueTypeOK, NEW w, NEW k, Completes(w, k)
  PROVE  QueueTypeOK'
  BY NoJobType DEF Completes, QueueTypeOK

LEMMA FailsType ==
  ASSUME QueueTypeOK, NEW w, NEW k \in Keys, Fails(w, k)
  PROVE  QueueTypeOK'
  BY AgainType DEF Fails, QueueTypeOK

LEMMA ReclaimsType ==
  ASSUME QueueTypeOK, NEW k \in Keys, Reclaims(k)
  PROVE  QueueTypeOK'
  <1>1. live' \in [Keys -> Job] /\ ended' \subseteq Keys
    <2>1. CASE Again(k)
      BY <2>1, AgainType
    <2>2. CASE HandsBack(k)
      <3>1. [live[k] EXCEPT !.st = "pending", !.owner = None] \in Job
        BY DEF QueueTypeOK, Job
      <3>2. live' = [live EXCEPT ![k] = [live[k] EXCEPT !.st = "pending", !.owner = None]]
        BY <2>2 DEF HandsBack, QueueTypeOK, Job
      <3> QED
        BY <2>2, <3>1, <3>2 DEF HandsBack, QueueTypeOK
    <2>3. CASE WritesOff(k)
      BY <2>3, NoJobType DEF WritesOff, QueueTypeOK
    <2> QED
      BY <2>1, <2>2, <2>3 DEF Reclaims
  <1> QED
    BY <1>1 DEF Reclaims, QueueTypeOK

LEMMA TakesOverType ==
  ASSUME QueueTypeOK, NEW w \in Workers, NEW k \in Keys, TakesOver(w, k)
  PROVE  QueueTypeOK'
  <1>1. [live[k] EXCEPT !.owner = w] \in Job
    BY DEF QueueTypeOK, Job
  <1>2. live' = [live EXCEPT ![k] = [live[k] EXCEPT !.owner = w]]
    BY DEF TakesOver, QueueTypeOK, Job
  <1> QED
    BY <1>1, <1>2 DEF TakesOver, QueueTypeOK

LEMMA WithdrawsType ==
  ASSUME QueueTypeOK, Withdraws
  PROVE  QueueTypeOK'
  BY NoJobType DEF Withdraws, QueueTypeOK

LEMMA TickType ==
  ASSUME QueueTypeOK, Tick
  PROVE  QueueTypeOK'
  BY QueueAssumption DEF Tick, QueueTypeOK

LEMMA BucketType == \A at \in 0 .. LastHalfHour + 1 : Bucket(at) \in Buckets
  BY QueueAssumption DEF Bucket, Buckets

LEMMA PlainType == Plain \in Buckets
  BY QueueAssumption DEF Plain, Bucket, Buckets

-----------------------------------------------------------------------------
(* What an operation leaves of the rows of other keys, and of its own.     *)

\* An enqueue under a key that has no live row leaves a pending one.
LEMMA EnqueuedFresh ==
  ASSUME QueueTypeOK, NEW k \in Keys, NEW t, ~Live(k), live' = Enqueued(k, t)
  PROVE  /\ live'[k].st = "pending"
         /\ live'[k].attempts = 0
         /\ \A j \in Keys \ {k} : live'[j] = live[j]
  BY DEF Enqueued, QueueTypeOK, NoJob

\* No enqueue touches a row that is live.
LEMMA EnqueuedKeeps ==
  ASSUME QueueTypeOK, NEW k, NEW t, live' = Enqueued(k, t), NEW j \in Keys, Live(j)
  PROVE  live'[j] = live[j]
  BY DEF Enqueued, QueueTypeOK, Live

LEMMA TakeEffect ==
  ASSUME QueueTypeOK, NEW w \in Workers, NEW k \in Keys, Take(w, k)
  PROVE  /\ live'[k].st = "held"
         /\ live'[k].owner = w
         /\ live'[k].attempts = live[k].attempts
         /\ \A j \in Keys \ {k} : live'[j] = live[j]
  BY DEF Take, QueueTypeOK, Job

LEMMA AgainEffect ==
  ASSUME QueueTypeOK, NEW k \in Keys, Again(k)
  PROVE  /\ \A j \in Keys \ {k} : live'[j] = live[j]
         /\ ended \subseteq ended'
         /\ k \notin ended' => live'[k].st = "pending"
         /\ live'[k].st \in {"pending", "absent"}
         /\ live'[k].owner = None
         /\ ended' \subseteq ended \cup {k}
  BY DEF Again, WritesOff, QueueTypeOK, Job, NoJob

\* The same of a row that is taken back in whatever way.
LEMMA ReclaimsEffect ==
  ASSUME QueueTypeOK, NEW k \in Keys, Reclaims(k)
  PROVE  /\ \A j \in Keys \ {k} : live'[j] = live[j]
         /\ ended \subseteq ended'
         /\ k \notin ended' => live'[k].st = "pending"
         /\ live'[k].st \in {"pending", "absent"}
         /\ live'[k].owner = None
         /\ ended' \subseteq ended \cup {k}
  <1>1. CASE Again(k)
    BY <1>1, AgainEffect
  <1>2. CASE HandsBack(k)
    BY <1>2 DEF HandsBack, QueueTypeOK, Job
  <1>3. CASE WritesOff(k)
    BY <1>3 DEF WritesOff, QueueTypeOK, NoJob
  <1> QED
    BY <1>1, <1>2, <1>3 DEF Reclaims

LEMMA TakesOverEffect ==
  ASSUME QueueTypeOK, NEW w \in Workers, NEW k \in Keys, TakesOver(w, k)
  PROVE  /\ live[k].st = "held"
         /\ live'[k].st = "held"
         /\ live'[k].owner = w
         /\ \A j \in Keys \ {k} : live'[j] = live[j]
         /\ UNCHANGED ended
  BY DEF TakesOver, QueueTypeOK, Job

\* A row that is withdrawn waited.
LEMMA WithdrawsEffect ==
  ASSUME QueueTypeOK, Withdraws, NEW k \in Keys
  PROVE  /\ \/ live'[k] = live[k]
            \/ live[k].st = "pending" /\ live'[k] = NoJob /\ k \in ended'
         /\ ended \subseteq ended'
  BY DEF Withdraws, QueueTypeOK

LEMMA CompletesEffect ==
  ASSUME QueueTypeOK, NEW w, NEW k \in Keys, Completes(w, k)
  PROVE  /\ \A j \in Keys \ {k} : live'[j] = live[j]
         /\ live[k].owner # w => live' = live
  BY DEF Completes, QueueTypeOK

\* An enqueue changes at most the row of its key, and only one that is not live.
LEMMA EnqueuedEffect ==
  ASSUME QueueTypeOK, NEW k, NEW t, live' = Enqueued(k, t), NEW j \in Keys
  PROVE  \/ live'[j] = live[j]
         \/ /\ j = k /\ ~Live(j)
            /\ live'[j].st = "pending" /\ live'[j].owner = None /\ live'[j].attempts = 0
  BY DEF Enqueued, QueueTypeOK, Live, NoJob

LEMMA CompletesLeaves ==
  ASSUME QueueTypeOK, NEW w, NEW k \in Keys, Completes(w, k), live[k].owner = w
  PROVE  live'[k] = NoJob
  BY DEF Completes, QueueTypeOK

-----------------------------------------------------------------------------
(* What JobContract sees of an operation.                                  *)

OwnedIsHeld == \A k \in Keys : live[k].st # "held" => live[k].owner = None

LEMMA PhaseCases ==
  ASSUME QueueTypeOK, NEW k \in Keys
  PROVE  /\ live[k].st = "absent" => KeyPhase[k] = "ended"
         /\ live[k].st = "pending" => KeyPhase[k] = "waiting"
         /\ live[k].st = "held" => KeyPhase[k] = "held"
         /\ KeyPhase[k] \in {"waiting", "held", "ended"}
         /\ KeyHolder[k] = live[k].owner
  BY DEF QueueTypeOK, Job, KeyPhase, KeyHolder, PhaseOf

\* A row that has changed under one key, and no other.
LEMMA OneKeySeen ==
  ASSUME QueueTypeOK, NEW k \in Keys, \A j \in Keys \ {k} : live'[j] = live[j],
         NEW ph, PhaseOf(k)' = ph, NEW w, live'[k].owner = w
  PROVE  /\ KeyPhase' = [KeyPhase EXCEPT ![k] = ph]
         /\ KeyHolder' = [KeyHolder EXCEPT ![k] = w]
  <1>1. \A j \in Keys \ {k} : PhaseOf(j)' = PhaseOf(j)
    BY DEF PhaseOf
  <1>2. KeyPhase' = [KeyPhase EXCEPT ![k] = ph]
    BY <1>1 DEF KeyPhase
  <1>3. KeyHolder' = [KeyHolder EXCEPT ![k] = w]
    BY DEF KeyHolder
  <1> QED
    BY <1>2, <1>3

LEMMA EnqueuedSeen ==
  ASSUME QueueTypeOK, OwnedIsHeld, NEW k, NEW t, live' = Enqueued(k, t)
  PROVE  /\ OwnedIsHeld'
         /\ KeyHolder' = KeyHolder
         /\ \/ KeyPhase' = KeyPhase
            \/ \E j \in Keys : /\ KeyPhase[j] = "ended"
                              /\ KeyPhase' = [KeyPhase EXCEPT ![j] = "waiting"]
  <1>1. CASE live' = live
    BY <1>1 DEF OwnedIsHeld, KeyHolder, KeyPhase, PhaseOf
  <1>2. CASE k \in Keys /\ ~Live(k)
    <2>1. /\ live[k].st = "absent" /\ live[k].owner = None
          /\ live'[k].st = "pending" /\ live'[k].owner = None
          /\ \A j \in Keys \ {k} : live'[j] = live[j]
      BY <1>2 DEF Live, OwnedIsHeld, Enqueued, QueueTypeOK, NoJob
    <2>2. KeyHolder' = KeyHolder
      BY <2>1 DEF KeyHolder
    <2>3. PhaseOf(k)' = "waiting"
      BY <2>1 DEF PhaseOf
    <2> QED
      BY <1>2, <2>1, <2>2, <2>3, PhaseCases, OneKeySeen DEF OwnedIsHeld
  <1>3. CASE k \notin Keys
    BY <1>1, <1>3 DEF Enqueued, QueueTypeOK
  <1> QED
    BY <1>1, <1>2, <1>3 DEF Enqueued

LEMMA TakeSeen ==
  ASSUME QueueTypeOK, OwnedIsHeld, NEW w \in Workers, NEW k \in Keys, Take(w, k)
  PROVE  /\ OwnedIsHeld'
         /\ KeyPhase[k] = "waiting"
         /\ KeyPhase' = [KeyPhase EXCEPT ![k] = "held"]
         /\ KeyHolder' = [KeyHolder EXCEPT ![k] = w]
  <1>1. PhaseOf(k)' = "held"
    BY TakeEffect DEF PhaseOf
  <1>2. live[k].st = "pending"
    BY DEF Take
  <1>3. OwnedIsHeld'
    BY TakeEffect DEF OwnedIsHeld
  <1> QED
    BY <1>1, <1>2, <1>3, TakeEffect, OneKeySeen, PhaseCases

\* A row that is no longer its holder's: it waits again or has ended.
LEMMA TakenBackSeen ==
  ASSUME QueueTypeOK, OwnedIsHeld, NEW k \in Keys, \A j \in Keys \ {k} : live'[j] = live[j],
         live'[k].st \in {"pending", "absent"}, live'[k].owner = None
  PROVE  /\ OwnedIsHeld'
         /\ \E ph \in {"waiting", "ended"} : KeyPhase' = [KeyPhase EXCEPT ![k] = ph]
         /\ KeyHolder' = [KeyHolder EXCEPT ![k] = None]
  <1>1. PhaseOf(k)' \in {"waiting", "ended"}
    BY DEF PhaseOf
  <1> QED
    BY <1>1, OneKeySeen DEF OwnedIsHeld

LEMMA AgainSeen ==
  ASSUME QueueTypeOK, OwnedIsHeld, NEW k \in Keys, Again(k)
  PROVE  /\ OwnedIsHeld'
         /\ \E ph \in {"waiting", "ended"} : KeyPhase' = [KeyPhase EXCEPT ![k] = ph]
         /\ KeyHolder' = [KeyHolder EXCEPT ![k] = None]
  BY AgainEffect, TakenBackSeen

LEMMA ReclaimsSeen ==
  ASSUME QueueTypeOK, OwnedIsHeld, NEW k \in Keys, Reclaims(k)
  PROVE  /\ OwnedIsHeld'
         /\ KeyPhase[k] = "held"
         /\ \E ph \in {"waiting", "ended"} : KeyPhase' = [KeyPhase EXCEPT ![k] = ph]
         /\ KeyHolder' = [KeyHolder EXCEPT ![k] = None]
  BY ReclaimsEffect, TakenBackSeen, PhaseCases DEF Reclaims

LEMMA TakesOverSeen ==
  ASSUME QueueTypeOK, OwnedIsHeld, NEW w \in Workers, NEW k \in Keys, TakesOver(w, k)
  PROVE  /\ OwnedIsHeld'
         /\ KeyPhase[k] = "held"
         /\ KeyPhase' = [KeyPhase EXCEPT ![k] = "held"]
         /\ KeyHolder' = [KeyHolder EXCEPT ![k] = w]
  <1>1. PhaseOf(k)' = "held"
    BY TakesOverEffect DEF PhaseOf
  <1>2. OwnedIsHeld'
    BY TakesOverEffect DEF OwnedIsHeld
  <1> QED
    BY <1>1, <1>2, TakesOverEffect, OneKeySeen, PhaseCases

LEMMA WithdrawsSeen ==
  ASSUME QueueTypeOK, OwnedIsHeld, Withdraws
  PROVE  /\ OwnedIsHeld'
         /\ \E K \in SUBSET {k \in Keys : KeyPhase[k] = "waiting"} :
              KeyPhase' = [k \in Keys |-> IF k \in K THEN "ended" ELSE KeyPhase[k]]
         /\ KeyHolder' = KeyHolder
  <1> DEFINE K == {k \in Keys : live'[k] # live[k]}
  <1>1. \A k \in K : /\ live[k].st = "pending" /\ live[k].owner = None
                     /\ live'[k].st = "absent" /\ live'[k].owner = None
    BY WithdrawsEffect DEF OwnedIsHeld, NoJob
  <1>2. \A k \in Keys \ K : live'[k] = live[k]
    OBVIOUS
  <1>3. KeyHolder' = KeyHolder
    BY <1>1, <1>2 DEF KeyHolder
  <1>4. K \in SUBSET {k \in Keys : KeyPhase[k] = "waiting"}
    BY <1>1, PhaseCases
  <1>5. ASSUME NEW k \in Keys
        PROVE  PhaseOf(k)' = IF k \in K THEN "ended" ELSE PhaseOf(k)
    <2>1. CASE k \in K
      <3>1. live'[k].st = "absent"
        BY <1>1, <2>1
      <3> QED
        BY <2>1, <3>1 DEF PhaseOf
    <2>2. CASE k \notin K
      <3>1. live'[k] = live[k]
        BY <2>2
      <3>2. PhaseOf(k)' = PhaseOf(k)
        BY <3>1 DEF PhaseOf
      <3> QED
        BY <2>2, <3>2
    <2> QED
      BY <2>1, <2>2
  <1>6. KeyPhase' = [k \in Keys |-> IF k \in K THEN "ended" ELSE KeyPhase[k]]
    BY <1>5 DEF KeyPhase
  <1>7. OwnedIsHeld'
    BY <1>1, <1>2 DEF OwnedIsHeld
  <1> HIDE DEF K
  <1> QED
    BY <1>3, <1>4, <1>6, <1>7

LEMMA CompletesSeen ==
  ASSUME QueueTypeOK, OwnedIsHeld, NEW w, NEW k \in Keys, Completes(w, k),
         live[k].owner = w
  PROVE  /\ OwnedIsHeld'
         /\ KeyPhase' = [KeyPhase EXCEPT ![k] = "ended"]
         /\ KeyHolder' = [KeyHolder EXCEPT ![k] = None]
  <1>1. PhaseOf(k)' = "ended" /\ live'[k].owner = None
    BY CompletesLeaves DEF PhaseOf, NoJob
  <1> QED
    BY <1>1, CompletesEffect, OneKeySeen DEF OwnedIsHeld
==============================================================================
