---------------------------- MODULE OutboundEmail ----------------------------
(***************************************************************************)
(* One outbound email: its row in the send log, the compose that inserts   *)
(* it and enqueues its job, the queue handler with its gates, the dispatch *)
(* claim, the vendor's answers and the writes that record them.            *)
(*                                                                         *)
(* Sends share the kill switch, the suppression list and the sender's      *)
(* daily count.  None of them is kept: each is read once by a handler and  *)
(* may be anything when it is read.                                        *)
(***************************************************************************)
EXTENDS DedupeQueue, FiniteSets

CONSTANTS
  HalfHoursPerDay,  \* 48; the days of the cap windows
  MaxDeferrals,     \* MAX_DEFERRALS, 14
  Faults,           \* what may happen in this instance of the model
  MaxMishaps,       \* bound: kinds of fault in a behaviour
  Recurring         \* bound: whether a fault may happen again

FaultKinds == {"crash", "cut", "dberror", "lapse", "withdraw", "pause", "cap",
               "fallback", "refuse", "repost"}

\* The keys of window deferrals follow those of pause deferrals.
Windows == 1 .. LastHalfHour \div HalfHoursPerDay
WindowKey(d) == Bucket(LastHalfHour + 1) + d

ASSUME OutboundAssumption ==
  /\ HalfHoursPerDay \in Nat \ {0}
  /\ MaxDeferrals \in Nat
  /\ Keys = Buckets \cup {WindowKey(d) : d \in Windows}
  /\ Faults \subseteq FaultKinds
  /\ MaxMishaps \in Nat
  /\ Recurring \in BOOLEAN

VARIABLES
  row,        \* the send: status, has a message id, has a claim, deferred_count
  compose,    \* where a composeOutboundEmails call is
  actor,      \* where each handler is
  posted,     \* ghost: vendor calls that may have delivered it (2: or more)
  clobbered,  \* ghost: a gate wrote over a row that had been claimed
  misread,    \* ghost: a failed write was taken for a failed send
  dropped,    \* ghost: a deferral found its own key taken
  mishaps     \* bound and ghost: the faults that have happened

ghosts == <<posted, clobbered, misread, dropped, mishaps>>
vars == <<queueVars, row, compose, actor, ghosts>>

NoRow == [status |-> "absent", message |-> FALSE, claimed |-> FALSE, deferrals |-> 0]

\* at: what the handler defers to.
Resting == [pc |-> "idle", key |-> None, attempts |-> 0, deferrals |-> 0, at |-> 0]

Final == {"sent", "unknown", "failed", "suppressed"}
Actionable == row.status \in {"queued", "deferred"}

Goes(w, pc) == actor' = [actor EXCEPT ![w].pc = pc]
Ends(w) ==
  actor' = [actor EXCEPT ![w] = [Resting EXCEPT !.pc = "return", !.key = actor[w].key]]

\* updateOutboundEmail: by id, whatever the row's status.
Writes(status) == row' = [row EXCEPT !.status = status]

\* Bound: so many kinds of fault in a behaviour, each once unless faults recur.
Happens(fault) ==
  /\ fault \in Faults
  /\ fault \in mishaps => Recurring
  /\ Cardinality(mishaps \cup {fault}) <= MaxMishaps
  /\ mishaps' = mishaps \cup {fault}

-----------------------------------------------------------------------------
(* composeOutboundEmails.                                                  *)

Compose ==
  /\ compose = "idle"
  /\ row.status = "absent"
  /\ compose' = "list"
  /\ Writes("queued")
  /\ UNCHANGED <<queueVars, actor, ghosts>>

\* The same batch again, whose row exists and is left as it is.
ComposeAgain ==
  /\ Happens("repost")
  /\ compose = "idle"
  /\ row.status # "absent"
  /\ compose' = "list"
  /\ UNCHANGED <<queueVars, row, actor, posted, clobbered, misread, dropped>>

ComposeSuppressed ==
  /\ "refuse" \in Faults
  /\ compose = "idle"
  /\ row.status = "absent"
  /\ Writes("suppressed")
  /\ UNCHANGED <<queueVars, compose, actor, ghosts>>

\* "previously inserted rows whose job vanished (heal path)" included.
ListBatch ==
  /\ compose = "list"
  /\ compose' = IF row.status = "queued" THEN "enqueue" ELSE "idle"
  /\ UNCHANGED <<queueVars, row, actor, ghosts>>

EnqueueListed ==
  /\ compose = "enqueue"
  /\ compose' = "idle"
  /\ live' = Enqueued(Plain, 0)
  /\ UNCHANGED <<now, ended, row, actor, ghosts>>

-----------------------------------------------------------------------------
(* handleOutboundEmailSend.                                                *)

Begins(w, k) ==
  /\ actor[w].pc = "idle"
  /\ actor' = [actor EXCEPT ![w] = [Resting EXCEPT !.pc = "read", !.key = k,
                                                   !.attempts = live[k].attempts]]

TakeJob(w, k) ==
  /\ Take(w, k)
  /\ Begins(w, k)
  /\ UNCHANGED <<row, compose, ghosts>>

\* The replay gate.  The rest of the handler goes by this reading of the row.
ReadRow(w) ==
  /\ actor[w].pc = "read"
  /\ IF Actionable
       THEN actor' = [actor EXCEPT ![w].pc = "gates", ![w].deferrals = row.deferrals]
       ELSE Ends(w)
  /\ UNCHANGED <<queueVars, row, compose, ghosts>>

\* A write of a gate: it does not look at the row again.
GateWrites(w, r) ==
  /\ row' = r
  /\ clobbered' = (clobbered \/ ~Actionable)
  /\ UNCHANGED <<queueVars, compose, posted, misread, dropped, mishaps>>

\* Bound: the switch is off in the last half hour.
Paused == "pause" \in Faults /\ now < LastHalfHour

DeferForPause(w) ==
  /\ actor[w].pc = "gates"
  /\ Paused
  /\ GateWrites(w, [row EXCEPT !.status = "deferred"])
  /\ actor' = [actor EXCEPT ![w].pc = "requeue_pause", ![w].at = ResumeAt]

\* The recipient is suppressed.  A sender without an active mailbox ends the row
\* in the same way, as blocked_no_mailbox.
Refuse(w) ==
  /\ actor[w].pc = "gates"
  /\ "refuse" \in Faults
  /\ GateWrites(w, [row EXCEPT !.status = "suppressed"])
  /\ Ends(w)

\* Below the cap: the sender's own mailbox.  At the cap: the fallback lane.
GatesPass(w) ==
  /\ actor[w].pc = "gates"
  /\ \/ Goes(w, "claim_front")
     \/ {"cap", "fallback"} \subseteq Faults /\ Goes(w, "claim_sendgrid")
  /\ UNCHANGED <<queueVars, row, compose, ghosts>>

\* At the cap without the fallback: the next day's window, so many times.
\* Bound: the cap is not reached on the last day.
Today == now \div HalfHoursPerDay
AtCap == "cap" \in Faults /\ Today + 1 \in Windows

\* Mutant: nothing limits the deferrals.
DeferForCapAgain(w) ==
  /\ actor[w].pc = "gates"
  /\ AtCap
  /\ GateWrites(w, [row EXCEPT !.status = "deferred",
                               !.deferrals = actor[w].deferrals + 1])
  /\ actor' = [actor EXCEPT ![w].pc = "requeue_window",
                            ![w].at = (Today + 1) * HalfHoursPerDay]

DeferForCap(w) ==
  /\ actor[w].pc = "gates"
  /\ AtCap
  /\ actor[w].deferrals < MaxDeferrals
  /\ GateWrites(w, [row EXCEPT !.status = "deferred",
                               !.deferrals = actor[w].deferrals + 1])
  /\ actor' = [actor EXCEPT ![w].pc = "requeue_window",
                            ![w].at = (Today + 1) * HalfHoursPerDay]

GiveUp(w) ==
  /\ actor[w].pc = "gates"
  /\ AtCap
  /\ actor[w].deferrals >= MaxDeferrals
  /\ GateWrites(w, [row EXCEPT !.status = "failed"])
  /\ Ends(w)

\* The second write of a deferral.  The job being handled is itself still live.
Requeues(w, k) ==
  /\ live' = Enqueued(k, actor[w].at)
  /\ dropped' = (dropped \/ Live(k))
  /\ Ends(w)
  /\ UNCHANGED <<now, ended, row, compose, posted, clobbered, misread, mishaps>>

RequeueForPause(w) ==
  /\ actor[w].pc = "requeue_pause"
  /\ Requeues(w, Bucket(actor[w].at))

RequeueForCap(w) ==
  /\ actor[w].pc = "requeue_window"
  /\ Requeues(w, WindowKey(actor[w].at \div HalfHoursPerDay))

-----------------------------------------------------------------------------
(* claimOutboundEmailDispatch, the vendor call, and what is made of its    *)
(* answer.                                                                 *)

\* Mutant: the claim does not look at the status.
ClaimableAnyway == ~row.message

\* A claim that was not released may be older than ten minutes or not.
Claimable == Actionable /\ ~row.message

Claim(w) ==
  /\ actor[w].pc \in {"claim_front", "claim_sendgrid"}
  /\ Claimable
  /\ row' = [row EXCEPT !.status = "sending", !.claimed = TRUE]
  /\ Goes(w, IF actor[w].pc = "claim_front" THEN "front" ELSE "sendgrid")
  /\ UNCHANGED <<queueVars, compose, ghosts>>

\* Already sent, in flight or not claimable: never sent again by this call.
ClaimLost(w) ==
  /\ actor[w].pc \in {"claim_front", "claim_sendgrid"}
  /\ ~Claimable \/ row.claimed
  /\ Ends(w)
  /\ UNCHANGED <<queueVars, row, compose, ghosts>>

\* Accepted, or nobody knows.
Post(w) ==
  /\ actor[w].pc \in {"front", "sendgrid"}
  /\ posted' = IF posted = 0 THEN 1 ELSE 2
  /\ \/ Goes(w, IF actor[w].pc = "front" THEN "sent_front" ELSE "sent")
     \/ Goes(w, "unknown")
  /\ UNCHANGED <<queueVars, row, compose, clobbered, misread, dropped, mishaps>>

\* Rejected, or never reached the vendor.
PostFails(w) ==
  /\ actor[w].pc \in {"front", "sendgrid"}
  /\ Goes(w, "failed") \/ Goes(w, "unsent")
  /\ UNCHANGED <<queueVars, row, compose, ghosts>>

RecordSent(w) ==
  /\ actor[w].pc \in {"sent_front", "sent"}
  /\ row' = [row EXCEPT !.status = "sent", !.message = TRUE]
  /\ Ends(w)
  /\ UNCHANGED <<queueVars, compose, ghosts>>

\* The write of a sent mail throws inside the try of sendViaFrontChannel: the
\* catch takes it for a failure before the send.
SentMisread(w) ==
  /\ Happens("dberror")
  /\ actor[w].pc = "sent_front"
  /\ misread' = TRUE
  /\ Goes(w, "unsent")
  /\ UNCHANGED <<queueVars, row, compose, posted, clobbered, dropped>>

\* Mutant: an unknown outcome is not recorded.
RecordFailure(w) ==
  /\ actor[w].pc \in {"unknown", "failed"}
  /\ row' = IF actor[w].pc = "failed" THEN [row EXCEPT !.status = "failed"] ELSE row
  /\ Ends(w)
  /\ UNCHANGED <<queueVars, compose, ghosts>>

RecordOutcome(w) ==
  /\ actor[w].pc \in {"unknown", "failed"}
  /\ Writes(actor[w].pc)
  /\ Ends(w)
  /\ UNCHANGED <<queueVars, compose, ghosts>>

\* handleDefinitivePreSendFailure, by the attempts the job had when taken.
LastAttempt(w) == actor[w].attempts + 1 >= MaxAttempts

FailForGood(w) ==
  /\ actor[w].pc = "unsent"
  /\ LastAttempt(w)
  /\ Writes("failed")
  /\ Ends(w)
  /\ UNCHANGED <<queueVars, compose, ghosts>>

\* Mutant: the handler returns as if the mail were sent.
ReleaseQuietly(w) ==
  /\ actor[w].pc = "unsent"
  /\ ~LastAttempt(w)
  /\ row' = [row EXCEPT !.status = "queued", !.claimed = FALSE]
  /\ Ends(w)
  /\ UNCHANGED <<queueVars, compose, ghosts>>

Release(w) ==
  /\ actor[w].pc = "unsent"
  /\ ~LastAttempt(w)
  /\ row' = [row EXCEPT !.status = "queued", !.claimed = FALSE]
  /\ Goes(w, "throw")
  /\ UNCHANGED <<queueVars, compose, ghosts>>

-----------------------------------------------------------------------------
(* Back to the queue, and what comes from outside.                         *)

Return(w) ==
  /\ actor[w].pc = "return"
  /\ Completes(w, actor[w].key)
  /\ actor' = [actor EXCEPT ![w] = Resting]
  /\ UNCHANGED <<row, compose, ghosts>>

Rethrow(w) ==
  /\ actor[w].pc = "throw"
  /\ Fails(w, actor[w].key)
  /\ actor' = [actor EXCEPT ![w] = Resting]
  /\ UNCHANGED <<row, compose, ghosts>>

\* A statement of the handler throws, outside the try.
Throw(w) ==
  /\ Happens("dberror")
  /\ actor[w].pc \notin {"idle", "return", "throw", "sent_front"}
  /\ Fails(w, actor[w].key)
  /\ actor' = [actor EXCEPT ![w] = Resting]
  /\ UNCHANGED <<row, compose, posted, clobbered, misread, dropped>>

Crash(w) ==
  /\ Happens("crash")
  /\ actor[w].pc # "idle"
  /\ actor' = [actor EXCEPT ![w] = Resting]
  /\ UNCHANGED <<queueVars, row, compose, posted, clobbered, misread, dropped>>

\* A compose is cut off, by a crash or a statement that throws.
CutCompose ==
  /\ Happens("cut")
  /\ compose # "idle"
  /\ compose' = "idle"
  /\ UNCHANGED <<queueVars, row, actor, posted, clobbered, misread, dropped>>

Orphaned(k) == \A w \in Workers : actor[w].key # k

\* The lease of a handler that is gone ends, or that of one still at work.
Lapses(k) ==
  \/ Orphaned(k) /\ UNCHANGED mishaps
  \/ ~Orphaned(k) /\ Happens("lapse")

Reclaim(k) ==
  /\ Reclaims(k)
  /\ Lapses(k)
  /\ UNCHANGED <<row, compose, actor, posted, clobbered, misread, dropped>>

TakeOver(w, k) ==
  /\ TakesOver(w, k)
  /\ Lapses(k)
  /\ Begins(w, k)
  /\ UNCHANGED <<row, compose, posted, clobbered, misread, dropped>>

\* cancelPendingJobs of the queue.
WithdrawJobs ==
  /\ Happens("withdraw")
  /\ Withdraws
  /\ UNCHANGED <<row, compose, actor, posted, clobbered, misread, dropped>>

Passes ==
  /\ Tick
  /\ UNCHANGED <<row, compose, actor, ghosts>>

-----------------------------------------------------------------------------

Init ==
  /\ QueueInit
  /\ row = NoRow
  /\ compose = "idle"
  /\ actor = [w \in Workers |-> Resting]
  /\ posted = 0
  /\ clobbered = FALSE
  /\ misread = FALSE
  /\ dropped = FALSE
  /\ mishaps = {}

\* The next step of a handler that is running.
Handles(w) ==
  \/ ReadRow(w) \/ DeferForPause(w) \/ Refuse(w) \/ GatesPass(w)
  \/ DeferForCap(w) \/ GiveUp(w) \/ RequeueForPause(w) \/ RequeueForCap(w)
  \/ Claim(w) \/ ClaimLost(w) \/ Post(w) \/ PostFails(w)
  \/ RecordSent(w) \/ RecordOutcome(w) \/ FailForGood(w) \/ Release(w)
  \/ Return(w) \/ Rethrow(w)

Composes == ListBatch \/ EnqueueListed

Next ==
  \/ Compose \/ ComposeAgain \/ ComposeSuppressed \/ Composes \/ CutCompose
  \/ \E w \in Workers :
       Handles(w) \/ SentMisread(w) \/ Throw(w) \/ Crash(w)
         \/ \E k \in Keys : TakeJob(w, k) \/ TakeOver(w, k)
  \/ \E k \in Keys : Reclaim(k)
  \/ WithdrawJobs \/ Passes

Spec == Init /\ [][Next]_vars

\* A handler's promises settle, the queue is polled, its sweep runs, time passes.
Fairness ==
  /\ WF_vars(Composes)
  /\ \A w \in Workers : WF_vars(Handles(w))
  /\ WF_vars(\E w \in Workers, k \in Keys : TakeJob(w, k))
  /\ WF_vars(\E k \in Keys : Orphaned(k) /\ Reclaim(k))
  /\ WF_vars(Passes)

FairSpec == Spec /\ Fairness

-----------------------------------------------------------------------------
(* Properties.                                                             *)

ActorRecord ==
  [pc : {"idle", "read", "gates", "requeue_pause", "requeue_window",
         "claim_front", "claim_sendgrid", "front", "sendgrid", "sent_front",
         "sent", "unknown", "failed", "unsent", "throw", "return"},
   key : Keys \cup {None},
   attempts : 0 .. MaxAttempts - 1,
   deferrals : 0 .. MaxDeferrals,
   at : 0 .. LastHalfHour + 1]

\* Every variable has its type.
TypeOK ==
  /\ QueueTypeOK
  /\ row \in [status : Final \cup {"absent", "queued", "deferred", "sending"},
              message : BOOLEAN,
              claimed : BOOLEAN,
              deferrals : 0 .. MaxDeferrals]
  /\ compose \in {"idle", "list", "enqueue"}
  /\ actor \in [Workers -> ActorRecord]
  /\ posted \in 0 .. 2
  /\ clobbered \in BOOLEAN
  /\ misread \in BOOLEAN
  /\ dropped \in BOOLEAN
  /\ mishaps \subseteq Faults

\* "the claim is the at-most-once boundary": whatever is retried, at most one
\* call that may have delivered the mail is made.
AtMostOnce == posted <= 1

\* What the claim really gives: a second delivery takes a write that does not
\* look at the row again, of a gate over a claimed row or of the catch that
\* takes a failed write for a failed send.
SentOnceUnless == ~clobbered /\ ~misread => AtMostOnce

Handling == \E w \in Workers : actor[w].pc \notin {"idle", "return"}

\* A mail that is still to be sent, with no job, handler or compose to do it.
\* Nothing looks for such rows, and a second compose only for queued ones.
Forgotten ==
  /\ Actionable
  /\ ~row.message
  /\ ~Handling
  /\ compose = "idle"
  /\ \A k \in Keys : ~Live(k)

\* It takes a compose that was cut off, a handler that outlived its lease, a job
\* that used up its attempts or was cancelled, a deferral refused by its own
\* job's key, or a gate that wrote over a claimed row.
ForgottenOnlyBy ==
  Forgotten => mishaps \cap {"cut", "lapse"} # {} \/ ended # {} \/ dropped \/ clobbered

\* What a row says of a finished mail stays, unless a gate wrote over a claimed row.
RecordStays ==
  row.status \in Final => row'.status = row.status \/ clobbered'

OutcomeIsFinal == [][RecordStays]_vars

\* The queue as JobContract has it: a key is a job, a handler an execution.
HandlerTask ==
  [w \in Workers |->
     IF actor[w].pc = "idle"
       THEN [pc |-> "idle", job |-> None]
       ELSE [pc |-> "running", job |-> actor[w].key]]

Contract ==
  INSTANCE JobContract
    WITH Jobs  <- Keys,
         Execs <- Workers,
         phase <- KeyPhase,
         cur   <- KeyHolder,
         task  <- HandlerTask

\* Whatever a handler does, the queue under it keeps the contract that WorkQueue
\* implements: a handler that outlived its lease decides nothing of its row, not
\* even when it comes back to find the key taken by a later row.
QueueKept == Contract!SpecEmptied

\* Every mail that is composed comes to a recorded end, whatever was paused,
\* capped, retried or composed again, and through a crash or an error before
\* the claim: it takes one of the causes above, or a handler cut off between
\* the claim and the record, to keep it from one.
CutOff == row.status = "sending" /\ mishaps \cap {"crash", "dberror"} # {}

EverySendSettles ==
  row.status \in {"queued", "deferred", "sending"}
    ~> \/ row.status \in Final
       \/ mishaps \cap {"cut", "lapse"} # {} \/ ended # {} \/ dropped \/ clobbered
       \/ CutOff
==============================================================================
