---------------------------- MODULE EmailSequence ----------------------------
(***************************************************************************)
(* One run of an email sequence: the enrollment of one recipient, the      *)
(* queue handler that drafts each step, the approval or rejection of a     *)
(* draft by a user or by the handler itself, the cancellation by a reply   *)
(* or an unsubscribe, the kill switch, and the hand-over to the outbound   *)
(* mail seam.                                                              *)
(*                                                                         *)
(* Enrollments share nothing but the switch and the queue, and every key   *)
(* and record names its enrollment: one of them is modelled.  A later      *)
(* enrollment of the same recipient is another row with other keys.        *)
(*                                                                         *)
(* Every statement commits on its own, the transaction of a cancellation   *)
(* apart; the steps of an actor are what lies between two awaits.  Reads   *)
(* that nothing the model changes could come in between are one step.      *)
(***************************************************************************)
EXTENDS DedupeQueue, FiniteSets

CONSTANTS
  Steps,      \* the number of steps of the sequence
  Users,      \* requests of the approval queue's users
  AutoSend,   \* auto_send_enabled of the sequence
  Faults,     \* what may happen in this instance of the model
  MaxMishaps, \* bound: kinds of fault in a behaviour
  Recurring   \* bound: whether a fault may happen again

FaultKinds == {"crash", "throw", "lapse", "withdraw", "pause", "cancel", "suppress"}

Order == 1 .. Steps

\* email_seq_step:<enrollment>:<step>, with or without :paused:<hour>.
ASSUME SequenceAssumption ==
  /\ Steps \in Nat \ {0}
  /\ Keys = Order \X Buckets
  /\ AutoSend \in BOOLEAN
  /\ Workers \cap Users = {}
  /\ Faults \subseteq FaultKinds
  /\ MaxMishaps \in Nat
  /\ Recurring \in BOOLEAN

VARIABLES
  enrollment,  \* status and currentStepOrder
  send,        \* the claim ledger: the record of each step
  mail,        \* the outbound row of each step
  suppressed,  \* the recipient is on the suppression list
  actor,       \* where each worker and each user's request is
  recovered,   \* ghost: steps composed by a second approval
  dropped,     \* ghost: a deferral found its own key taken
  mishaps      \* bound and ghost: the faults that have happened

records == <<enrollment, send, mail>>
ghosts == <<recovered, dropped, mishaps>>
vars == <<queueVars, records, suppressed, actor, ghosts>>

Actors == Workers \cup Users

Resting == [pc |-> "idle", step |-> 0, from |-> 0, key |-> None]

Active == enrollment.status = "active"
Pending(s) == send[s].status \in {"draft", "render_failed"}
Unlinked(s) == send[s].status = "approved" /\ ~send[s].linked

Goes(a, pc) == actor' = [actor EXCEPT ![a].pc = pc]

\* A handler returns to the queue; a request is answered.
Ends(a) ==
  actor' = [actor EXCEPT ![a] =
              [Resting EXCEPT !.pc = IF a \in Workers THEN "return" ELSE "idle",
                              !.key = actor[a].key]]

-----------------------------------------------------------------------------
(* What the storage layer writes.                                          *)

\* cancelEnrollmentAndPendingStepSends, one transaction.
Cancelled ==
  /\ enrollment' = IF Active THEN [enrollment EXCEPT !.status = "cancelled"]
                             ELSE enrollment
  /\ send' = IF Active
               THEN [s \in Order |->
                       IF Pending(s) THEN [send[s] EXCEPT !.status = "cancelled"]
                                     ELSE send[s]]
               ELSE send

\* Mutant: not a compare-and-set.
CasSendBlind(s, from, status) == send' = [send EXCEPT ![s].status = status]

\* casUpdateStepSend: what becomes of the record of step s, if it is in from.
CasSend(s, from, status) ==
  send' = IF send[s].status \in from
            THEN [send EXCEPT ![s].status = status]
            ELSE send

\* Mutant: the compare-and-set does not look at the status.
AdvancesFromAny(a) == enrollment.cur = actor[a].from

\* The where clause of casAdvanceEnrollment.
Advances(a) == Active /\ enrollment.cur = actor[a].from

\* Mutant: a status the schema does not have.
AdvanceToDone(s) ==
  enrollment' = [status |-> IF s = Steps THEN "done" ELSE "active", cur |-> s]

\* Step s is decided: the next one is awaited, if there is one.
AdvanceTo(s) ==
  enrollment' = [status |-> IF s = Steps THEN "completed" ELSE "active",
                 cur |-> s]

-----------------------------------------------------------------------------
(* Enrolling.  insertEnrollmentIfAbsent and the enqueue are two writes.    *)

Enroll(u) ==
  /\ enrollment.status = "absent"
  /\ actor[u].pc = "idle"
  /\ ~suppressed
  /\ enrollment' = [status |-> "active", cur |-> 0]
  /\ actor' = [actor EXCEPT ![u] = [Resting EXCEPT !.pc = "enqueue", !.step = 1]]
  /\ UNCHANGED <<queueVars, send, mail, suppressed, ghosts>>

\* scheduleStepJob of the step after an enrollment or a rejection, ...  The
\* delay of a step may be any: its job may be taken at once or much later.
EnqueueStep(a) ==
  /\ actor[a].pc = "enqueue"
  /\ live' = Enqueued(<<actor[a].step, Plain>>, 0)
  /\ Ends(a)
  /\ UNCHANGED <<now, ended, records, suppressed, ghosts>>

\* Mutant: schedules the step that was just approved.
EnqueueSame(a) ==
  /\ actor[a].pc = "enqueue_next"
  /\ live' = Enqueued(<<actor[a].step, Plain>>, 0)
  /\ Goes(a, "compose")
  /\ UNCHANGED <<now, ended, records, suppressed, ghosts>>

\* ... and of the step after an approval, which goes on to compose.
EnqueueNext(a) ==
  /\ actor[a].pc = "enqueue_next"
  /\ live' = Enqueued(<<actor[a].step + 1, Plain>>, 0)
  /\ Goes(a, "compose")
  /\ UNCHANGED <<now, ended, records, suppressed, ghosts>>

-----------------------------------------------------------------------------
(* handleEmailSequenceStepJob.                                             *)

Begins(w, k) ==
  /\ actor[w].pc = "idle"
  /\ actor' = [actor EXCEPT ![w] = [Resting EXCEPT !.pc = "gate", !.step = k[1],
                                                   !.key = k]]

TakeJob(w, k) ==
  /\ Take(w, k)
  /\ Begins(w, k)
  /\ UNCHANGED <<records, suppressed, ghosts>>

\* The job is for the step the enrollment waits for.
Actionable(w) == Active /\ enrollment.cur + 1 = actor[w].step

Gate(w) ==
  /\ actor[w].pc = "gate"
  /\ IF Actionable(w) THEN Goes(w, "checks") ELSE Ends(w)
  /\ UNCHANGED <<queueVars, records, suppressed, ghosts>>

\* email_sequences_paused, or the sequence's own pause: somebody may flip either
\* at any time and each handler reads them once, so they are not kept but may
\* be set at any read.  Bound: not in the last half hour.
Paused == "pause" \in Faults /\ now < LastHalfHour

\* deferStep.  The job being handled is itself still live.
Defer(w) ==
  LET k == <<actor[w].step, Bucket(ResumeAt)>> IN
  /\ actor[w].pc = "checks"
  /\ Paused
  /\ live' = Enqueued(k, ResumeAt)
  /\ dropped' = (dropped \/ Live(k))
  /\ Ends(w)
  /\ UNCHANGED <<now, ended, records, suppressed, recovered, mishaps>>

\* A suppressed recipient.  An archived sequence and a client who became a
\* customer end the run in the same way; that is Cancel followed by Gate.
CancelInstead(w) ==
  /\ actor[w].pc = "checks"
  /\ suppressed
  /\ Cancelled
  /\ Ends(w)
  /\ UNCHANGED <<queueVars, mail, suppressed, ghosts>>

ChecksPass(w) ==
  /\ actor[w].pc = "checks"
  /\ ~suppressed
  /\ Goes(w, "claim")
  /\ UNCHANGED <<queueVars, records, suppressed, ghosts>>

\* insertStepSendIfAbsent.  The render may fail; a draft that is complete and
\* not personalised is approved at once if the sequence says so.
Claim(w) ==
  LET s == actor[w].step IN
  /\ actor[w].pc = "claim"
  /\ send[s].status = "none"
  /\ \/ /\ send' = [send EXCEPT ![s].status = "render_failed"]
        /\ Ends(w)
     \/ /\ send' = [send EXCEPT ![s].status = "draft"]
        /\ \/ Ends(w)
           \/ AutoSend /\ Goes(w, "read")
  /\ UNCHANGED <<queueVars, enrollment, mail, suppressed, ghosts>>

\* The record exists: a replay, whoever made it.
ClaimLost(w) ==
  /\ actor[w].pc = "claim"
  /\ send[actor[w].step].status # "none"
  /\ Ends(w)
  /\ UNCHANGED <<queueVars, records, suppressed, ghosts>>

Return(w) ==
  /\ actor[w].pc = "return"
  /\ Completes(w, actor[w].key)
  /\ actor' = [actor EXCEPT ![w] = Resting]
  /\ UNCHANGED <<records, suppressed, ghosts>>

-----------------------------------------------------------------------------
(* approveStepSend, of a user or of the handler that made the draft.       *)

\* The first read: a draft, or one approved that was never handed over.
Approving(a, s) ==
  /\ actor' = [actor EXCEPT ![a].step = s,
                            ![a].pc = IF Unlinked(s) THEN "compose" ELSE "check"]
  /\ recovered' = IF Unlinked(s) THEN recovered \cup {s} ELSE recovered
  /\ UNCHANGED <<queueVars, records, suppressed, dropped, mishaps>>

Approve(u, s) ==
  /\ actor[u].pc = "idle"
  /\ Unlinked(s) \/ send[s].status = "draft"
  /\ Approving(u, s)

AutoApprove(w) ==
  /\ actor[w].pc = "read"
  /\ Unlinked(actor[w].step) \/ send[actor[w].step].status = "draft"
  /\ Approving(w, actor[w].step)

AutoApproveLate(w) ==
  /\ actor[w].pc = "read"
  /\ ~Unlinked(actor[w].step) /\ send[actor[w].step].status # "draft"
  /\ Ends(w)
  /\ UNCHANGED <<queueVars, records, suppressed, ghosts>>

\* The enrollment has ended: the draft goes with it.
CheckEnded(a) ==
  /\ actor[a].pc = "check"
  /\ ~Active
  /\ CasSend(actor[a].step, {"draft"}, "cancelled")
  /\ Ends(a)
  /\ UNCHANGED <<queueVars, enrollment, mail, suppressed, ghosts>>

CheckSuppressed(a) ==
  /\ actor[a].pc = "check"
  /\ Active
  /\ suppressed
  /\ Cancelled
  /\ Ends(a)
  /\ UNCHANGED <<queueVars, mail, suppressed, ghosts>>

\* What the advance will compare with is read here.
CheckPasses(a) ==
  /\ actor[a].pc = "check"
  /\ Active
  /\ ~suppressed
  /\ actor' = [actor EXCEPT ![a].pc = "approve", ![a].from = enrollment.cur]
  /\ UNCHANGED <<queueVars, records, suppressed, ghosts>>

ApproveSend(a) ==
  LET s == actor[a].step IN
  /\ actor[a].pc = "approve"
  /\ CasSend(s, {"draft"}, "approved")
  /\ IF send[s].status = "draft" THEN Goes(a, "advance") ELSE Ends(a)
  /\ UNCHANGED <<queueVars, enrollment, mail, suppressed, ghosts>>

\* The second compare-and-set, which authorises the send ...
Advance(a) ==
  LET s == actor[a].step IN
  /\ actor[a].pc = "advance"
  /\ Advances(a)
  /\ AdvanceTo(s)
  /\ actor' = [actor EXCEPT ![a].pc = IF s = Steps THEN "compose" ELSE "enqueue_next",
                            ![a].from = 0]
  /\ UNCHANGED <<queueVars, send, mail, suppressed, ghosts>>

\* Mutant: goes on as if the advance had been made.
AdvanceIgnored(a) ==
  /\ actor[a].pc = "advance"
  /\ ~Advances(a)
  /\ Goes(a, "compose")
  /\ UNCHANGED <<queueVars, records, suppressed, ghosts>>

\* ... or takes the approval back, one write later.
AdvanceLost(a) ==
  /\ actor[a].pc = "advance"
  /\ ~Advances(a)
  /\ Goes(a, "withdraw")
  /\ UNCHANGED <<queueVars, records, suppressed, ghosts>>

Withdraw(a) ==
  /\ actor[a].pc = "withdraw"
  /\ CasSend(actor[a].step, {"approved"}, "cancelled")
  /\ Ends(a)
  /\ UNCHANGED <<queueVars, enrollment, mail, suppressed, ghosts>>

\* composeOutboundEmails: the id of the row is derived from the step's record,
\* and a row that exists is left as it is.
Composed(s) ==
  mail' = IF mail[s] # "none" THEN mail
          ELSE [mail EXCEPT ![s] = IF suppressed THEN "suppressed" ELSE "queued"]

Compose(a) ==
  /\ actor[a].pc = "compose"
  /\ Composed(actor[a].step)
  /\ Goes(a, IF suppressed THEN "suppress" ELSE "link")
  /\ UNCHANGED <<queueVars, enrollment, send, suppressed, ghosts>>

\* It throws, with its row inserted or not; only the error text is kept.
ComposeFails(a) ==
  /\ "throw" \in Faults
  /\ actor[a].pc = "compose"
  /\ mail' = mail \/ Composed(actor[a].step)
  /\ Ends(a)
  /\ UNCHANGED <<queueVars, enrollment, send, suppressed, ghosts>>

Link(a) ==
  /\ actor[a].pc = "link"
  /\ send' = [send EXCEPT ![actor[a].step].linked = TRUE]
  /\ Ends(a)
  /\ UNCHANGED <<queueVars, enrollment, mail, suppressed, ghosts>>

\* The recipient was suppressed at compose time: the record, then the run.
MarkSuppressed(a) ==
  LET s == actor[a].step IN
  /\ actor[a].pc = "suppress"
  /\ send' = IF send[s].status = "approved"
               THEN [send EXCEPT ![s] = [status |-> "suppressed", linked |-> TRUE]]
               ELSE send
  /\ Goes(a, "cancel")
  /\ UNCHANGED <<queueVars, enrollment, mail, suppressed, ghosts>>

CancelAfter(a) ==
  /\ actor[a].pc = "cancel"
  /\ Cancelled
  /\ Ends(a)
  /\ UNCHANGED <<queueVars, mail, suppressed, ghosts>>

-----------------------------------------------------------------------------
(* rejectStepSend: this step only; the run goes on.                        *)

Reject(u, s) ==
  /\ actor[u].pc = "idle"
  /\ Pending(s)
  /\ actor' = [actor EXCEPT ![u] = [Resting EXCEPT !.pc = "reject", !.step = s]]
  /\ UNCHANGED <<queueVars, records, suppressed, ghosts>>

RejectSend(u) ==
  LET s == actor[u].step IN
  /\ actor[u].pc = "reject"
  /\ CasSend(s, {"draft", "render_failed"}, "rejected")
  /\ IF Pending(s) THEN Goes(u, "reread") ELSE Ends(u)
  /\ UNCHANGED <<queueVars, enrollment, mail, suppressed, ghosts>>

Reread(u) ==
  /\ actor[u].pc = "reread"
  /\ actor' = [actor EXCEPT ![u] =
                 IF Active THEN [@ EXCEPT !.pc = "skip", !.from = enrollment.cur]
                           ELSE Resting]
  /\ UNCHANGED <<queueVars, records, suppressed, ghosts>>

Skip(u) ==
  LET s == actor[u].step IN
  /\ actor[u].pc = "skip"
  /\ IF Advances(u) THEN AdvanceTo(s) ELSE UNCHANGED enrollment
  /\ actor' = [actor EXCEPT ![u] =
                 IF Advances(u) /\ s < Steps
                   THEN [Resting EXCEPT !.pc = "enqueue", !.step = s + 1]
                   ELSE Resting]
  /\ UNCHANGED <<queueVars, send, mail, suppressed, ghosts>>

-----------------------------------------------------------------------------
(* What comes from outside.                                                *)

\* A reply, a manual cancellation, an unsubscribe, an archived sequence.
Cancel ==
  /\ "cancel" \in Faults
  /\ Active
  /\ Cancelled
  /\ UNCHANGED <<queueVars, mail, suppressed, actor, ghosts>>

\* The suppression row is written before the runs are cancelled.
Suppress ==
  /\ "suppress" \in Faults
  /\ ~suppressed
  /\ suppressed' = TRUE
  /\ UNCHANGED <<queueVars, records, actor, ghosts>>

Passes ==
  /\ Tick
  /\ UNCHANGED <<records, suppressed, actor, ghosts>>

\* Bound: so many kinds of fault in a behaviour, each once unless faults recur.
Happens(fault) ==
  /\ fault \in Faults
  /\ fault \in mishaps => Recurring
  /\ Cardinality(mishaps \cup {fault}) <= MaxMishaps
  /\ mishaps' = mishaps \cup {fault}

\* A handler throws: its job is retried or ends.
Throw(w) ==
  /\ Happens("throw")
  /\ actor[w].pc \notin {"idle", "return"}
  /\ Fails(w, actor[w].key)
  /\ actor' = [actor EXCEPT ![w] = Resting]
  /\ UNCHANGED <<records, suppressed, recovered, dropped>>

\* The process dies, or a statement of a request throws.
Crash(a) ==
  /\ Happens("crash")
  /\ actor[a].pc # "idle"
  /\ actor' = [actor EXCEPT ![a] = Resting]
  /\ UNCHANGED <<queueVars, records, suppressed, recovered, dropped>>

Orphaned(k) == \A w \in Workers : actor[w].key # k

\* The lease of a handler that is gone ends, or that of one still at work.
Lapses(k) ==
  \/ Orphaned(k) /\ UNCHANGED mishaps
  \/ ~Orphaned(k) /\ Happens("lapse")

Reclaim(k) ==
  /\ Reclaims(k)
  /\ Lapses(k)
  /\ UNCHANGED <<records, suppressed, actor, recovered, dropped>>

TakeOver(w, k) ==
  /\ TakesOver(w, k)
  /\ Lapses(k)
  /\ Begins(w, k)
  /\ UNCHANGED <<records, suppressed, recovered, dropped>>

\* cancelPendingJobs of the queue.
WithdrawJobs ==
  /\ Happens("withdraw")
  /\ Withdraws
  /\ UNCHANGED <<records, suppressed, actor, recovered, dropped>>

-----------------------------------------------------------------------------

Init ==
  /\ QueueInit
  /\ enrollment = [status |-> "absent", cur |-> 0]
  /\ send = [s \in Order |-> [status |-> "none", linked |-> FALSE]]
  /\ mail = [s \in Order |-> "none"]
  /\ suppressed = FALSE
  /\ actor = [a \in Workers \cup Users |-> Resting]
  /\ recovered = {}
  /\ dropped = FALSE
  /\ mishaps = {}

\* The next step of a handler that is running.
Handles(w) ==
  \/ Gate(w) \/ Defer(w) \/ CancelInstead(w) \/ ChecksPass(w)
  \/ Claim(w) \/ ClaimLost(w) \/ AutoApprove(w) \/ AutoApproveLate(w)
  \/ Return(w)

\* The next step of an approval, a rejection or an enrollment under way.
Proceeds(a) ==
  \/ EnqueueStep(a) \/ EnqueueNext(a)
  \/ CheckEnded(a) \/ CheckSuppressed(a) \/ CheckPasses(a)
  \/ ApproveSend(a) \/ Advance(a) \/ AdvanceLost(a) \/ Withdraw(a)
  \/ Compose(a) \/ Link(a) \/ MarkSuppressed(a) \/ CancelAfter(a)
  \/ RejectSend(a) \/ Reread(a) \/ Skip(a)

Asks(u) ==
  Enroll(u) \/ \E s \in Order : Approve(u, s) \/ Reject(u, s)

Next ==
  \/ \E w \in Workers :
       Handles(w) \/ Throw(w) \/ \E k \in Keys : TakeJob(w, k) \/ TakeOver(w, k)
  \/ \E a \in Workers \cup Users : Proceeds(a) \/ ComposeFails(a) \/ Crash(a)
  \/ \E u \in Users : Asks(u)
  \/ \E k \in Keys : Reclaim(k)
  \/ WithdrawJobs \/ Cancel \/ Suppress \/ Passes

Spec == Init /\ [][Next]_vars

-----------------------------------------------------------------------------
(* Safety.                                                                 *)

ActorRecord ==
  [pc : {"idle", "enqueue", "enqueue_next", "gate", "checks", "claim", "read",
         "return", "check", "approve", "advance", "withdraw", "compose", "link",
         "suppress", "cancel", "reject", "reread", "skip"},
   step : 0 .. Steps,
   from : 0 .. Steps,
   key : Keys \cup {None}]

\* Every variable has its type.
TypeOK ==
  /\ QueueTypeOK
  /\ enrollment \in [status : {"absent", "active", "completed", "cancelled"},
                     cur : 0 .. Steps]
  /\ send \in [Order -> [status : {"none", "draft", "render_failed", "approved",
                                   "rejected", "cancelled", "suppressed"},
                         linked : BOOLEAN]]
  /\ mail \in [Order -> {"none", "queued", "suppressed"}]
  /\ suppressed \in BOOLEAN
  /\ actor \in [Workers \cup Users -> ActorRecord]
  /\ recovered \subseteq Order
  /\ dropped \in BOOLEAN
  /\ mishaps \subseteq Faults

\* The pointer of a run and the claim ledger agree, though no transaction
\* joins their writes: every step behind currentStepOrder was approved or
\* rejected by somebody and stays so, and no step ahead of the next one has a
\* record.
LedgerMatchesPointer ==
  \A s \in Order :
    /\ s <= enrollment.cur => send[s].status \in {"approved", "rejected", "suppressed"}
    /\ s > enrollment.cur + 1 => send[s].status = "none"

\* "compose runs ONLY after both CAS wins": a step has an outbound row only if
\* its record was approved and the run was advanced past it while active, so
\* that a reply or an unsubscribe that came first stops it ("never send after
\* cancel"), unless a second approval took the first for an interrupted one.
ComposedAfterBoth ==
  \A s \in Order :
    mail[s] # "none" /\ s \notin recovered =>
      /\ s <= enrollment.cur
      /\ send[s].status \in {"approved", "suppressed"}

\* An active run is waiting for somebody: a live job or a decision on the next
\* step, a handler of it that has not claimed it yet, or an actor about to
\* bring one of these about.
Awaits(n) ==
  \/ \E b \in Buckets : Live(<<n, b>>)
  \/ Pending(n)
  \/ \E w \in Workers :
       actor[w].step = n /\ actor[w].pc \in {"gate", "checks", "claim"}
  \/ \E a \in Workers \cup Users :
       actor[a].pc \in {"enqueue", "enqueue_next", "advance", "reread", "skip"}

Stranded == Active /\ ~Awaits(enrollment.cur + 1)

\* Nothing looks for active runs that wait for nobody, so none may come about:
\* it takes a crash or a throw, between two writes or on a job's last attempt,
\* cancelled jobs, or a deferral refused by its own job's key.
StrandedOnlyBy ==
  Stranded => mishaps \cap {"crash", "throw", "withdraw"} # {} \/ dropped

\* "pauses ALL sequence advancement (steps defer, never fail or send)".
PauseOnlyDefers == ~Stranded

\* A run that has ended does not move, and what is composed after its end was
\* approved and advanced past before it, but for a second approval's.
QuietAfterEnd ==
  enrollment.status \in {"completed", "cancelled"} =>
    /\ enrollment' = enrollment
    /\ \A s \in Order \ recovered :
         mail'[s] # mail[s] => send[s].status = "approved" /\ s <= enrollment.cur

EndIsFinal == [][QuietAfterEnd]_vars

\* The queue as JobContract has it: a key is a job, a handler an execution.
HandlerTask ==
  [w \in Workers |->
     IF actor[w].pc = "idle"
       THEN [pc |-> "idle", job |-> None]
       ELSE [pc |-> "running", job |-> actor[w].key]]

Contract ==
  INSTANCE JobContract
    WITH Jobs  <- Keys,
         Execs <- Workers,
         phase <- KeyPhase,
         cur   <- KeyHolder,
         task  <- HandlerTask

\* The queue under the step handler keeps the contract that WorkQueue implements,
\* with rows enqueued by users and by handlers whose own rows are still live: who
\* outlived his lease decides nothing of what is now under his key.
QueueKept == Contract!SpecEmptied
=============================================================================
