# TLA+ models of NoBull OS

NoBull OS is a TypeScript server (Express over PostgreSQL) with a web client.
Its pages and reports are ordinary; what is hard about it is the background
work: a durable queue in PostgreSQL, scheduler loops in one or more server
processes that lease rows from it, sweeps that take leases back, budgets that
limit what runs at once, handlers that must not send the same mail twice, and
external services whose tokens are rotated under all of it. These modules model
that core from the source.

Paths are relative to the repository (`src/` in `PROJECT.json`).

- [The system](#the-system)
- [Modules](#modules)
- [Runs](#runs)
- [Fairness](#fairness)
- [Proofs](#proofs)
- [Where documents and code disagree](#where-documents-and-code-disagree)
- [What is not modelled](#what-is-not-modelled)

## The system

| component | state | operations | correct when | module |
|---|---|---|---|---|
| work queue (`workScheduler.ts`, `workQueueLease.ts`, `shared/models/workQueue.ts`) | table `work_queue`: status, `lease_owner`, `leased_at`, `lease_expires_at`, `last_heartbeat_at`, `attempt_count`, `retry_at`; in memory the running jobs and heartbeat timers | enqueue, dequeue, start, heartbeat, complete / retry / dead-letter, stale-lease sweep, force-reclaim, replay, boot cleanup, release on shutdown | only the current attempt decides a row's outcome; ended rows stay ended; a held row can always be taken back; every row ends | `WorkQueue`, `JobContract` |
| dedupe on enqueue (`workQueueLease.ts`) | partial unique index on `dedupe_key` | insert, or nothing on a conflict | one live row per key | `DedupeQueue` |
| workload class slots (`workloadManager.ts`, the loops of `workScheduler.ts`) | active count per class, limits, reserves, skip counters | acquire, release, wait, live limit setters; scheduler cycle, drain, fast poll | no slot is lost or given back twice; the total is never exceeded; every class is served | `ClassSlots` |
| email sequences (`emailSequences.ts`, `emailSequencesStorage.ts`) | enrollment with `current_step_order`, step-send ledger | enroll, draft a step, approve, reject, cancel, defer | pointer and ledger agree; nothing is composed but by an approval that also advanced the run; an active run waits for somebody | `EmailSequence` |
| outbound email (`outboundEmail.ts`, `outboundEmailStorage.ts`) | send log row with status, claim, message id, deferral count | compose, gate, defer, claim, post, record, release | a mail goes out once, and its row ends with the truth | `OutboundEmail` |
| OAuth refresh (`oauthRefresh.ts`, `oauthRefreshLease.ts`, `semrushApi.ts`) | three token settings, lease row with a TTL, flights in memory | refresh, wait, re-read, wipe; device connect, disconnect | one refresher; a live connection is not lost | `OAuthRefresh` |
| everything else | see `PROJECT.json` | | | |

### How the parts interact

* The client, a route or a webhook enqueues a row. It knows the row only by
  the database.
* An instance's **main loop** (`schedulerCycleImpl`, every 5 s) sweeps stale
  leases, orders its classes, and for each class takes a slot, dequeues one
  row, and starts `processJob` without waiting for it. The **fast poll**
  (`frontWarpFastPollCycleImpl`) does the same for the Front class, without a
  sweep. Both run in one process and share its slots; instances share only the
  table.
* `processJob` writes the start, sets a heartbeat timer, awaits the handler and
  writes the outcome, guarded by owner and `leased_at`. The slot is given back
  when it ends.
* The operator may force-reclaim a held row or replay a dead letter at any
  moment; a deploy boots a new instance while the old one shuts down.
* Handlers enqueue their own next jobs: a sequence step the next step, a
  deferred step or mail itself, under a key with the hour it comes due in. An
  approved step is handed to `composeOutboundEmails`, which inserts a send row
  and enqueues its job.
* Calls to SEMrush ask for an access token, and with it for a refresh.

### What is hard

Every SQL statement commits on its own and every `await` is a place where
timers, other loops and other instances come in. The same row may be dequeued,
swept, stolen, reclaimed, released, cleaned up at a boot and written by an
execution that no longer owns it, in any order; writes throw; processes die;
answers of vendors are lost or late. A handler may therefore run twice, at the
same time or again, and every handler has to bring its own claim. `PROJECT.json`
lists the hazards, each at the line where it bites, with the properties that
would catch it, or why none does.

## Modules

| module | models |
|---|---|
| `WorkQueue` | the queue: rows, instances, executions, sweeps, operator, boot, shutdown, crash |
| `JobContract` | what the queue promises of one job, without leases, clocks, attempts or instances; `WorkQueue` implements it, and `DedupeQueue` under both of its handlers |
| `MCWorkQueue` | symmetry and constants for TLC |
| `WorkQueue_proofs` | theorems about `WorkQueue` |
| `WorkQueueContract_proofs` | that `WorkQueue` implements `JobContract` |
| `ClassSlots`, `MCClassSlots`, `ClassSlots_proofs` | one instance's class budgets and those that use them |
| `DedupeQueue`, `DedupeQueue_proofs` | the queue as its producers and handlers see it: keyed rows, delivered at least once; lemmas about its operations |
| `EmailSequence`, `MCEmailSequence`, `EmailSequence_proofs` | one enrollment of an email sequence, on `DedupeQueue` |
| `OutboundEmail`, `MCOutboundEmail`, `OutboundEmail_proofs` | one outbound mail, on `DedupeQueue` |
| `OAuthRefresh`, `MCOAuthRefresh`, `OAuthRefresh_proofs` | the token rotation of one connection |

The queue appears at three levels. `WorkQueue` has its leases. `JobContract` is
what they add up to: a job is handed out at least once, perhaps to several
executions at the same time, and the last to begin and not be taken off it is
the only one to decide its outcome. `DedupeQueue` is a queue of that contract
written from a handler's point of view, with keys, attempts and due times, and
the two handler modules extend it. A held row leaves its execution there as the
code lets it: the sweep counts the attempt, the boot of an instance and the end
of one hand the row back uncounted, the boot writes it off once its heartbeat has
been silent for long (`Reclaims`), and a dequeue takes an expired lease over as it
is, so that the row goes from one owner to the next without being pending
(`TakesOver`). With the fault `lapse` any of this happens under a handler still
at work, which goes on regardless; its outcome is ignored, as `ClobbersNothing`
says of `WorkQueue`. Both levels refine the contract: `ContractKept` proves it of
`WorkQueue`, `HandlersKeepContract` and `StepsKeepContract` of `DedupeQueue` under
its two handlers, so what the handler modules assume of the queue is nothing the
contract does not allow. The other direction, that `DedupeQueue` allows all that
`WorkQueue` does, is by reading: its rows are delivered and started in one step,
and it has no replay of dead letters and no missing handler.

`WorkQueue` and `ClassSlots` are checked apart. `WorkQueue` has its own, smaller
picture of slots (an execution is an instance and a slot, so an instance with
all slots taken dequeues nothing); `ClassSlots` has its own picture of the queue
(a dequeue finds a row or does not, or throws). Neither relies on a property of
the other.

### WorkQueue

`row[j]` is the table row of job `j`. Times are replaced by what the code
compares them for, and the steps of `Time` change these facts:

| field | code |
|---|---|
| `status` | `status`; `"absent"` before the enqueue |
| `owner`, `stamp` | `lease_owner`, `leased_at` (`AtDequeue` for the one a dequeue writes, the execution's own for the one a start writes) |
| `lease` | `lease_expires_at`: NULL, in the future, passed |
| `silent` | `last_heartbeat_at` is older than the boot cleanup tolerates, or NULL |
| `over` | held longer than the queue's maximum processing time |
| `attempts` | `attempt_count` |
| `due` | `retry_at` is NULL or has passed |

`exec[<<p, s>>]` is one call of `processJob` of instance `p`: dispatched (the
row is leased, the start write has not happened), or running, with the stamp it
wrote and the `attempt_count` its dequeue read. `proc`, `cycle`, `poll` and
`force` are where an instance's life, main loop, fast poll and a
force-reclaim stand. `holder` is a ghost: who started the current attempt; it
is set by the start write and cleared by whatever takes the row away. The code
has no such variable, which is the point: the guard on the lease columns has to
be as good as it.

| action | code |
|---|---|
| `Enqueue`, `Replay` | `enqueueToQueue`, `replayDeadLetteredJob` |
| `CancelPending` | `cancelPendingJobs` (`queueDrainControl.ts`), for any set of pending rows its limit may select |
| `SweepExhaust`, `SweepRelease` | the two statements of `recoverStaleLeases`, with the rows the instance's own timers exclude |
| `Dequeue`, `PollDequeue` | `dequeueFromQueueUsing` from either loop: pending rows first, else a held row whose lease has run out |
| `StartWrite`, `NoHandlerFail`, `StartFails` | the first write of `processJobInner` |
| `Heartbeat`, `HeartbeatAborts` | `performHeartbeatTick` before and after the maximum |
| `Complete`, `Retry`, `DeadLetter`, `OutcomeIgnored`, `OutcomeLost` | the outcome write: done, matched no row, threw |
| `ForceRead`, `ForceWrite` | `forceReclaimJob`, with the await in between |
| `BootZombies`, `BootOrphans`, `BootUncleaned` | `cleanupStaleJobsOnStartup` |
| `Stop`, `Release`, `ReleaseFails`, `Exit`, `Crash` | `gracefulShutdown`, `releaseInFlightLeasesOnShutdown`, the end of the process |

`Faults` names what a run lets go wrong: `lapse` (an await takes so long that a
lease expires under a live execution), `overrun`, `dberror` (a write throws),
`force`, `stop`, `crash`, `boot` (an instance boots beside a live one).

`KeepsContract` maps `status` to a phase, `holder` to the execution that may
decide, and `exec` to what each execution is doing; everything else is gone.
The batch statements of sweeps, cleanups and releases are `TakeBack`, which may
take back any held jobs at once; a crash is `Quit`.

Boots are not reused: `LEASE_OWNER` contains a boot id, and so each restart is a
new member of `Procs`.

### ClassSlots

`active[c]` is `activeCount`; `tuned` the three limits an operator may change;
`skips`, `todo`, `extra`, `spot` the main loop's progress through one cycle;
`polling` the fast poll's. `work` is a ghost: what really runs in a class, to
compare `active` with. Acquiring is one step, as it is synchronous; a loop then
holds the slot across an awaited dequeue (`spot`, `polling`), where everything
else may happen. Refusals follow each other without an await and are one step
together with the next class that is admitted (`Visit`, `RoundEnds`).

`consecutiveSkips` grows without end. Only its order among starved classes is
read, and the longest starved is visited first and so never loses its lead, so
`Ranked` keeps the order and not the number: this reduces the state space
without changing any behaviour.

### DedupeQueue

`live[k]` is the one row that may be pending or held under key `k`; a row that
ends leaves the index and with it `live`. `Enqueued` is the insert that does
nothing on a conflict. For the contract (`KeyPhase`, `KeyHolder`, and the
`HandlerTask` of each handler module) a key is a job: it has ended when it has no
live row, and the enqueue of its next row is a replay; `SpecEmptied` is the
contract from such a state. The clock counts half hours, the unit of both deferrals,
and starts at half past: whether the hour in a deferral's key is the hour of the
key it replaces depends on that. `Again` counts an attempt or ends the row,
`HandsBack` does not count, `WritesOff` ends it whatever is left. `Withdraws` is
the operator's `cancelPendingJobs`, which empties the key of a pending row.

### EmailSequence

| state | code |
|---|---|
| `enrollment` | `email_sequence_enrollments`: status, `current_step_order` |
| `send[s]` | `email_sequence_step_sends` of step `s`: status, and whether it is linked to an outbound row |
| `mail[s]` | the outbound row of step `s` (its id is derived from the step-send) |
| `actor[a]` | where a handler or a user's request is: the step, the pointer it read, its job |

The actions follow the awaits of `handleEmailSequenceStepJob` (`Gate`, `Defer`,
`ChecksPass`, `Claim`, `ClaimLost`), `approveStepSend` (`Approve` and
`AutoApprove`, `CheckEnded`, `CheckSuppressed`, `CheckPasses`, `ApproveSend`,
`Advance`, `AdvanceLost`, `Withdraw`, `EnqueueNext`, `Compose`, `Link` or
`MarkSuppressed` and `CancelAfter`), `rejectStepSend` (`Reject` to `Skip`) and
`enrollEntity`. Cancellation is one transaction. The kill switch and the pause
of a sequence are not kept but may be on at any read. `recovered` is a ghost:
the steps a second approval composed because the first looked interrupted
(`approved`, not linked); `dropped`: a deferral found its own key taken. The
queue's own steps are `TakeJob`, `Reclaim`, `TakeOver` and `WithdrawJobs` (the
fault `withdraw`), here and in `OutboundEmail`.

### OutboundEmail

`row` is the send, `compose` a call of `composeOutboundEmails`, `actor[w]` a
call of `handleOutboundEmailSend` with what it has read. The gates' writes name
the row by its id alone (`GateWrites`); the claim (`Claim`) compares; a vendor
call and the write that records its outcome are two steps (`Post`, `RecordSent`,
`RecordOutcome`), and `SentMisread` is the throw between them that the `try` of
the Front lane catches. The daily count, the suppression list, the mailbox and
the switch are answers a read may give. Ghosts: `posted` counts the vendor calls
that may have delivered the mail; `clobbered`, `misread`, `dropped` record the
three ways in which a write can be wrong.

### OAuthRefresh

Tokens are numbers in the order the vendor issues them; 0 is an empty setting.
`access`, `expiry`, `refresh` are the settings, written one by one; `lease` is
the lease row; `flight[p]` is the refresh in flight of a process, with the token
it last tried and what it read; `operator` is a device connect or a disconnect.
`valid` and `issued` are the vendor, modelled from how the code uses it: a
refresh consumes the token it is given and issues a pair, a consumed or revoked
token is rejected, an answer may be lost after the token was consumed, a new
grant may or may not end the one before it. A terminal answer need not be about
the token: `semrushApi.ts:492-498` takes `invalid_client`, `unauthorized_client`
and the `invalid_request` of a client id that is not configured for one too, and
the refresh token is then as good as before (`PostRefused`, the fault `refuse`).
`refused` records the tokens refused in that way to a flight that may wipe.

| action | code |
|---|---|
| `Start` | `withSingleFlightOAuthRefresh`, for each reason a caller may have |
| `Acquire`, `Degrade`, `LeaseExpires`, `Release` | `tryAcquireOnce`, `acquire` giving up, the TTL, `releaseOwned` |
| `Reuse`, `NoReuse` | `onLeaseAcquiredRecheck` |
| `Read`, `Post…`, `Poll`, `Unread` | `doRefreshInner`: capture, POST, the re-read after a terminal answer, reads that throw and are caught |
| `WriteAccess`, `WriteExpiry`, `WriteRefresh` | the three writes of a new pair |
| `WipeSkipped`, `Confirm`, `WipeAccess`, … | `onTerminalAfterRetry` |
| `Connect`, `Disconnect`, `Operator…` | `pollDeviceToken`, `disconnect` |

A caller that finds a flight of its process joins it and changes nothing. `late`
is a ghost: somebody replaced a refresh token that it had not read. Tokens are
read past the settings cache (`SETTINGS_CACHE_DENYLIST` names their keys), so a
read is a read of the table. The breaker only refuses calls and is left out: any
call may start.

## Runs

Every run, its properties and what it shows is in `PROJECT.json`. In short:

| run | instance | distinct states | properties |
|---|---|---|---|
| `crashes` | 1 row, 2 instances, 1 slot each; lapses, lost writes, stops, crashes, boots | 348 000 | `TypeOK`, `FencedOutcome`, `RecoverableLease`, `ClobbersNothing`, `TerminalIsFinal`, `KeepsContract` |
| `handovers` | 1 Front row, both loops, 2 instances, the older without the handler; lapses, force-reclaims, boots | 1 418 000 | `FencedOutcome`, `RecoverableLease`, `HeldIsExecuted`, `TerminalIsFinal` |
| `calm` | 2 rows (one Front), 2 instances one after the other, 2 slots; crashes, lost writes, no lapse | 249 000 | `NoDoubleProcessing`, `PendingHasBudget` |
| `settles` | 2 rows (one Front), 2 instances one after the other; crashes, overruns | 67 000 | `HeldIsExecuted`, `OverrunReclaimed`, `EveryJobSettles` |
| `slots` | 2 repair slots, 2 owned classes, fast poll, services, operator, throwing dequeues | 569 000 | `TypeOK`, `SlotsAreHeld`, `WorkFitsTotal`, `ManualNotShutOut` |
| `classes_served` | 2 repair slots, 4 owned classes that always have rows | 117 000 | `EveryClassServed` |
| `email_runs` | 2 steps, 1 worker, 1 user, automatic approval; pauses, cancellations, suppression, one crash, throw, lapse or cancellation of jobs | 2 128 000 | `TypeOK`, `LedgerMatchesPointer`, `ComposedAfterBoth`, `StrandedOnlyBy`, `EndIsFinal` |
| `sends` | 1 mail, 2 handlers, 2 windows; pauses, caps, fallback, refusals, one crash, cut compose, throw, lapse, second compose or cancellation of jobs | 316 000 | `TypeOK`, `SentOnceUnless`, `ForgottenOnlyBy`, `OutcomeIsFinal`, `QueueKept`, `EverySendSettles` |
| `rotations` | 2 processes, 3 token pairs, an operator, one fault of eight, any number of times | 2 600 000 | `TypeOK`, `OneRefresher`, `ConnectionSurvives`, `ConsumedNeverPosted` |

The three violation runs are described under
[Where documents and code disagree](#where-documents-and-code-disagree).

### What the properties say

* `FencedOutcome`: while an execution passes the guard of an outcome write, it
  is the one that started the row's current attempt. `ClobbersNothing` says what
  follows for the table: the end of any other execution leaves the row alone.
* `KeepsContract`: the refinement. It says the same of every step at once: no
  step of the queue changes a job in a way the contract has no name for.
* `RecoverableLease`: a held row has an owner, a stamp and an expiry, which is
  what sweeps and dequeues select by, and a pending row has none of them, after
  every mix of the ten statements that write these columns.
* `TerminalIsFinal`: only a replay and the unguarded first write of an execution
  dispatched earlier take a row out of a terminal status.
* `HeldIsExecuted`: a row held in the name of a live instance is being worked on
  there. It needs that no write throws: a start or outcome write that does leaves
  the row held until its lease runs out.
* `NoDoubleProcessing`: needs that awaits are short and that no second instance
  is alive; `boot_takes_live_leases` shows the second condition is needed.
* `PendingHasBudget`: a row that waits has an attempt left. It holds under the
  same conditions, an overrun apart, and `HandedBack` and `Retried` are what it depends on.
* `OverrunReclaimed`: a hung handler loses its row. Nontrivial, because its
  heartbeat timer excludes the row from the sweep of its own instance and keeps
  the lease alive for all others.
* `SlotsAreHeld`: every counted slot has someone who will give it back, but for
  those a throwing dequeue has left behind. The services, the loops and the ends
  of jobs give slots back in any order and by class only; what runs is always
  counted.
* `WorkFitsTotal`: everything that runs, of all classes, fits the total budget,
  although the limits of the classes add up to more. The run only raises limits;
  the theorem holds for all settings.
* `ManualNotShutOut`: the ingestion reserve. It is stated for fixed limits; a
  limit lowered below what runs in background shuts manual work out until that
  work ends, and the run therefore only raises limits.
* `EveryClassServed`: no class is starved by a budget that cannot hold all of
  them, thanks to the promotion of starved classes. It is true of the four
  classes that may use the whole budget; maintenance is refused while all but
  one slot of it are taken, and promotion gives it the first visit, not a slot.
* `LedgerMatchesPointer`: no transaction joins the pointer of a run and its
  ledger, and two actors who decide the same step read the pointer before they
  write; still, every step behind the pointer was decided and none is drafted
  beyond the next.
* `ComposedAfterBoth`, `EndIsFinal`: a mail of a sequence exists only if both
  compare-and-sets were won, so a reply that came first stops it. The exception
  is `recovered`: a second approval between the first one's two writes takes it
  for an interrupted one and composes without the advance.
* `StrandedOnlyBy`: what can leave an active run without a job, a draft or an
  actor: a crash or a throw, jobs that an operator cancelled, or a deferral that
  found its own key. Nothing in the code looks for such runs. A lapsed lease is
  not among the causes, even when the row is then written off, as the handler that
  lost it goes on to the claim that stands for the job.
* `SentOnceUnless`: at most one vendor call that may have delivered the mail,
  unless a gate wrote over a claimed row or a failed write was taken for a
  failed send. `OutcomeIsFinal`: a recorded outcome is not written over but by
  such a gate. `ForgottenOnlyBy`, `EverySendSettles`: the causes that leave a
  mail unsent for ever.
* `QueueKept`: the refinement of `JobContract` by the queue under the send
  handler. Its point is the late handler: it comes back after its row was
  reclaimed, ended or enqueued again under the same key, and must decide none of
  those. `EmailSequence` has the same property, which only the theorem covers:
  with it `email_runs` takes more than twice as long.
* `OneRefresher`: of two flights past the lease, one goes without it or has
  outlived its own. `ConsumedNeverPosted`: what serialising is for; it takes a
  fault, and no interleaving with operators or other flights, to break it.
  `ConnectionSurvives`: while the vendor takes a token of ours, the store has
  one. It names two exceptions that are not academic. `late`: the wipe writes
  after a read without comparing again, although a comment says the read closes
  the window. `refused`: a vendor that refuses the client, and not the token, gets
  a working connection wiped by any flight of an authoritative purpose, as the
  confirming read finds the token that was tried; what it answers to probes and
  keep-alives wipes nothing, which is why those do not count as `refused`.

The `Unless` and `OnlyBy` properties name the code's own gaps as exceptions.
They are not vacuous: each has a mutant that breaks it without the exception,
and the exceptions are faults or ghost flags set by a particular write.

### Bounds

* `AttemptCap = MaxAttempts = 2`: the code only compares `attempt_count + 1`
  with `max_attempts`; two attempts give a retry and an exhaustion.
* Two instances, two executions of a row: a race on a row is between an old
  execution and a new owner. A third instance only repeats the second. `Stamps`
  are as many as executions may exist at once plus what the row remembers; when
  none is fresh a start waits.
* One row in the fault-heavy runs: rows interact only through slots, through the
  preference for pending rows, and through the batch statements, and `calm` and
  `settles` have two.
* Instances that have ended are not replaced for ever (`Replaceable`): the last
  one stays, or the liveness run would end with nobody to do the work.
* `RepairSlots` of 2 against a default of 6: the limits of the classes
  still add up to more than the total, and the total to more than each class.
* `Owned` restricted: a class that is left out is one the cycle does not look
  at. `MaxSkip` of 1 reaches promotion within few cycles; the code has 3.
* `Steps = 2`: a step with a successor and a last one. One worker and one user
  are the two actors of a race on a draft.
* `LastHalfHour = 2`: deferrals into the same hour and into the next. Pauses end
  in the last half hour and the cap on the last day, or nothing could settle.
* `MaxDeferrals = 1` of 14: one deferral by the cap and giving up.
* `MaxMishaps = 1` in `email_runs`, `sends` and `rotations`: faults of one kind in
  a behaviour (of two in `double_delivery`), whichever it is. With `Recurring` off, in
  the runs of the mails, it happens once; in `rotations` any number of times.
  Pauses, caps, cancellations, suppressions and time are not faults and are not
  limited. The theorems have neither bound.
* `MaxToken = 3`: the pair of the start, one rotation or grant, and one more
  that races with it.
* `email_runs`, `sends` and `rotations` do not check for deadlock: a run that
  has ended, a mail that is sent, a token bound that is reached are ends.

## Fairness

* `WF` on the steps of a loop: timers reschedule themselves in a `finally`, and
  queries return. `isRunning` and `fastPollIsRunning` are reset there too.
* `WF` on boots: the platform restarts the service.
* `SF` on dequeues: between cycles a dequeue is not enabled, and a loop that
  finds a row at every cycle leases one.
* `WF` on a lease lapsing only when nobody attends it: time passes.
* A handler may hang for ever: nothing in the code ends it. `settles` only
  assumes that an execution whose row has been taken from it ends at last
  (`SlotsComeBack`): a hung handler keeps its class slot until the process ends,
  and enough of them stop a class for good, which the code does not prevent. It
  also assumes that an operator does not replay for ever (`ReplaysEnd`).
* `ClassSlots`: `WF` on the scheduler's steps and the end of each job.
  Nothing is assumed of the fast poll, of services or of the operator, nor that
  a dequeue finds a row, except for the classes in `Busy`.
* `OutboundEmail`: `WF` on the next step of a handler and of a compose (promises
  settle), on the queue's dequeue, on the sweep of rows whose handler is gone,
  and on the clock. Nothing is assumed of crashes, lapses, answers of the vendor
  or the order of two handlers.
* `EmailSequence` and `OAuthRefresh` have no liveness properties: an approval is
  a user's, who may never come, and a vendor may fail for ever.

## Proofs

`tlapm` proves the following, for any sets of jobs, keys, instances, slots,
stamps, processes, workers, users and faults, any number of steps, attempts,
deferrals and tokens, and any number of faults of each kind (`Recurring`), within
the assumptions of the modules and the hypotheses named here.

| module | theorem | property | hypothesis |
|---|---|---|---|
| `WorkQueue_proofs` | `TypeCorrect` | `TypeOK` | |
| | `OutcomesAreFenced` | `FencedOutcome` | |
| | `LeasesAreRecoverable` | `RecoverableLease` | |
| | `StaleHandlersClobberNothing` | `ClobbersNothing` | |
| | `EndedRowsStay` | `TerminalIsFinal` | |
| | `HeldRowsAreExecuted` | `HeldIsExecuted` | no write of an execution throws |
| | `PendingRowsHaveBudget` | `PendingHasBudget` | no lapse, forced reclaim, stop, or boot beside a live instance |
| | `NobodyWorksTwice` | `NoDoubleProcessing` | only crashes and writes that throw |
| `WorkQueueContract_proofs` | `ContractKept` | `KeepsContract` | |
| `ClassSlots_proofs` | `TypeCorrect` | `TypeOK` | |
| | `EverySlotIsHeld` | `SlotsAreHeld` | |
| | `WorkStaysInBudget` | `WorkFitsTotal` | |
| | `ManualFindsRoom` | `ManualNotShutOut` | the limit of ingestion is never lowered |
| `EmailSequence_proofs` | `TypeCorrect` | `TypeOK` | |
| | `LedgerAgrees` | `LedgerMatchesPointer` | |
| | `ComposedAfterAdvance` | `ComposedAfterBoth` | |
| | `EndStays` | `EndIsFinal` | |
| | `NoneStranded` | `StrandedOnlyBy` | |
| | `StepsKeepContract` | `QueueKept` | |
| `OutboundEmail_proofs` | `TypeCorrect` | `TypeOK` | |
| | `SentOnce` | `SentOnceUnless` | |
| | `OutcomeStays` | `OutcomeIsFinal` | |
| | `NoneForgotten` | `ForgottenOnlyBy` | |
| | `HandlersKeepContract` | `QueueKept` | |
| `OAuthRefresh_proofs` | `TypeCorrect` | `TypeOK` | |
| | `RefreshIsExclusive` | `OneRefresher` | |
| | `ConsumedStaysUnposted` | `ConsumedNeverPosted` | |
| | `ConnectionIsKept` | `ConnectionSurvives` | |

Every invariant that a passing run checks is stated by one of them, and so is
every action property and every refinement.

### The hypotheses

Three properties of the queue hold only while certain things do not happen, and
their theorems say which as a condition on `Faults`. The runs that check them
(`calm`, `handovers`, `settles`) leave out the same faults or more. None of the
conditions is idle. A start or outcome write that throws leaves a held row with
nobody on it. Any of a lapse, a forced reclaim, a stop, a boot and an overrun hands a row
out that is being worked on. And the budget of a waiting row is overdrawn in two ways:
a forced reclaim writes by an `attempt_count` it read before a retry raised it
(`ForceRead`, `ForceWrite`); and a lapse, a stop or a boot can leave an execution dispatched
whose row was since taken and dead-lettered by another, until its unguarded start
write takes the row back and the cleanup of the next boot, which does not look at
budgets, returns it. The remaining faults are allowed in any number.

`ManualFindsRoom` is `Spec /\ [][NeverLowered]_vars => []ManualNotShutOut`: a
limit that is lowered below what already runs shuts manual work out until that
work ends, which no check at the time of a dequeue could prevent. The run raises
limits and does not lower them.

The other properties name their exceptions themselves, and hold for all values
of the constants as they stand.

### The work queue

`FencedOutcome` needs no strengthening beyond types. Most actions either leave a
row's status, owner and stamp and its `holder` alone, or they take the row out of
reach of every guard: not `processing`, or a stamp no execution has. These two
shapes are the frame lemmas (`RowsKept`, `ExecsKept`); each action is shown to be
of one of them. The start write is the exception, where the guard could pass for
another execution: one of another instance has another owner, and one of the
same instance has another stamp, as `FreshStamps` excludes those in use. That is
the fact the proof turns on, and it is the reason why the guard has to name
both: the mutants that drop the owner or the stamp fail.

`HeldIsExecuted` speaks of a row that is held in the name of a live instance, and
is not inductive in two ways. It does not say which execution: a running one
whose lease was taken away and given back to the same instance must not count.
`Executed` does (`HasWorker`): a leased row has an execution that is dispatched
at its owner, a processing row a running one with the row's stamp. And an
instance that boots must not find rows in its name: `AwakeOnly` says that one
which does not run has no loop and no execution, and one which never ran owns
nothing. A boot id is why the code has that.

Without lapses, forced reclaims, stops and overlapping boots the queue is in the
state `Undisturbed`: one instance lives at a time, an execution that has not
started has the lease it was dispatched with (`DispatchedHolds`), no two are
dispatched for one row (`OneDispatched`). On this rest two proofs.
`PendingHasBudget` becomes inductive as `Budgeted`, which includes held rows: a
row leased with its last attempt used up would be handed back with none.
`NoDoubleProcessing` becomes inductive with `RunnersHold`: an execution that runs
passes its lease guard, its lease is live and its heartbeat beats, so neither a
sweep nor a dequeue selects the row.

### The contract

`ContractKept` maps the initial states of `WorkQueue` to initial states of
`JobContract` and every step to one of its actions or a stutter; `FencedOutcome`
is what an outcome write needs to be a `Finish`. The dequeue and the start of the
handler are two steps there, and in `DedupeQueue` one, for which the contract has
`Deliver`.

`HandlersKeepContract` and `StepsKeepContract` show the same of `DedupeQueue`
under the two handlers. A key is mapped to the phase of the row that lives under
it; `TakesOver` is a `Deliver` of a job that is held, `Withdraws` a `Withdraw`. The interesting step is the return of a handler that has outlived its lease:
by then its row may be pending, held by another, ended, or another row with the same
key. `Completes` writes only while the worker is the row's owner, and the
contract admits a `Finish` only to the last who began it. That an owner is named
by held rows alone (`OwnedIsHeld`) is the invariant it takes. What a key's next
row does is the contract's `Replay`, so `QueueKept` starts from `InitEmptied`: a key
without a row is a job that has ended.

### Slots

`SlotInv` is `TypeOK`, `SlotsAreHeld` and `TotalActive <= TotalBudget`. The last
is kept by the check in `acquireClassSlot` alone (`AcquireCounts`), however the
class limits change; `WorkFitsTotal` is not inductive without it, as it speaks
of running work and not of counts. `ReserveKept` is the strengthening of
`ManualNotShutOut`: what is counted in the ingestion class besides manual syncs,
slots lost to dequeues that threw included, is less than its limit. The property
itself speaks of refused requests and says nothing of the state before.

### Sequences

`LedgerMatchesPointer` follows from `Frontier`: at most one actor is between the
two writes of a decision (`OneDecider`), at the step after the pointer, and the
pointer it read is still the pointer; an actor that has read a pointer and not
yet won its compare-and-set may be behind, but never ahead (`AtFrontier`).
`Unstarted` is the corner before the enrollment. No lock keeps two deciders
apart: whoever wins the record's compare-and-set is the only one, since the loser
goes no further.

`ComposedAfterBoth` and `EndIsFinal` add `Composing`: who is about to compose is
at a step the pointer has passed, unless that step is among the recovered ones.

`StrandedOnlyBy` takes the longest proof. `Waits` says that the step after the
pointer of an active run is `Covered`: its record is pending; or decided, with a
decider still at work; or it has none, and then its row is pending, or a handler
has yet to claim it (`Looks`), or it has no live row and an actor is about to
enqueue one. A handler that has yet to claim covers the step whoever owns the row
by now: it needs the ledger, not the lease, and this is why lapses, take-overs
and write-offs are no causes. Two things could still go wrong. An enqueue could be
swallowed by a live row whose handler is about to return: `NoneAhead` (no job,
record or actor is beyond the next step) says that there is no such row when the
pointer moves. And the return of a late handler could end a row that waits under
its key: a row that waits has no owner (`OwnedIsHeld`).

### Outbound mail

`SentOnceUnless` needs `OneDispatcher` (a row that is `sending` has at most one
handler between claim and outcome, and no handler is there otherwise) and
`Unposted` (nobody who may still post, and no row that can be claimed, has a
delivery behind it). Both are conditional on the ghosts that the property names;
the proof shows that the other writes by id, which do not look at the row, come
from the one dispatcher. `OutcomeIsFinal` uses the first of the two.

`ForgottenOnlyBy` rests on `Covered`: a mail that may be claimed has a live job
whose handler is not about to return, or a compose under way that wrote the row
before any job existed. `HandlersHold` (before any lapse, a handler holds the
row of its key) makes a deferral's new row and the return of the old one two
different keys; `Unclaimed` says that a row which may be claimed can be.

### Refresh

`OneRefresher` is not inductive: that no other flight refreshes is not to be
seen in the flights when a process acquires. `LeaseNamesHolder` adds that a
flight whose lease has not run out is named by the lease row, which is then not
marked as expired; so the row of an `Acquire` is nobody's, and a `Release`
deletes only its own.

`ConsumedNeverPosted` and `ConnectionSurvives` rest on `Lineage`, which holds
whatever fails: tokens come in the order of their issue and a consumed one is
never taken again (`Numbered`); a pair that is not stored is known to its writer
alone (`Fresh`); and a flight knows something of the token it tried (`TriedBy`):
a writer's was consumed, a wiper's is not taken or was refused. `Alone` then says that under
`Calm` nobody refreshes without the lease, and that the stored token is a consumed
one only while its exchanger is writing, which is what the next holder of the
lease waits for. `Survival` says that while the vendor takes a token, one it takes
is stored or in the hands of a writer, or was refused to a flight that may wipe,
or an operator is connecting. The wipe
after a terminal answer is the step that needs `TriedBy`: what it deletes is the
token that was tried, or was read after it, and `late` is the rest.

### Assumptions

`JobsAssumption`, `ExecsAssumption`, `AttemptsAssumption`, `NullAssumption` (NULL
is no instance, stamp, job or execution) in `WorkQueue`; `RepairAssumption` (1 to
8, as `perfConfig.ts` bounds it), `SkipAssumption`, `OwnedAssumption`,
`RequestsAssumption`, `SettingsAssumption` in `ClassSlots`; `QueueAssumption` in
`DedupeQueue`; `SequenceAssumption` in `EmailSequence`; `OutboundAssumption` in
`OutboundEmail`; `RefreshAssumption` in `OAuthRefresh`. They give the constants
their types, and `Keys` its form. TLC evaluates them in every run.

### What is only model-checked

Liveness under fairness (`OverrunReclaimed`, `EveryJobSettles`,
`EveryClassServed`, `EverySendSettles`) is out of the prover's reach, as is
`ENABLED`. The three properties that are violated have no theorem, of course.
The modules avoid induction over data and `RECURSIVE` operators, which the
provers do not handle. `QueueKept` of `EmailSequence` is the one property that is
proved and not run.

## Where documents and code disagree

Each of these runs checks one property that a comment or document states, and TLC
finds it violated.

| run | statement | what happens |
|---|---|---|
| `boot_takes_live_leases` | concurrent instances compete "with no double-processing" | a booting instance returns the rows of a live sibling to pending, and starts them |
| `pause_lost` | the kill switch defers, "never fail or send" | a job deferred to this hour that defers again within it finds its own key taken; the run stays active with no job |
| `double_delivery` | the claim is "the at-most-once boundary" | the write of `sent` throws inside the `try` of the vendor call; the claim is released and the retry sends the mail again |

`boot_takes_live_leases` loses no row for ever: `RecoverableLease` and the
contract hold in the runs that include the same steps. `pause_lost` does lose a
run, until somebody cancels and enrolls again.

## What is not modelled

Within the queue: bulk replay, priorities and fairness between the
queues of a class (which row is dequeued is any that qualifies), dispatch
counters, starvation warnings, pauses and rate caps (a cycle may end after any
number of dequeues, which covers them), and a heartbeat timer that is set again
after its attempt has ended. Within the slots: the repair dispatcher, the 30 s
limit of a wait, API-pool back-off, metrics. Within the sequences: editing,
segments (a loop of enrollments), rendering. Within the outbound mail: the daily
count, of which many mails share one; events of the vendors; the upkeep of the
suppression list. Within the refresh: the other integrations, which use a subset
of what SEMrush uses, the breaker, audit rows.

The greater part of the repository is request handlers and pages over single
SQL statements, report and call integrations whose substance is parsing, and
the web client. They keep no state between steps that a model could say
something about which the code does not already say in one line. The components
with status `not_modelled` in `PROJECT.json` each have their reason there.
