----------------------------- MODULE DedupeQueue -----------------------------
(***************************************************************************)
(* The work queue as a handler and those who enqueue for it see it: rows   *)
(* named by a dedupe key, at most one of them live under a key, delivered  *)
(* at least once.  EmailSequence and OutboundEmail are built on it; how    *)
(* the queue leases its rows is the business of WorkQueue.                 *)
(*                                                                         *)
(* The clock counts half hours, the unit of the deferrals of both.         *)
(***************************************************************************)
EXTENDS Naturals

CONSTANTS
  Keys,          \* the dedupe keys of the producers
  Workers,       \* executions of a handler, one job at a time each
  MaxAttempts,   \* max_attempts of every row
  LastHalfHour,  \* bound: the clock stops here
  None

ASSUME QueueAssumption ==
  /\ MaxAttempts \in Nat \ {0}
  /\ LastHalfHour \in Nat
  /\ None \notin Workers

VARIABLES
  live,   \* the pending and the held row of each key
  now,    \* half hours since the start
  ended   \* ghost: the keys a row of which ended without its work done

queueVars == <<live, now, ended>>

NoJob == [st |-> "absent", owner |-> None, attempts |-> 0, due |-> 0]

Job == [st : {"absent", "pending", "held"},
        owner : Workers \cup {None},
        attempts : 0 .. MaxAttempts - 1,
        due : 0 .. LastHalfHour + 1]

QueueTypeOK ==
  /\ live \in [Keys -> Job]
  /\ now \in 0 .. LastHalfHour
  /\ ended \subseteq Keys

QueueInit ==
  /\ live = [k \in Keys |-> NoJob]
  /\ now = 0
  /\ ended = {}

Live(k) == live[k].st # "absent"

\* INSERT ... ON CONFLICT DO NOTHING against the partial unique index on
\* dedupe_key, which a row leaves when it ends.
Enqueued(k, t) ==
  IF Live(k)
    THEN live
    ELSE [live EXCEPT ![k] = [NoJob EXCEPT !.st = "pending", !.due = t]]

\* Dequeue and start of a row that is due.  Its retry_at is not read again.
Take(w, k) ==
  /\ live[k].st = "pending"
  /\ live[k].due <= now
  /\ live' = [live EXCEPT ![k].st = "held", ![k].owner = w, ![k].due = 0]
  /\ UNCHANGED <<now, ended>>

\* An expired lease is taken over as it is, its attempts included.
TakesOver(w, k) ==
  /\ live[k].st = "held"
  /\ live' = [live EXCEPT ![k].owner = w]
  /\ UNCHANGED <<now, ended>>

\* The row ends without its work done.
WritesOff(k) ==
  /\ live' = [live EXCEPT ![k] = NoJob]
  /\ ended' = ended \cup {k}

\* The attempt has failed or was taken back: one more, or the end of the row.
Again(k) ==
  IF live[k].attempts + 1 < MaxAttempts
    THEN /\ live' = [live EXCEPT ![k].st = "pending", ![k].owner = None,
                                 ![k].attempts = @ + 1]
         /\ ended' = ended
    ELSE WritesOff(k)

\* An attempt that is not counted.
HandsBack(k) ==
  /\ live' = [live EXCEPT ![k].st = "pending", ![k].owner = None]
  /\ ended' = ended

\* Mutant: the outcome write names the row by its id alone.
CompletesAnyway(w, k) ==
  /\ live' = [live EXCEPT ![k] = NoJob]
  /\ UNCHANGED <<now, ended>>

\* The outcome writes: without effect unless the row is still w's.
Completes(w, k) ==
  /\ live' = IF live[k].owner = w THEN [live EXCEPT ![k] = NoJob] ELSE live
  /\ UNCHANGED <<now, ended>>

Fails(w, k) ==
  /\ IF live[k].owner = w THEN Again(k) ELSE UNCHANGED <<live, ended>>
  /\ UNCHANGED now

\* A row is taken from its execution, which may be gone or may go on regardless:
\* the sweep counts the attempt, the boot of an instance and the end of one hand
\* the row back as it is, and the boot writes it off, attempts left or not, once
\* its heartbeat has been silent for long.
Reclaims(k) ==
  /\ live[k].st = "held"
  /\ Again(k) \/ HandsBack(k) \/ WritesOff(k)
  /\ UNCHANGED now

\* An operator cancels pending rows of the queue.
Withdraws ==
  \E K \in SUBSET {k \in Keys : live[k].st = "pending"} :
    /\ K # {}
    /\ live' = [k \in Keys |-> IF k \in K THEN NoJob ELSE live[k]]
    /\ ended' = ended \cup K
    /\ UNCHANGED now

\* The queue as JobContract has it.  A key without a live row is one whose rows
\* have ended, whether or not there was any.
PhaseOf(k) ==
  CASE live[k].st = "absent" -> "ended"
    [] live[k].st = "pending" -> "waiting"
    [] live[k].st = "held" -> "held"

KeyPhase == [k \in Keys |-> PhaseOf(k)]
KeyHolder == [k \in Keys |-> live[k].owner]

Tick ==
  /\ now < LastHalfHour
  /\ now' = now + 1
  /\ UNCHANGED <<live, ended>>

(***************************************************************************)
(* A deferral: half an hour from now, under a key that carries the hour it *)
(* comes due in.  The clock starts at half past.  Bucket 0 is the key      *)
(* without that suffix.                                                    *)
(***************************************************************************)
Plain == 0
ResumeAt == now + 1
Bucket(at) == (at + 1) \div 2
Buckets == 0 .. Bucket(LastHalfHour + 1)
==============================================================================
