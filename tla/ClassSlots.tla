------------------------------ MODULE ClassSlots ------------------------------
(***************************************************************************)
(* The workload manager of one instance and those that take slots from it: *)
(* the scheduler's cycle over the workload classes, the Front fast-poll    *)
(* loop, and the services that take a slot around a write of their own.    *)
(*                                                                         *)
(* Checking the budgets and counting the slot is one synchronous step.  A  *)
(* loop then awaits a dequeue with the slot in hand; what other code does  *)
(* comes in during that await, and never between two refusals.  (In the    *)
(* model it may come in between the return of the dequeue and the next     *)
(* class, too.)  The repair dispatcher is off, as it is by default, so     *)
(* that the scheduler owns every class but the Front one.                  *)
(***************************************************************************)
EXTENDS Integers, FiniteSets

CONSTANTS
  RepairSlots,  \* RETROACTIVE_REPROCESS_CONCURRENCY
  MaxSkip,      \* MAX_SKIP_CYCLES
  Owned,        \* the classes the scheduler visits
  Busy,         \* the owned classes that always have a row to dequeue
  FrontOpen,    \* FALSE: the Front queues are paused, and the poll ends at once
  Requests,     \* the <<class, origin>> the services ask slots for
  Settings,     \* what an operator may set a limit to
  Faults        \* {"dberror"} when a dequeue may throw

Class == {"interactive", "interactive_repair", "ingestion",
          "front_ingestion", "repair", "maintenance"}
Origin == {"user_manual", "scheduled_background"}

ASSUME RepairAssumption == RepairSlots \in 1 .. 8
ASSUME SkipAssumption == MaxSkip \in Nat
ASSUME OwnedAssumption == Owned \subseteq Class \ {"front_ingestion"}
ASSUME RequestsAssumption == Requests \subseteq Class \X Origin
ASSUME SettingsAssumption == Settings \subseteq Int

VARIABLES
  active,   \* activeCount of each class
  work,     \* ghost: the jobs and service calls running in a class, by origin
  lost,     \* ghost: the slots a dequeue that threw has left behind
  tuned,    \* the limits an operator may change while the instance runs
  skips,    \* consecutiveSkips
  todo,     \* the classes the scheduler has still to visit in this cycle
  extra,    \* the extra visits it has left then
  spot,     \* the visit whose dequeue is awaited, or "none"
  polling   \* the fast poll awaits a dequeue

vars == <<active, work, lost, tuned, skips, todo, extra, spot, polling>>

Clamp(n, lo, hi) == IF n < lo THEN lo ELSE IF n > hi THEN hi ELSE n

\* Three more than the repair class, which is at least 1: never below 4.
TotalBudget == RepairSlots + 3

MaxConcurrency(c) ==
  CASE c \in {"interactive", "maintenance"} -> 1
    [] c \in {"interactive_repair", "repair"} -> RepairSlots
    [] c \in {"ingestion", "front_ingestion"} -> tuned[c]

Reserve(c) ==
  CASE c = "ingestion" -> 1
    [] c = "front_ingestion" -> tuned.reserve
    [] OTHER -> 0

\* Mutant: background work may use the reserve.
ClassMaxUnreserved(c, origin) == MaxConcurrency(c)

\* Background work leaves the reserve of its class alone.
ClassMax(c, origin) ==
  IF origin = "user_manual" THEN MaxConcurrency(c)
  ELSE IF MaxConcurrency(c) >= Reserve(c) THEN MaxConcurrency(c) - Reserve(c)
  ELSE 0

TotalActive ==
  active["interactive"] + active["interactive_repair"] + active["ingestion"]
    + active["front_ingestion"] + active["repair"] + active["maintenance"]

\* Maintenance leaves one slot of the whole budget to the interactive class.
TotalCap(c) == IF c = "maintenance" THEN TotalBudget - 1 ELSE TotalBudget

\* Mutant: acquireClassSlot without the global limit.
AdmitsByClass(c, origin) == active[c] < ClassMax(c, origin)

\* acquireClassSlot returns true.
Admits(c, origin) ==
  /\ active[c] < ClassMax(c, origin)
  /\ TotalActive < TotalCap(c)

Acquire(c, origin) ==
  /\ Admits(c, origin)
  /\ active' = [active EXCEPT ![c] = @ + 1]

\* releaseClassSlot: the count does not go below zero.
ReleaseSlot(c) == active' = [active EXCEPT ![c] = IF @ > 0 THEN @ - 1 ELSE 0]

Starts(c, origin) == work' = [work EXCEPT ![c][origin] = @ + 1]
Finishes(c, origin) == work' = [work EXCEPT ![c][origin] = @ - 1]
Loses(c) == lost' = [lost EXCEPT ![c] = @ + 1]

-----------------------------------------------------------------------------
(* The scheduler's cycle over its classes, and the drain after it: extra   *)
(* rows of retroactive_reprocess for the repair class.                     *)

ClassOf(v) == IF v = "extra" THEN "repair" ELSE v

Starved(c) == skips[c] >= MaxSkip

Base == [interactive |-> 1, ingestion |-> 2, interactive_repair |-> 3,
         repair |-> 4, maintenance |-> 5]

\* buildFairClassOrder: starved classes come first, the longest starved of
\* them first of all.  The order is made when the cycle starts; the skips of
\* a class change when it is visited and not before.
Before(c, d) ==
  IF Starved(c) /\ Starved(d)
    THEN skips[c] > skips[d] \/ (skips[c] = skips[d] /\ Base[c] < Base[d])
    ELSE Starved(c) \/ (~Starved(d) /\ Base[c] < Base[d])

\* The classes whose turn comes before that of v in this cycle.
Earlier(v) == {c \in todo : v = "extra" \/ Before(c, v)}

Refused(S) == \A c \in S : ~Admits(c, "scheduled_background")

Skipped(S) ==
  skips' = [c \in Class |-> IF c \in S THEN skips[c] + 1 ELSE skips[c]]

\* The skips of a starved class grow without end.  When the order is made they
\* only matter by rank, and as the longest starved is visited first, its lead
\* never shrinks: the rank is all that is kept of them.
Ranked ==
  [c \in Class |->
     IF Starved(c)
       THEN MaxSkip + Cardinality({d \in Class : Starved(d) /\ skips[d] < skips[c]})
       ELSE skips[c]]

CycleStart ==
  /\ todo = {}
  /\ extra = 0
  /\ spot = "none"
  /\ todo' = Owned
  /\ extra' = RepairSlots - 1
  /\ skips' = Ranked
  /\ UNCHANGED <<active, work, lost, tuned, spot, polling>>

\* The next class that gets a slot, after those that are refused; nothing is
\* awaited between two refusals.
Visit(c) ==
  /\ spot = "none"
  /\ c \in todo
  /\ Refused(Earlier(c))
  /\ Acquire(c, "scheduled_background")
  /\ Skipped(Earlier(c))
  /\ spot' = c
  /\ todo' = todo \ (Earlier(c) \cup {c})
  /\ UNCHANGED <<work, lost, tuned, extra, polling>>

\* Mutant: the round ends at the first class that is refused.
RoundEndsEarly ==
  /\ spot = "none"
  /\ \E c \in todo : Earlier(c) = {} /\ Refused({c})
  /\ todo' = {}
  /\ Skipped(todo)
  /\ UNCHANGED <<active, work, lost, tuned, extra, spot, polling>>

\* The classes that are left are all refused.
RoundEnds ==
  /\ spot = "none"
  /\ todo # {}
  /\ Refused(todo)
  /\ todo' = {}
  /\ Skipped(todo)
  /\ UNCHANGED <<active, work, lost, tuned, extra, spot, polling>>

Drain ==
  /\ spot = "none"
  /\ todo = {}
  /\ extra > 0
  /\ Acquire("repair", "scheduled_background")
  /\ spot' = "extra"
  /\ extra' = extra - 1
  /\ UNCHANGED <<work, lost, tuned, skips, todo, polling>>

DrainEnds ==
  /\ spot = "none"
  /\ todo = {}
  /\ extra > 0
  /\ Refused({"repair"})
  /\ extra' = 0
  /\ UNCHANGED <<active, work, lost, tuned, skips, todo, spot, polling>>

\* The dequeue came back empty: an extra visit is the last one.
InVain ==
  /\ extra' = IF spot = "extra" THEN 0 ELSE extra
  /\ Skipped({spot})

\* Mutant: the slot of a probe that found no row is kept.
ProbeFindsNoneKeeps ==
  /\ spot # "none"
  /\ ClassOf(spot) \notin Busy
  /\ spot' = "none"
  /\ InVain
  /\ UNCHANGED <<active, work, lost, tuned, todo, polling>>

ProbeFindsNone ==
  /\ spot # "none"
  /\ ClassOf(spot) \notin Busy
  /\ ReleaseSlot(ClassOf(spot))
  /\ spot' = "none"
  /\ InVain
  /\ UNCHANGED <<work, lost, tuned, todo, polling>>

ProbeFinds ==
  /\ spot # "none"
  /\ Starts(ClassOf(spot), "scheduled_background")
  /\ spot' = "none"
  /\ skips' = IF spot = "extra" THEN skips ELSE [skips EXCEPT ![spot] = 0]
  /\ UNCHANGED <<active, lost, tuned, todo, extra, polling>>

\* The dequeue throws out of the cycle: nothing gives the slot back.
ProbeThrows ==
  /\ "dberror" \in Faults
  /\ spot # "none"
  /\ spot' = "none"
  /\ todo' = {}
  /\ extra' = 0
  /\ Loses(ClassOf(spot))
  /\ UNCHANGED <<active, work, tuned, skips, polling>>

-----------------------------------------------------------------------------
(* The fast poll, the services, the ends of what runs, the live limits.    *)

\* tryAcquireSlot names no origin, for any of the Front queues.
PollOrigin == "scheduled_background"

PollProbe ==
  /\ FrontOpen
  /\ ~polling
  /\ Acquire("front_ingestion", PollOrigin)
  /\ polling' = TRUE
  /\ UNCHANGED <<work, lost, tuned, skips, todo, extra, spot>>

PollFindsNone ==
  /\ polling
  /\ ReleaseSlot("front_ingestion")
  /\ polling' = FALSE
  /\ UNCHANGED <<work, lost, tuned, skips, todo, extra, spot>>

PollFinds ==
  /\ polling
  /\ Starts("front_ingestion", PollOrigin)
  /\ polling' = FALSE
  /\ UNCHANGED <<active, lost, tuned, skips, todo, extra, spot>>

PollThrows ==
  /\ "dberror" \in Faults
  /\ polling
  /\ polling' = FALSE
  /\ Loses("front_ingestion")
  /\ UNCHANGED <<active, work, tuned, skips, todo, extra, spot>>

\* awaitClassSlot and withClassSlot: a caller that is refused has changed
\* nothing, whether it polls again, times out or gives up at once.
Request(c, origin) ==
  /\ <<c, origin>> \in Requests
  /\ Acquire(c, origin)
  /\ Starts(c, origin)
  /\ UNCHANGED <<lost, tuned, skips, todo, extra, spot, polling>>

\* trackJobEnd, or the finally of a service.
Ends(c, origin) ==
  /\ work[c][origin] > 0
  /\ Finishes(c, origin)
  /\ ReleaseSlot(c)
  /\ UNCHANGED <<lost, tuned, skips, todo, extra, spot, polling>>

\* Mutant: the setters take the value as it comes.
ApplyUnclamped(limit, n) == n

Apply(limit, n) ==
  CASE limit = "ingestion" -> Clamp(n, 1, 10)
    [] limit = "front_ingestion" -> Clamp(n, 1, 8)
    [] limit = "reserve" -> Clamp(n, 0, 4)

Retune(limit, n) ==
  /\ tuned' = [tuned EXCEPT ![limit] = Apply(limit, n)]
  /\ UNCHANGED <<active, work, lost, skips, todo, extra, spot, polling>>

-----------------------------------------------------------------------------
Init ==
  /\ active = [c \in Class |-> 0]
  /\ work = [c \in Class |-> [o \in Origin |-> 0]]
  /\ lost = [c \in Class |-> 0]
  /\ tuned = [ingestion |-> 3, front_ingestion |-> 4, reserve |-> 1]
  /\ skips = [c \in Class |-> 0]
  /\ todo = {}
  /\ extra = 0
  /\ spot = "none"
  /\ polling = FALSE

Cycle ==
  \/ CycleStart \/ RoundEnds \/ Drain \/ DrainEnds
  \/ \E c \in Owned : Visit(c)
  \/ ProbeFindsNone \/ ProbeFinds \/ ProbeThrows

Poll == PollProbe \/ PollFindsNone \/ PollFinds \/ PollThrows

Services == \E c \in Class, o \in Origin : Request(c, o) \/ Ends(c, o)

Operator == \E limit \in DOMAIN tuned, n \in Settings : Retune(limit, n)

Next == Cycle \/ Poll \/ Services \/ Operator

Spec == Init /\ [][Next]_vars

\* The scheduler's timer reschedules itself, dequeues return, jobs end.
FairSpec ==
  /\ Spec
  /\ WF_vars(CycleStart) /\ WF_vars((\E c \in Owned : Visit(c)) \/ RoundEnds)
  /\ WF_vars(Drain \/ DrainEnds)
  /\ WF_vars(ProbeFindsNone \/ ProbeFinds)
  /\ \A c \in Class, o \in Origin : WF_vars(Ends(c, o))

-----------------------------------------------------------------------------
(* Properties.                                                             *)

TypeOK ==
  /\ active \in [Class -> Nat]
  /\ work \in [Class -> [Origin -> Nat]]
  /\ lost \in [Class -> Nat]
  /\ tuned \in [ingestion : 1 .. 10, front_ingestion : 1 .. 8, reserve : 0 .. 4]
  /\ skips \in [Class -> Nat]
  /\ todo \subseteq Owned
  /\ extra \in 0 .. RepairSlots
  /\ spot \in Owned \cup {"extra", "none"}
  /\ polling \in BOOLEAN

Probes(c) ==
  (IF spot # "none" /\ ClassOf(spot) = c THEN 1 ELSE 0)
    + (IF polling /\ c = "front_ingestion" THEN 1 ELSE 0)

Holders(c) ==
  work[c]["user_manual"] + work[c]["scheduled_background"] + Probes(c)

\* Every counted slot has someone who will give it back, but for those whose
\* dequeue has thrown; and what runs is counted, so that nobody gives back a
\* slot that another user of the class works under.
SlotsAreHeld == \A c \in Class : active[c] = Holders(c) + lost[c]

\* "Global scheduler slot cap": the work of all classes together stays within
\* the total budget, whatever an operator sets the class limits to.
WorkFitsTotal ==
  Holders("interactive") + Holders("interactive_repair") + Holders("ingestion")
    + Holders("front_ingestion") + Holders("repair") + Holders("maintenance")
    <= TotalBudget

\* "so background ingestion cannot fully saturate the class against an
\* interactive user-triggered sync": a manual sync that is refused has another
\* manual sync, or the whole instance at its limit, to blame; lost slots do not
\* shut it out either.  It holds while no operator lowers the limit.
ManualNotShutOut ==
  ~Admits("ingestion", "user_manual") =>
     \/ TotalActive >= TotalBudget
     \/ work["ingestion"]["user_manual"] > 0

\* A class that always has rows is dispatched again and again.
EveryClassServed ==
  \A c \in Busy : []<><<ProbeFinds /\ ClassOf(spot) = c>>_vars
==============================================================================
