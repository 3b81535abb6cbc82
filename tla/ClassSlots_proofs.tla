-------------------------- MODULE ClassSlots_proofs --------------------------
(* The budgets of the workload classes, for every number of repair slots,   *)
(* every set of requests and every limit an operator sets: what runs is     *)
(* counted, and what is counted fits the total budget.                      *)
EXTENDS ClassSlots, FiniteSetTheorems, TLAPS

USE DEF Class, Origin

LEMMA ClassIsFinite == IsFiniteSet(Class)
<1>1. IsFiniteSet({"interactive"})
  BY FS_Singleton
<1>2. IsFiniteSet({"interactive"} \cup {"interactive_repair"})
  BY <1>1, FS_AddElement
<1>3. IsFiniteSet({"interactive"} \cup {"interactive_repair"} \cup {"ingestion"})
  BY <1>2, FS_AddElement
<1>4. IsFiniteSet({"interactive"} \cup {"interactive_repair"} \cup {"ingestion"}
                    \cup {"front_ingestion"})
  BY <1>3, FS_AddElement
<1>5. IsFiniteSet({"interactive"} \cup {"interactive_repair"} \cup {"ingestion"}
                    \cup {"front_ingestion"} \cup {"repair"})
  BY <1>4, FS_AddElement
<1>6. IsFiniteSet({"interactive"} \cup {"interactive_repair"} \cup {"ingestion"}
                    \cup {"front_ingestion"} \cup {"repair"} \cup {"maintenance"})
  BY <1>5, FS_AddElement
<1>7. Class = {"interactive"} \cup {"interactive_repair"} \cup {"ingestion"}
                \cup {"front_ingestion"} \cup {"repair"} \cup {"maintenance"}
  OBVIOUS
<1> QED BY <1>6, <1>7

\* The ranks that stand for the skips of the starved are numbers.
LEMMA RanksAreNumbers ==
  ASSUME skips \in [Class -> Nat]
  PROVE  Ranked \in [Class -> Nat]
<1> DEFINE Behind(c) == {d \in Class : Starved(d) /\ skips[d] < skips[c]}
<1>1. \A c \in Class : Cardinality(Behind(c)) \in Nat
  BY ClassIsFinite, FS_Subset, FS_CardinalityType
<1> QED BY <1>1, SkipAssumption DEF Ranked

-----------------------------------------------------------------------------
\* What the checks of acquireClassSlot keep true: the inductive invariant.
TotalKept == TotalActive <= TotalBudget

SlotInv == TypeOK /\ SlotsAreHeld /\ TotalKept

\* acquireClassSlot counts one slot, and only below the total budget.
LEMMA AcquireCounts ==
  ASSUME active \in [Class -> Nat], NEW c \in Class, NEW o, Acquire(c, o)
  PROVE  /\ active' \in [Class -> Nat]
         /\ active'[c] = active[c] + 1
         /\ \A d \in Class \ {c} : active'[d] = active[d]
         /\ TotalKept'
<1>1. /\ active' = [active EXCEPT ![c] = active[c] + 1]
      /\ TotalActive < TotalBudget
  BY RepairAssumption DEF Acquire, Admits, TotalCap, TotalBudget, TotalActive
<1>2. /\ active' \in [Class -> Nat]
      /\ active'[c] = active[c] + 1
      /\ \A d \in Class \ {c} : active'[d] = active[d]
  BY <1>1
<1>3. TotalActive' = TotalActive + 1
  <2>1. CASE c = "interactive"        BY <1>2, <2>1 DEF TotalActive
  <2>2. CASE c = "interactive_repair" BY <1>2, <2>2 DEF TotalActive
  <2>3. CASE c = "ingestion"          BY <1>2, <2>3 DEF TotalActive
  <2>4. CASE c = "front_ingestion"    BY <1>2, <2>4 DEF TotalActive
  <2>5. CASE c = "repair"             BY <1>2, <2>5 DEF TotalActive
  <2>6. CASE c = "maintenance"        BY <1>2, <2>6 DEF TotalActive
  <2> QED BY <2>1, <2>2, <2>3, <2>4, <2>5, <2>6
<1>4. TotalKept'
  BY <1>1, <1>2, <1>3, RepairAssumption DEF TotalKept, TotalBudget, TotalActive
<1> QED BY <1>2, <1>4

\* releaseClassSlot takes one from the count of its class, if there is one.
LEMMA ReleaseCounts ==
  ASSUME active \in [Class -> Nat], TotalKept, NEW c \in Class, ReleaseSlot(c)
  PROVE  /\ active' \in [Class -> Nat]
         /\ active[c] > 0 => active'[c] = active[c] - 1
         /\ \A d \in Class \ {c} : active'[d] = active[d]
         /\ TotalKept'
<1>1. /\ active' \in [Class -> Nat]
      /\ active[c] > 0 => active'[c] = active[c] - 1
      /\ active[c] = 0 => active'[c] = 0
      /\ \A d \in Class \ {c} : active'[d] = active[d]
  BY DEF ReleaseSlot
<1>2. \A d \in Class : active'[d] <= active[d]
  BY <1>1
<1>3. TotalActive' <= TotalActive
  BY <1>1, <1>2 DEF TotalActive
<1>4. TotalKept'
  BY <1>1, <1>3, RepairAssumption DEF TotalKept, TotalBudget, TotalActive
<1> QED BY <1>1, <1>4

\* A job or a call that starts or ends changes one count of what runs.
LEMMA WorkCounts ==
  ASSUME work \in [Class -> [Origin -> Nat]], NEW c \in Class, NEW o \in Origin
  PROVE  /\ Starts(c, o) =>
              /\ work' \in [Class -> [Origin -> Nat]]
              /\ work'[c]["user_manual"] + work'[c]["scheduled_background"]
                   = work[c]["user_manual"] + work[c]["scheduled_background"] + 1
              /\ \A d \in Class \ {c} : work'[d] = work[d]
         /\ Finishes(c, o) /\ work[c][o] > 0 =>
              /\ work' \in [Class -> [Origin -> Nat]]
              /\ work'[c]["user_manual"] + work'[c]["scheduled_background"]
                   = work[c]["user_manual"] + work[c]["scheduled_background"] - 1
              /\ \A d \in Class \ {c} : work'[d] = work[d]
<1>1. work[c] \in [Origin -> Nat]
  OBVIOUS
<1>2. ASSUME Starts(c, o)
      PROVE  /\ work' \in [Class -> [Origin -> Nat]]
             /\ work'[c] = [work[c] EXCEPT ![o] = work[c][o] + 1]
             /\ \A d \in Class \ {c} : work'[d] = work[d]
  BY <1>1, <1>2 DEF Starts
<1>3. ASSUME Finishes(c, o), work[c][o] > 0
      PROVE  /\ work' \in [Class -> [Origin -> Nat]]
             /\ work'[c] = [work[c] EXCEPT ![o] = work[c][o] - 1]
             /\ \A d \in Class \ {c} : work'[d] = work[d]
  BY <1>1, <1>3 DEF Finishes
<1>4. CASE o = "user_manual"          BY <1>1, <1>2, <1>3, <1>4
<1>5. CASE o = "scheduled_background" BY <1>1, <1>2, <1>3, <1>5
<1> QED BY <1>4, <1>5

\* Whose dequeue is awaited is one of the classes.
LEMMA SpotIsAClass ==
  ASSUME TypeOK, spot # "none"
  PROVE  ClassOf(spot) \in Class
BY OwnedAssumption DEF TypeOK, ClassOf

\* A step that leaves the counts, the work and the probes alone.
LEMMA CountsStay ==
  ASSUME SlotsAreHeld, TotalKept, UNCHANGED <<active, work, lost, spot, polling>>
  PROVE  SlotsAreHeld' /\ TotalKept'
BY DEF SlotsAreHeld, TotalKept, TotalActive, Holders, Probes

-----------------------------------------------------------------------------
(* Each part of the next-state relation keeps the invariant.               *)

LEMMA CycleKeeps ==
  ASSUME SlotInv, Cycle
  PROVE  SlotInv'
<1> USE DEF SlotInv
<1>1. CASE CycleStart
  <2>1. skips' \in [Class -> Nat]
    BY <1>1, RanksAreNumbers DEF CycleStart, TypeOK
  <2>2. TypeOK'
    BY <1>1, <2>1, RepairAssumption DEF CycleStart, TypeOK
  <2> QED BY <1>1, <2>2, CountsStay DEF CycleStart
<1>2. ASSUME NEW c \in Owned, Visit(c)
      PROVE  SlotInv'
  <2>1. c \in Class
    BY <1>2, OwnedAssumption
  <2>2. /\ active' \in [Class -> Nat]
        /\ active'[c] = active[c] + 1
        /\ \A d \in Class \ {c} : active'[d] = active[d]
        /\ TotalKept'
    BY <1>2, <2>1, AcquireCounts DEF Visit, TypeOK
  <2>3. TypeOK'
    <3>1. skips' \in [Class -> Nat]
      BY <1>2 DEF Visit, Skipped, TypeOK
    <3>2. todo' \subseteq Owned
      BY <1>2 DEF Visit, TypeOK
    <3>3. /\ work' = work /\ lost' = lost /\ tuned' = tuned /\ extra' = extra
          /\ polling' = polling /\ spot' = c
      BY <1>2 DEF Visit
    <3> QED BY <2>2, <3>1, <3>2, <3>3 DEF TypeOK
  <2>4. SlotsAreHeld'
    <3>1. SUFFICES ASSUME NEW d \in Class
                   PROVE  (active[d] = Holders(d) + lost[d])'
      BY DEF SlotsAreHeld
    <3>2. active[d] = Holders(d) + lost[d]
      BY DEF SlotsAreHeld
    <3>3. CASE d = c
      BY <1>2, <2>2, <3>2, <3>3 DEF Visit, Holders, Probes, ClassOf, TypeOK
    <3>4. CASE d # c
      BY <1>2, <2>2, <3>2, <3>4, OwnedAssumption
      DEF Visit, Holders, Probes, ClassOf, TypeOK
    <3> QED BY <3>3, <3>4
  <2> QED BY <2>2, <2>3, <2>4
<1>3. CASE RoundEnds
  <2>1. TypeOK'
    BY <1>3 DEF RoundEnds, Skipped, TypeOK
  <2> QED BY <1>3, <2>1, CountsStay DEF RoundEnds
<1>4. CASE Drain
  <2>1. /\ active' \in [Class -> Nat]
        /\ active'["repair"] = active["repair"] + 1
        /\ \A d \in Class \ {"repair"} : active'[d] = active[d]
        /\ TotalKept'
    BY <1>4, AcquireCounts DEF Drain, TypeOK
  <2>2. TypeOK'
    BY <1>4, <2>1, RepairAssumption DEF Drain, TypeOK
  <2>3. SlotsAreHeld'
    <3>1. SUFFICES ASSUME NEW d \in Class
                   PROVE  (active[d] = Holders(d) + lost[d])'
      BY DEF SlotsAreHeld
    <3>2. active[d] = Holders(d) + lost[d]
      BY DEF SlotsAreHeld
    <3>3. CASE d = "repair"
      BY <1>4, <2>1, <3>2, <3>3 DEF Drain, Holders, Probes, ClassOf, TypeOK
    <3>4. CASE d # "repair"
      BY <1>4, <2>1, <3>2, <3>4 DEF Drain, Holders, Probes, ClassOf, TypeOK
    <3> QED BY <3>3, <3>4
  <2> QED BY <2>1, <2>2, <2>3
<1>5. CASE DrainEnds
  <2>1. TypeOK'
    BY <1>5, RepairAssumption DEF DrainEnds, TypeOK
  <2> QED BY <1>5, <2>1, CountsStay DEF DrainEnds
<1>6. CASE ProbeFindsNone
  <2> DEFINE k == ClassOf(spot)
  <2>1. k \in Class
    BY <1>6, SpotIsAClass DEF ProbeFindsNone
  <2>2. /\ active' \in [Class -> Nat]
        /\ active[k] > 0 => active'[k] = active[k] - 1
        /\ \A d \in Class \ {k} : active'[d] = active[d]
        /\ TotalKept'
    <3>1. ReleaseSlot(k)
      BY <1>6 DEF ProbeFindsNone
    <3> HIDE DEF k
    <3> QED BY <2>1, <3>1, ReleaseCounts DEF TypeOK
  <2>3. TypeOK'
    BY <1>6, <2>2, RepairAssumption DEF ProbeFindsNone, InVain, Skipped, TypeOK
  <2>4. SlotsAreHeld'
    <3>1. SUFFICES ASSUME NEW d \in Class
                   PROVE  (active[d] = Holders(d) + lost[d])'
      BY DEF SlotsAreHeld
    <3>2. active[d] = Holders(d) + lost[d] /\ lost' = lost
      BY <1>6 DEF SlotsAreHeld, ProbeFindsNone
    <3>3. CASE d = k
      <4>1. Holders(d) >= 1 /\ Holders(d)' = Holders(d) - 1
        BY <1>6, <3>3 DEF ProbeFindsNone, Holders, Probes, TypeOK
      <4> QED BY <2>1, <2>2, <3>2, <3>3, <4>1 DEF Holders, Probes, TypeOK
    <3>4. CASE d # k
      <4>1. Holders(d)' = Holders(d)
        BY <1>6, <3>4 DEF ProbeFindsNone, Holders, Probes, TypeOK
      <4> QED BY <2>2, <3>2, <3>4, <4>1
    <3> QED BY <3>3, <3>4
  <2> QED BY <2>2, <2>3, <2>4
<1>7. CASE ProbeFinds
  <2> DEFINE k == ClassOf(spot)
  <2>1. k \in Class
    BY <1>7, SpotIsAClass DEF ProbeFinds
  <2>2. /\ work' \in [Class -> [Origin -> Nat]]
        /\ work'[k]["user_manual"] + work'[k]["scheduled_background"]
             = work[k]["user_manual"] + work[k]["scheduled_background"] + 1
        /\ \A d \in Class \ {k} : work'[d] = work[d]
    <3>1. Starts(k, "scheduled_background")
      BY <1>7 DEF ProbeFinds
    <3> HIDE DEF k
    <3> QED BY <2>1, <3>1, WorkCounts DEF TypeOK
  <2>3. TypeOK'
    <3>1. skips' \in [Class -> Nat]
      BY <1>7, OwnedAssumption DEF ProbeFinds, TypeOK
    <3> QED BY <1>7, <2>2, <3>1 DEF ProbeFinds, TypeOK
  <2>4. SlotsAreHeld' /\ TotalKept'
    <3>1. TotalKept'
      BY <1>7 DEF ProbeFinds, TotalKept, TotalActive
    <3>2. SUFFICES ASSUME NEW d \in Class
                   PROVE  (active[d] = Holders(d) + lost[d])'
      BY <3>1 DEF SlotsAreHeld
    <3>3. active[d] = Holders(d) + lost[d]
      BY DEF SlotsAreHeld
    <3>4. Holders(d)' = Holders(d)
      <4>1. CASE d = k
        BY <1>7, <2>2, <4>1 DEF ProbeFinds, Holders, Probes, TypeOK
      <4>2. CASE d # k
        BY <1>7, <2>2, <4>2 DEF ProbeFinds, Holders, Probes, TypeOK
      <4> QED BY <4>1, <4>2
    <3> QED BY <1>7, <3>3, <3>4 DEF ProbeFinds
  <2> QED BY <2>3, <2>4
<1>8. CASE ProbeThrows
  <2> DEFINE k == ClassOf(spot)
  <2>1. k \in Class
    BY <1>8, SpotIsAClass DEF ProbeThrows
  <2>2. /\ lost' \in [Class -> Nat]
        /\ lost'[k] = lost[k] + 1
        /\ \A d \in Class \ {k} : lost'[d] = lost[d]
    <3>1. Loses(k)
      BY <1>8 DEF ProbeThrows
    <3> HIDE DEF k
    <3> QED BY <2>1, <3>1 DEF Loses, TypeOK
  <2>3. TypeOK'
    BY <1>8, <2>2, RepairAssumption DEF ProbeThrows, TypeOK
  <2>4. TotalKept'
    BY <1>8 DEF ProbeThrows, TotalKept, TotalActive
  <2>5. SlotsAreHeld'
    <3>1. SUFFICES ASSUME NEW d \in Class
                   PROVE  (active[d] = Holders(d) + lost[d])'
      BY DEF SlotsAreHeld
    <3>2. active[d] = Holders(d) + lost[d] /\ active' = active
      BY <1>8 DEF SlotsAreHeld, ProbeThrows
    <3>3. CASE d = k
      <4>1. Holders(d)' = Holders(d) - 1
        BY <1>8, <3>3 DEF ProbeThrows, Holders, Probes, TypeOK
      <4> QED BY <2>1, <2>2, <3>2, <3>3, <4>1 DEF Holders, Probes, TypeOK
    <3>4. CASE d # k
      <4>1. Holders(d)' = Holders(d)
        BY <1>8, <3>4 DEF ProbeThrows, Holders, Probes, TypeOK
      <4> QED BY <2>2, <3>2, <3>4, <4>1
    <3> QED BY <3>3, <3>4
  <2> QED BY <2>3, <2>4, <2>5
<1> QED BY <1>1, <1>2, <1>3, <1>4, <1>5, <1>6, <1>7, <1>8 DEF Cycle

LEMMA PollKeeps ==
  ASSUME SlotInv, Poll
  PROVE  SlotInv'
<1> USE DEF SlotInv
<1> DEFINE k == "front_ingestion"
<1>1. CASE PollProbe
  <2>1. /\ active' \in [Class -> Nat]
        /\ active'[k] = active[k] + 1
        /\ \A d \in Class \ {k} : active'[d] = active[d]
        /\ TotalKept'
    BY <1>1, AcquireCounts DEF PollProbe, TypeOK
  <2>2. TypeOK'
    BY <1>1, <2>1 DEF PollProbe, TypeOK
  <2>3. SlotsAreHeld'
    BY <1>1, <2>1 DEF PollProbe, SlotsAreHeld, Holders, Probes, TypeOK
  <2> QED BY <2>1, <2>2, <2>3
<1>2. CASE PollFindsNone
  <2>1. /\ active' \in [Class -> Nat]
        /\ active[k] > 0 => active'[k] = active[k] - 1
        /\ \A d \in Class \ {k} : active'[d] = active[d]
        /\ TotalKept'
    BY <1>2, ReleaseCounts DEF PollFindsNone, TypeOK
  <2>2. TypeOK'
    BY <1>2, <2>1 DEF PollFindsNone, TypeOK
  <2>3. SlotsAreHeld'
    BY <1>2, <2>1 DEF PollFindsNone, SlotsAreHeld, Holders, Probes, TypeOK
  <2> QED BY <2>1, <2>2, <2>3
<1>3. CASE PollFinds
  <2>1. /\ work' \in [Class -> [Origin -> Nat]]
        /\ work'[k]["user_manual"] + work'[k]["scheduled_background"]
             = work[k]["user_manual"] + work[k]["scheduled_background"] + 1
        /\ \A d \in Class \ {k} : work'[d] = work[d]
    BY <1>3, WorkCounts DEF PollFinds, PollOrigin, TypeOK
  <2>2. TypeOK'
    BY <1>3, <2>1 DEF PollFinds, TypeOK
  <2>3. SlotsAreHeld'
    BY <1>3, <2>1 DEF PollFinds, SlotsAreHeld, Holders, Probes, TypeOK
  <2>4. TotalKept'
    BY <1>3 DEF PollFinds, TotalKept, TotalActive
  <2> QED BY <2>2, <2>3, <2>4
<1>4. CASE PollThrows
  <2>1. /\ lost' \in [Class -> Nat]
        /\ lost'[k] = lost[k] + 1
        /\ \A d \in Class \ {k} : lost'[d] = lost[d]
    BY <1>4 DEF PollThrows, Loses, TypeOK
  <2>2. TypeOK'
    BY <1>4, <2>1 DEF PollThrows, TypeOK
  <2>3. SlotsAreHeld'
    <3>1. SUFFICES ASSUME NEW d \in Class
                   PROVE  (active[d] = Holders(d) + lost[d])'
      BY DEF SlotsAreHeld
    <3>2. active[d] = Holders(d) + lost[d] /\ active' = active
      BY <1>4 DEF SlotsAreHeld, PollThrows
    <3>3. CASE d = k
      <4>1. Holders(d)' = Holders(d) - 1
        BY <1>4, <3>3 DEF PollThrows, Holders, Probes, TypeOK
      <4> QED BY <2>1, <3>2, <3>3, <4>1 DEF Holders, Probes, TypeOK
    <3>4. CASE d # k
      <4>1. Holders(d)' = Holders(d)
        BY <1>4, <3>4 DEF PollThrows, Holders, Probes, TypeOK
      <4> QED BY <2>1, <3>2, <3>4, <4>1
    <3> QED BY <3>3, <3>4
  <2>4. TotalKept'
    BY <1>4 DEF PollThrows, TotalKept, TotalActive
  <2> QED BY <2>2, <2>3, <2>4
<1> QED BY <1>1, <1>2, <1>3, <1>4 DEF Poll

LEMMA ServicesKeep ==
  ASSUME SlotInv, Services
  PROVE  SlotInv'
<1> USE DEF SlotInv
<1>1. PICK c \in Class, o \in Origin : Request(c, o) \/ Ends(c, o)
  BY DEF Services
<1>2. CASE Request(c, o)
  <2>1. /\ active' \in [Class -> Nat]
        /\ active'[c] = active[c] + 1
        /\ \A d \in Class \ {c} : active'[d] = active[d]
        /\ TotalKept'
    BY <1>2, AcquireCounts DEF Request, TypeOK
  <2>2. /\ work' \in [Class -> [Origin -> Nat]]
        /\ work'[c]["user_manual"] + work'[c]["scheduled_background"]
             = work[c]["user_manual"] + work[c]["scheduled_background"] + 1
        /\ \A d \in Class \ {c} : work'[d] = work[d]
    BY <1>2, WorkCounts DEF Request, TypeOK
  <2>3. TypeOK'
    BY <1>2, <2>1, <2>2 DEF Request, TypeOK
  <2>4. SlotsAreHeld'
    <3>1. SUFFICES ASSUME NEW d \in Class
                   PROVE  (active[d] = Holders(d) + lost[d])'
      BY DEF SlotsAreHeld
    <3>2. active[d] = Holders(d) + lost[d]
      BY DEF SlotsAreHeld
    <3>3. Probes(d)' = Probes(d) /\ lost' = lost
      BY <1>2 DEF Request, Probes
    <3>4. CASE d = c
      BY <2>1, <2>2, <3>2, <3>3, <3>4 DEF Holders, Probes, TypeOK
    <3>5. CASE d # c
      BY <2>1, <2>2, <3>2, <3>3, <3>5 DEF Holders
    <3> QED BY <3>4, <3>5
  <2> QED BY <2>1, <2>3, <2>4
<1>3. CASE Ends(c, o)
  <2>1. /\ active' \in [Class -> Nat]
        /\ active[c] > 0 => active'[c] = active[c] - 1
        /\ \A d \in Class \ {c} : active'[d] = active[d]
        /\ TotalKept'
    BY <1>3, ReleaseCounts DEF Ends, TypeOK
  <2>2. /\ work' \in [Class -> [Origin -> Nat]]
        /\ work'[c]["user_manual"] + work'[c]["scheduled_background"]
             = work[c]["user_manual"] + work[c]["scheduled_background"] - 1
        /\ \A d \in Class \ {c} : work'[d] = work[d]
    BY <1>3, WorkCounts DEF Ends, TypeOK
  <2>3. TypeOK'
    BY <1>3, <2>1, <2>2 DEF Ends, TypeOK
  <2>4. SlotsAreHeld'
    <3>1. SUFFICES ASSUME NEW d \in Class
                   PROVE  (active[d] = Holders(d) + lost[d])'
      BY DEF SlotsAreHeld
    <3>2. active[d] = Holders(d) + lost[d]
      BY DEF SlotsAreHeld
    <3>3. Probes(d)' = Probes(d) /\ Probes(d) \in Nat /\ lost' = lost
      BY <1>3 DEF Ends, Probes
    <3>4. CASE d = c
      <4>1. Holders(c) > 0
        <5>1. /\ work[c]["user_manual"] \in Nat
              /\ work[c]["scheduled_background"] \in Nat
          BY DEF TypeOK
        <5>2. CASE o = "user_manual"
          BY <1>3, <3>3, <3>4, <5>1, <5>2 DEF Ends, Holders
        <5>3. CASE o = "scheduled_background"
          BY <1>3, <3>3, <3>4, <5>1, <5>3 DEF Ends, Holders
        <5> QED BY <5>2, <5>3
      <4>2. Holders(c)' = Holders(c) - 1
        BY <2>2, <3>3, <3>4 DEF Holders, TypeOK
      <4>3. Holders(c) \in Nat /\ active[c] \in Nat /\ lost[c] \in Nat
        BY <3>3, <3>4 DEF Holders, TypeOK
      <4> QED BY <2>1, <3>2, <3>3, <3>4, <4>1, <4>2, <4>3
    <3>5. CASE d # c
      BY <2>1, <2>2, <3>2, <3>3, <3>5 DEF Holders
    <3> QED BY <3>4, <3>5
  <2> QED BY <2>1, <2>3, <2>4
<1> QED BY <1>1, <1>2, <1>3

\* Whatever an operator asks for, the setters clamp it; what is already running
\* stays, also above a lowered limit.
LEMMA OperatorKeeps ==
  ASSUME SlotInv, Operator
  PROVE  SlotInv'
<1> USE DEF SlotInv
<1>1. PICK limit \in DOMAIN tuned, n \in Settings : Retune(limit, n)
  BY DEF Operator
<1>2. tuned \in [ingestion : 1 .. 10, front_ingestion : 1 .. 8, reserve : 0 .. 4]
  BY DEF TypeOK
<1>3. limit \in {"ingestion", "front_ingestion", "reserve"} /\ n \in Int
  BY <1>1, <1>2, SettingsAssumption
<1>4. tuned' \in [ingestion : 1 .. 10, front_ingestion : 1 .. 8, reserve : 0 .. 4]
  <2>1. tuned' = [tuned EXCEPT ![limit] = Apply(limit, n)]
    BY <1>1 DEF Retune
  <2>2. CASE limit = "ingestion"
    BY <1>2, <1>3, <2>1, <2>2 DEF Apply, Clamp
  <2>3. CASE limit = "front_ingestion"
    BY <1>2, <1>3, <2>1, <2>3 DEF Apply, Clamp
  <2>4. CASE limit = "reserve"
    BY <1>2, <1>3, <2>1, <2>4 DEF Apply, Clamp
  <2> QED BY <1>3, <2>2, <2>3, <2>4
<1>5. TypeOK'
  BY <1>1, <1>4 DEF Retune, TypeOK
<1> QED BY <1>1, <1>5, CountsStay DEF Retune

-----------------------------------------------------------------------------
LEMMA SlotInvHolds == Spec => []SlotInv
<1>1. Init => SlotInv
  <2>1. SUFFICES ASSUME Init PROVE SlotInv
    OBVIOUS
  <2>2. \A c \in Class : /\ active[c] = 0
                         /\ lost[c] = 0
                         /\ work[c]["user_manual"] = 0
                         /\ work[c]["scheduled_background"] = 0
    BY <2>1 DEF Init
  <2>3. /\ active \in [Class -> Nat]
        /\ work \in [Class -> [Origin -> Nat]]
        /\ lost \in [Class -> Nat]
        /\ skips \in [Class -> Nat]
    BY <2>1 DEF Init
  <2>4. tuned \in [ingestion : 1 .. 10, front_ingestion : 1 .. 8, reserve : 0 .. 4]
    BY <2>1 DEF Init
  <2>5. TypeOK
    <3>1. todo = {} /\ extra = 0 /\ spot = "none" /\ polling = FALSE
      BY <2>1 DEF Init
    <3>2. 0 \in 0 .. RepairSlots
      BY RepairAssumption
    <3> QED BY <2>3, <2>4, <3>1, <3>2 DEF TypeOK
  <2>6. SlotsAreHeld
    BY <2>1, <2>2 DEF Init, SlotsAreHeld, Holders, Probes
  <2>7. TotalKept
    BY <2>2, RepairAssumption DEF TotalKept, TotalActive, TotalBudget
  <2> QED BY <2>5, <2>6, <2>7 DEF SlotInv
<1>2. SlotInv /\ [Next]_vars => SlotInv'
  <2>1. CASE UNCHANGED vars
    <3>1. SlotInv => TypeOK'
      BY <2>1 DEF SlotInv, TypeOK, vars
    <3> QED BY <2>1, <3>1, CountsStay DEF SlotInv, vars
  <2> QED BY <2>1, CycleKeeps, PollKeeps, ServicesKeep, OperatorKeeps DEF Next
<1> QED BY <1>1, <1>2, PTL DEF Spec

\* Counts and limits keep their types; in particular the live limits stay in
\* the ranges their setters clamp to.
THEOREM TypeCorrect == Spec => []TypeOK
<1>1. SlotInv => TypeOK
  BY DEF SlotInv
<1> QED BY <1>1, SlotInvHolds, PTL

\* Every counted slot has an owner who will give it back, but for those lost to
\* dequeues that threw; no user of a class gives back what another works under.
THEOREM EverySlotIsHeld == Spec => []SlotsAreHeld
<1>1. SlotInv => SlotsAreHeld
  BY DEF SlotInv
<1> QED BY <1>1, SlotInvHolds, PTL

\* The global slot cap: the jobs, calls and probes of all classes together stay
\* within the total budget, whatever the limits are set to.
THEOREM WorkStaysInBudget == Spec => []WorkFitsTotal
<1>1. SlotInv => WorkFitsTotal
  <2>1. SUFFICES ASSUME SlotInv PROVE WorkFitsTotal
    OBVIOUS
  <2>2. \A c \in Class : /\ active[c] = Holders(c) + lost[c]
                         /\ Holders(c) \in Int
                         /\ lost[c] \in Nat
    BY <2>1 DEF SlotInv, SlotsAreHeld, TypeOK, Holders, Probes
  <2>3. TotalActive <= TotalBudget /\ TotalBudget \in Nat
    BY <2>1, RepairAssumption DEF SlotInv, TotalKept, TotalBudget
  <2> QED BY <2>2, <2>3 DEF WorkFitsTotal, TotalActive
<1> QED BY <1>1, SlotInvHolds, PTL

-----------------------------------------------------------------------------
(* The reserve of the ingestion class.                                     *)

\* What is in use besides manual syncs, lost slots included, leaves one.
ReserveKept ==
  active["ingestion"] + 1 <= tuned["ingestion"] + work["ingestion"]["user_manual"]

NeverLowered == tuned["ingestion"] <= tuned'["ingestion"]

LEMMA ReserveType ==
  ASSUME TypeOK
  PROVE  /\ active \in [Class -> Nat]
         /\ active["ingestion"] \in Nat /\ tuned["ingestion"] \in Nat
         /\ work \in [Class -> [Origin -> Nat]]
         /\ work["ingestion"]["user_manual"] \in Nat
  BY DEF TypeOK

LEMMA ReserveFrame ==
  ASSUME TypeOK, TypeOK', ReserveKept, NeverLowered,
         active'["ingestion"] <= active["ingestion"],
         work'["ingestion"]["user_manual"] = work["ingestion"]["user_manual"]
  PROVE  ReserveKept'
<1>1. /\ active["ingestion"] \in Nat /\ tuned["ingestion"] \in Nat
      /\ work["ingestion"]["user_manual"] \in Nat
      /\ active'["ingestion"] \in Nat /\ tuned'["ingestion"] \in Nat
  BY DEF TypeOK
<1> QED BY <1>1 DEF ReserveKept, NeverLowered

\* A background acquire of the class is refused the last slot.
LEMMA AcquireLeaves ==
  ASSUME TypeOK, ReserveKept, NEW c \in Class, Acquire(c, "scheduled_background"),
         UNCHANGED <<work, tuned>>
  PROVE  ReserveKept'
<1>1. /\ active["ingestion"] \in Nat /\ tuned["ingestion"] \in Nat
      /\ active \in [Class -> Nat] /\ work["ingestion"]["user_manual"] \in Nat
  BY ReserveType
<1>2. CASE c = "ingestion"
  <2>1. active["ingestion"] < ClassMax("ingestion", "scheduled_background")
    BY <1>2 DEF Acquire, Admits
  <2>2. active["ingestion"] + 1 < tuned["ingestion"]
    BY <1>1, <2>1 DEF ClassMax, MaxConcurrency, Reserve
  <2>3. active'["ingestion"] = active["ingestion"] + 1
    BY <1>1, <1>2 DEF Acquire
  <2> QED BY <1>1, <2>2, <2>3 DEF ReserveKept
<1>3. CASE c # "ingestion"
  <2>1. active'["ingestion"] = active["ingestion"]
    BY <1>1, <1>3 DEF Acquire
  <2> QED BY <2>1 DEF ReserveKept
<1> QED BY <1>2, <1>3

LEMMA ReserveStep ==
  ASSUME SlotInv, SlotInv', ReserveKept, [Next]_vars, [NeverLowered]_vars
  PROVE  ReserveKept'
<1>0. /\ TypeOK /\ TypeOK' /\ SlotsAreHeld
      /\ active["ingestion"] \in Nat /\ tuned["ingestion"] \in Nat
      /\ active \in [Class -> Nat]
      /\ work \in [Class -> [Origin -> Nat]]
      /\ work["ingestion"] \in [Origin -> Nat]
      /\ work["ingestion"]["user_manual"] \in Nat
  BY ReserveType DEF SlotInv
<1>1. NeverLowered
  BY <1>0 DEF NeverLowered, vars
<1>2. ASSUME NEW c \in Class, ReleaseSlot(c) PROVE active'["ingestion"] <= active["ingestion"]
  BY <1>0, <1>2 DEF ReleaseSlot
<1>3. ASSUME NEW c \in Class, Starts(c, "scheduled_background")
      PROVE  work'["ingestion"]["user_manual"] = work["ingestion"]["user_manual"]
  <2>1. CASE c = "ingestion"
    <3>1. work'["ingestion"] = [work["ingestion"] EXCEPT !["scheduled_background"] = @ + 1]
      BY <1>0, <1>3, <2>1 DEF Starts
    <3> QED BY <1>0, <3>1
  <2>2. CASE c # "ingestion"
    BY <1>0, <1>3, <2>2 DEF Starts
  <2> QED BY <2>1, <2>2
<1>4. CASE Cycle
  <2>1. CASE CycleStart \/ RoundEnds \/ DrainEnds \/ ProbeThrows
    BY <1>0, <1>1, <2>1, ReserveFrame DEF CycleStart, RoundEnds, DrainEnds, ProbeThrows
  <2>2. ASSUME NEW c \in Owned, Visit(c) PROVE ReserveKept'
    BY <1>0, <2>2, AcquireLeaves, OwnedAssumption DEF Visit
  <2>3. CASE Drain
    BY <1>0, <2>3, AcquireLeaves DEF Drain
  <2>4. CASE ProbeFindsNone
    BY <1>0, <1>1, <1>2, <2>4, SpotIsAClass, ReserveFrame DEF ProbeFindsNone
  <2>5. CASE ProbeFinds
    BY <1>0, <1>1, <1>3, <2>5, SpotIsAClass, ReserveFrame DEF ProbeFinds
  <2> QED BY <1>4, <2>1, <2>2, <2>3, <2>4, <2>5 DEF Cycle
<1>5. CASE Poll
  <2>1. CASE PollProbe
    BY <1>0, <2>1, AcquireLeaves DEF PollProbe, PollOrigin
  <2>2. CASE PollFindsNone
    BY <1>0, <1>1, <1>2, <2>2, ReserveFrame DEF PollFindsNone
  <2>3. CASE PollFinds
    BY <1>0, <1>1, <1>3, <2>3, ReserveFrame DEF PollFinds, PollOrigin
  <2>4. CASE PollThrows
    BY <1>0, <1>1, <2>4, ReserveFrame DEF PollThrows
  <2> QED BY <1>5, <2>1, <2>2, <2>3, <2>4 DEF Poll
<1>6. ASSUME NEW c \in Class, NEW o \in Origin, Request(c, o) PROVE ReserveKept'
  <2>0. /\ active' = [active EXCEPT ![c] = active[c] + 1]
        /\ work' = [work EXCEPT ![c][o] = @ + 1]
        /\ UNCHANGED tuned
    BY <1>6 DEF Request, Acquire, Starts
  <2>1. CASE c # "ingestion"
    BY <1>0, <2>0, <2>1 DEF ReserveKept
  <2>2. CASE c = "ingestion" /\ o = "user_manual"
    <3>1. active'["ingestion"] = active["ingestion"] + 1
      BY <1>0, <2>0, <2>2
    <3>2. work'["ingestion"] = [work["ingestion"] EXCEPT !["user_manual"] = @ + 1]
      BY <1>0, <2>0, <2>2
    <3>3. work'["ingestion"]["user_manual"] = work["ingestion"]["user_manual"] + 1
      BY <1>0, <3>2
    <3> QED BY <1>0, <2>0, <3>1, <3>3 DEF ReserveKept
  <2>3. CASE c = "ingestion" /\ o = "scheduled_background"
    <3>1. active["ingestion"] < ClassMax("ingestion", "scheduled_background")
      BY <1>6, <2>3 DEF Request, Acquire, Admits
    <3>2. active["ingestion"] + 1 < tuned["ingestion"]
      BY <1>0, <3>1 DEF ClassMax, MaxConcurrency, Reserve
    <3>3. active'["ingestion"] = active["ingestion"] + 1
      BY <1>0, <2>0, <2>3
    <3>4. work'["ingestion"]["user_manual"] = work["ingestion"]["user_manual"]
      BY <1>3, <1>6, <2>3 DEF Request
    <3> QED BY <1>0, <2>0, <3>2, <3>3, <3>4 DEF ReserveKept
  <2> QED BY <2>1, <2>2, <2>3
<1>7. ASSUME NEW c \in Class, NEW o \in Origin, Ends(c, o) PROVE ReserveKept'
  <2>0. /\ work' = [work EXCEPT ![c][o] = @ - 1] /\ ReleaseSlot(c) /\ work[c][o] > 0
        /\ UNCHANGED tuned
    BY <1>7 DEF Ends, Finishes
  <2>1. CASE c # "ingestion" \/ o = "scheduled_background"
    <3>1. work'["ingestion"]["user_manual"] = work["ingestion"]["user_manual"]
      <4>1. CASE c # "ingestion"
        BY <1>0, <2>0, <4>1
      <4>2. CASE c = "ingestion" /\ o = "scheduled_background"
        <5>1. work'["ingestion"] = [work["ingestion"] EXCEPT !["scheduled_background"] = @ - 1]
          BY <1>0, <2>0, <4>2
        <5> QED BY <1>0, <5>1
      <4> QED BY <2>1, <4>1, <4>2
    <3> QED BY <1>0, <1>1, <1>2, <2>0, <3>1, ReserveFrame
  <2>2. CASE c = "ingestion" /\ o = "user_manual"
    <3>1. work'["ingestion"] = [work["ingestion"] EXCEPT !["user_manual"] = @ - 1]
      BY <1>0, <2>0, <2>2
    <3>2. work'["ingestion"]["user_manual"] = work["ingestion"]["user_manual"] - 1
      BY <1>0, <3>1
    <3>3. active["ingestion"] > 0
      <4>1. active["ingestion"] = Holders("ingestion") + lost["ingestion"]
        BY <1>0 DEF SlotsAreHeld
      <4>2. /\ Probes("ingestion") \in Nat /\ lost["ingestion"] \in Nat
            /\ work["ingestion"]["scheduled_background"] \in Nat
        BY <1>0 DEF Probes, TypeOK
      <4> QED BY <1>0, <2>0, <2>2, <4>1, <4>2 DEF Holders
    <3>4. active'["ingestion"] = active["ingestion"] - 1
      BY <1>0, <2>0, <2>2, <3>3 DEF ReleaseSlot
    <3> QED BY <1>0, <2>0, <3>2, <3>4 DEF ReserveKept
  <2> QED BY <2>1, <2>2
<1>8. CASE Operator
  BY <1>0, <1>1, <1>8, ReserveFrame DEF Operator, Retune
<1>9. CASE UNCHANGED vars
  BY <1>9 DEF vars, ReserveKept
<1> QED BY <1>4, <1>5, <1>6, <1>7, <1>8, <1>9 DEF Next, Services

\* As long as no operator lowers the limit of the class, background ingestion,
\* the probes and the slots lost to failed dequeues leave one slot to manual
\* syncs: one that is refused meets another one, or the cap of the instance.
THEOREM ManualFindsRoom ==
  Spec /\ [][NeverLowered]_vars => []ManualNotShutOut
<1>1. Init => ReserveKept
  BY DEF Init, ReserveKept
<1>2. SlotInv /\ SlotInv' /\ ReserveKept /\ [Next]_vars /\ [NeverLowered]_vars => ReserveKept'
  BY ReserveStep
<1>3. SlotInv /\ ReserveKept => ManualNotShutOut
  <2>1. SUFFICES ASSUME SlotInv, ReserveKept, ~Admits("ingestion", "user_manual"),
                        ~(TotalActive >= TotalBudget)
                 PROVE  work["ingestion"]["user_manual"] > 0
    BY DEF ManualNotShutOut
  <2>2. /\ active["ingestion"] \in Nat /\ tuned["ingestion"] \in Nat
        /\ work["ingestion"]["user_manual"] \in Nat
    BY <2>1, ReserveType DEF SlotInv
  <2>3. TotalActive \in Int /\ TotalBudget \in Int
    BY <2>1, RepairAssumption DEF SlotInv, TypeOK, TotalActive, TotalBudget
  <2>4. ~(active["ingestion"] < tuned["ingestion"])
    BY <2>1, <2>3 DEF Admits, ClassMax, MaxConcurrency, TotalCap
  <2> QED BY <2>1, <2>2, <2>4 DEF ReserveKept
<1> QED BY <1>1, <1>2, <1>3, SlotInvHolds, PTL DEF Spec
=============================================================================
