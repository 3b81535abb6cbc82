------------------------- MODULE OAuthRefresh_proofs -------------------------
(***************************************************************************)
(* Machine-checked proofs about OAuthRefresh, for any processes, faults    *)
(* and number of tokens.                                                   *)
(***************************************************************************)
EXTENDS OAuthRefresh, TLAPS

Pcs == {"idle", "acquire", "recheck", "read", "post", "poll", "write_access",
        "write_expiry", "write_refresh", "terminal", "wipe_access",
        "wipe_refresh", "wipe_expiry", "release"}

-----------------------------------------------------------------------------
(* TypeOK is an invariant.                                                 *)

LEMMA NoFlightType == NoFlight \in FlightRecord
  BY RefreshAssumption DEF NoFlight, FlightRecord, Kinds, Authoritative, Tokens

\* A flight that only moves on keeps its type.
LEMMA GoesType ==
  ASSUME TypeOK, NEW p \in Procs, NEW pc \in Pcs, Goes(p, pc)
  PROVE  flight' \in [Procs -> FlightRecord]
  <1>1. [flight[p] EXCEPT !.pc = pc] \in FlightRecord
    BY DEF TypeOK, FlightRecord, Pcs
  <1> QED
    BY <1>1 DEF Goes, TypeOK

LEMMA LeavesType ==
  ASSUME TypeOK, NEW p \in Procs, Leaves(p)
  PROVE  flight' \in [Procs -> FlightRecord]
  <1>1. Leaving(p) \in FlightRecord
    BY NoFlightType DEF TypeOK, FlightRecord, Leaving
  <1> QED
    BY <1>1 DEF Leaves, TypeOK

LEMMA TypeInit == ASSUME Init PROVE TypeOK
  <1>1. 0 \in Tokens /\ 1 \in Tokens /\ 1 \in 1 .. MaxToken
    BY RefreshAssumption DEF Tokens
  <1>2. lease \in [owner : Procs \cup {None}, expired : BOOLEAN]
    BY DEF Init, Free
  <1>3. operator \in [pc : {"idle", "write_access", "write_expiry", "write_refresh"},
                      got : Tokens]
    BY <1>1 DEF Init, NoOperator
  <1> QED
    BY <1>1, <1>2, <1>3, NoFlightType DEF Init, TypeOK

\* The steps of a flight, as far as they write its record.
FlightSteps(p) ==
  \/ \E kind \in Kinds : Start(p, kind)
  \/ Acquires(p) \/ Refreshes(p) \/ Wipes(p) \/ Throw(p) \/ Crash(p)

LEMMA FlightType ==
  ASSUME TypeOK, NEW p \in Procs, FlightSteps(p)
  PROVE  flight' \in [Procs -> FlightRecord]
  <1> USE DEF TypeOK
  <1>0. flight[p] \in FlightRecord /\ issued + 1 \in Nat
    OBVIOUS
  <1>1. ASSUME NEW kind \in Kinds, Start(p, kind) PROVE flight' \in [Procs -> FlightRecord]
    <2> DEFINE t == IF kind = "401_retry" THEN access ELSE 0
    <2>1. t \in Tokens
      BY RefreshAssumption DEF Tokens
    <2>2. flight' = [flight EXCEPT ![p] =
                       [NoFlight EXCEPT !.pc = "acquire", !.kind = kind, !.rejected = t]]
      BY <1>1 DEF Start
    <2> HIDE DEF t
    <2>3. [NoFlight EXCEPT !.pc = "acquire", !.kind = kind, !.rejected = t] \in FlightRecord
      BY <2>1, NoFlightType DEF FlightRecord
    <2> QED
      BY <2>2, <2>3
  <1>2. ASSUME Acquire(p) \/ Degrade(p) \/ NoReuse(p) \/ Unread(p) PROVE flight' \in [Procs -> FlightRecord]
    <2>1. [flight[p] EXCEPT !.pc = "recheck", !.leased = TRUE] \in FlightRecord
      BY <1>0 DEF FlightRecord
    <2>2. 0 \in Tokens
      BY RefreshAssumption DEF Tokens
    <2>3. [flight[p] EXCEPT !.pc = "read", !.rejected = 0] \in FlightRecord
      BY <1>0, <2>2 DEF FlightRecord
    <2>4. CASE Acquire(p)
      BY <2>1, <2>4 DEF Acquire
    <2>5. CASE Degrade(p)
      BY <2>3, <2>5 DEF Degrade
    <2>6. CASE NoReuse(p)
      BY <2>3, <2>6 DEF NoReuse
    <2>7. CASE Unread(p)
      BY <2>3, <2>7, GoesType DEF Unread, Pcs
    <2> QED
      BY <1>2, <2>4, <2>5, <2>6, <2>7
  <1>3. ASSUME Release(p) \/ Crash(p) PROVE flight' \in [Procs -> FlightRecord]
    BY <1>3, NoFlightType DEF Release, Crash
  <1>4. ASSUME Reuse(p) \/ PostLost(p) \/ PostTransient(p) \/ WriteRefresh(p) \/ WipeSkipped(p)
                 \/ WipeExpiry(p) \/ Throw(p)
        PROVE  flight' \in [Procs -> FlightRecord]
    BY <1>4, LeavesType
    DEF Reuse, PostLost, PostTransient, WriteRefresh, WipeSkipped, WipeExpiry, Throw
  <1>5. ASSUME PostRejected(p) \/ PostRefused(p) \/ WriteAccess(p) \/ WriteExpiry(p) \/ WipeAccess(p)
                 \/ WipeRefresh(p)
        PROVE  flight' \in [Procs -> FlightRecord]
    BY <1>5, GoesType
    DEF PostRejected, PostRefused, Gives, WriteAccess, WriteExpiry, WipeAccess, WipeRefresh, Pcs
  <1>6. ASSUME Read(p) PROVE flight' \in [Procs -> FlightRecord]
    <2>1. \A pc \in {"terminal", "post"} :
            [flight[p] EXCEPT !.pc = pc, !.token = refresh, !.seen = refresh] \in FlightRecord
      BY <1>0 DEF FlightRecord
    <2> QED
      BY <1>6, <2>1 DEF Read
  <1>7. ASSUME Post(p) PROVE flight' \in [Procs -> FlightRecord]
    <2>1. issued + 1 \in Tokens
      BY <1>7, RefreshAssumption DEF Post, Rotates, Tokens
    <2>2. [flight[p] EXCEPT !.pc = "write_access", !.got = issued + 1] \in FlightRecord
      BY <1>0, <2>1 DEF FlightRecord
    <2> QED
      BY <1>7, <2>2 DEF Post
  <1>8. ASSUME Poll(p) PROVE flight' \in [Procs -> FlightRecord]
    <2>1. /\ [flight[p] EXCEPT !.pc = "post", !.token = refresh, !.seen = refresh,
                               !.second = TRUE] \in FlightRecord
          /\ [flight[p] EXCEPT !.pc = "terminal"] \in FlightRecord
      BY <1>0 DEF FlightRecord
    <2> QED
      BY <1>8, <2>1 DEF Poll
  <1>9. ASSUME Confirm(p) PROVE flight' \in [Procs -> FlightRecord]
    <2>1. [flight[p] EXCEPT !.pc = "wipe_access", !.seen = refresh] \in FlightRecord
      BY <1>0 DEF FlightRecord
    <2> QED
      BY <1>9, <2>1, LeavesType DEF Confirm
  <1> QED
    BY <1>1, <1>2, <1>3, <1>4, <1>5, <1>6, <1>7, <1>8, <1>9
    DEF FlightSteps, Acquires, Refreshes, Wipes

LEMMA StoreType ==
  ASSUME TypeOK, NEW p \in Procs, FlightSteps(p)
  PROVE  /\ access' \in Tokens
         /\ expiry' \in {"empty", "ahead", "past"}
         /\ refresh' \in Tokens
         /\ lease' \in [owner : Procs \cup {None}, expired : BOOLEAN]
         /\ UNCHANGED operator
  <1> USE DEF TypeOK
  <1>1. 0 \in Tokens /\ flight[p].got \in Tokens
    BY RefreshAssumption DEF Tokens, FlightRecord
  <1>2. Free \in [owner : Procs \cup {None}, expired : BOOLEAN]
    BY DEF Free
  <1>3. CASE \E kind \in Kinds : Start(p, kind)
    BY <1>3 DEF Start, store
  <1>4. CASE Acquires(p)
    <2>1. CASE Acquire(p)
      BY <2>1 DEF Acquire, store
    <2>2. CASE Degrade(p) \/ Reuse(p) \/ NoReuse(p)
      BY <2>2 DEF Degrade, Reuse, NoReuse, store
    <2>3. CASE Release(p)
      BY <1>2, <2>3 DEF Release, Releases, store
    <2> QED
      BY <1>4, <2>1, <2>2, <2>3 DEF Acquires
  <1>5. CASE Refreshes(p)
    BY <1>1, <1>5
    DEF Refreshes, Read, Post, PostLost, PostTransient, PostRejected, PostRefused, Gives, Poll, Unread,
        WriteAccess, WriteExpiry, WriteRefresh, store
  <1>6. CASE Wipes(p)
    BY <1>1, <1>6
    DEF Wipes, WipeSkipped, Confirm, WipeAccess, WipeRefresh, WipeExpiry, store
  <1>7. CASE Throw(p) \/ Crash(p)
    BY <1>7 DEF Throw, Crash, store
  <1> QED
    BY <1>3, <1>4, <1>5, <1>6, <1>7 DEF FlightSteps

LEMMA VendorType ==
  ASSUME TypeOK, NEW p \in Procs, FlightSteps(p)
  PROVE  /\ valid' \subseteq 1 .. MaxToken
         /\ issued' \in 1 .. MaxToken
         /\ consumed' \subseteq 1 .. MaxToken
         /\ refused' \subseteq 1 .. MaxToken
         /\ late' \in BOOLEAN
         /\ mishaps' \subseteq Faults
  <1> USE DEF TypeOK
  <1>1. CASE Post(p) \/ PostLost(p)
    <2>1. Rotates(p)
      BY <1>1 DEF Post, PostLost
    <2>2. issued + 1 \in 1 .. MaxToken
      BY <2>1, RefreshAssumption DEF Rotates
    <2>4. flight[p].token \in 1 .. MaxToken
      BY <2>1 DEF Rotates
    <2>3. UNCHANGED <<refused, late>> /\ mishaps' \subseteq Faults
      BY <1>1 DEF Post, PostLost, Happens
    <2> QED
      BY <2>1, <2>2, <2>3, <2>4 DEF Rotates
  <1>2. CASE Degrade(p) \/ Unread(p) \/ Throw(p) \/ Crash(p)
    BY <1>2 DEF Degrade, Unread, Throw, Crash, Happens, vendor
  <1>3. CASE WriteRefresh(p) \/ WipeRefresh(p)
    BY <1>3 DEF WriteRefresh, WipeRefresh, vendor
  <1>4. CASE PostRefused(p)
    BY <1>4 DEF PostRefused, Happens, vendor
  <1>5. CASE UNCHANGED <<vendor, ghosts>>
    BY <1>5 DEF vendor, ghosts
  <1> QED
    BY <1>1, <1>2, <1>3, <1>4, <1>5
    DEF FlightSteps, Acquires, Refreshes, Wipes, Start, Acquire, Reuse, NoReuse, Release,
        Read, PostTransient, PostRejected, Poll, WriteAccess, WriteExpiry,
        WipeSkipped, Confirm, WipeAccess, WipeExpiry

LEMMA TypeStep == ASSUME TypeOK, [Next]_vars PROVE TypeOK'
  <1>1. ASSUME NEW p \in Procs, FlightSteps(p) PROVE TypeOK'
    BY <1>1, FlightType, StoreType, VendorType DEF TypeOK
  <1>2. CASE Connect
    <2>1. issued + 1 \in 1 .. MaxToken /\ issued + 1 \in Tokens
      BY <1>2, RefreshAssumption DEF Connect, TypeOK, Tokens
    <2>2. operator' \in [pc : {"idle", "write_access", "write_expiry", "write_refresh"},
                         got : Tokens]
      BY <1>2, <2>1 DEF Connect
    <2> QED
      BY <1>2, <2>1, <2>2 DEF Connect, TypeOK, store, ghosts
  <1>3. CASE Disconnect \/ OperatorAccess \/ OperatorExpiry \/ OperatorRefresh
    <2>1. 0 \in Tokens /\ operator.got \in Tokens
      BY RefreshAssumption DEF TypeOK, Tokens
    <2>2. operator' \in [pc : {"idle", "write_access", "write_expiry", "write_refresh"},
                         got : Tokens]
      BY <1>3, <2>1
      DEF Disconnect, OperatorAccess, OperatorExpiry, OperatorRefresh, NoOperator, TypeOK
    <2>3. mishaps' \subseteq Faults
      BY <1>3
      DEF Disconnect, OperatorAccess, OperatorExpiry, OperatorRefresh, Happens, TypeOK, ghosts
    <2> QED
      BY <1>3, <2>1, <2>2, <2>3
      DEF Disconnect, OperatorAccess, OperatorExpiry, OperatorRefresh, TypeOK, store,
          vendor, ghosts
  <1>4. CASE LeaseExpires
    <2>1. [lease EXCEPT !.expired = TRUE] \in [owner : Procs \cup {None}, expired : BOOLEAN]
      BY DEF TypeOK
    <2>2. flight' \in [Procs -> FlightRecord]
      <3>1. \A x \in FlightRecord : [x EXCEPT !.lapsed = TRUE] \in FlightRecord
        BY DEF FlightRecord
      <3> QED
        BY <1>4, <3>1 DEF LeaseExpires, TypeOK
    <2> QED
      BY <1>4, <2>1, <2>2 DEF LeaseExpires, Happens, TypeOK, store, vendor
  <1>5. CASE AccessExpires \/ Revoke
    BY <1>5 DEF AccessExpires, Revoke, Happens, TypeOK, vendor, ghosts, store
  <1>6. CASE UNCHANGED vars
    BY <1>6 DEF vars, TypeOK, store, vendor, ghosts
  <1> QED
    BY <1>1, <1>2, <1>3, <1>4, <1>5, <1>6 DEF Next, FlightSteps, Operates

\* Every variable keeps its type.
THEOREM TypeCorrect == Spec => []TypeOK
  BY TypeInit, TypeStep, PTL DEF Spec

-----------------------------------------------------------------------------
(* One refresher.  A flight that acquired the lease and has not outlived it *)
(* is named by the lease row, which has one owner.                         *)

LeaseNamesHolder ==
  \A p \in Procs :
    /\ Leased(p) => lease.owner = p /\ ~lease.expired
    /\ flight[p].pc \in {"idle", "acquire"} => ~flight[p].leased

LEMMA HolderInit == ASSUME Init PROVE LeaseNamesHolder
  BY DEF Init, LeaseNamesHolder, Leased, Refreshing, NoFlight

\* A flight that goes on, or leaves, acquires nothing.
LEMMA HolderFrame ==
  ASSUME TypeOK, LeaseNamesHolder, UNCHANGED lease,
         \A p \in Procs :
           /\ Leased(p)' => Leased(p)
           /\ flight'[p].pc \in {"idle", "acquire"} => ~flight'[p].leased
  PROVE  LeaseNamesHolder'
  BY DEF LeaseNamesHolder

\* How a flight that goes on, leaves or stops changes its record: only who goes
\* on without the lease passes it.
Moved(p) ==
  \/ /\ flight'[p].pc \in {"idle", "acquire"}
     /\ ~flight'[p].leased /\ ~flight'[p].lapsed
  \/ flight'[p].pc = "release" /\ ~flight'[p].lapsed
  \/ /\ flight'[p].pc \notin {"idle", "acquire", "release"}
     /\ flight'[p].leased = flight[p].leased
     /\ flight'[p].lapsed = flight[p].lapsed
     /\ (Degrade(p) /\ flight[p].pc = "acquire") \/ Refreshing(p)

LEMMA FlightMoved ==
  ASSUME TypeOK, NEW p \in Procs, FlightSteps(p), ~Acquire(p), ~Release(p)
  PROVE  Moved(p)
  <1> USE DEF TypeOK, Moved
  <1>1. CASE \E kind \in Kinds : Start(p, kind)
    BY <1>1 DEF Start, NoFlight
  <1>2. CASE Crash(p)
    BY <1>2 DEF Crash, NoFlight
  <1>3. ASSUME Leaves(p) PROVE Moved(p)
    BY <1>3 DEF Leaves, Leaving, NoFlight
  <1>4. CASE \/ Reuse(p) \/ PostLost(p) \/ PostTransient(p) \/ WriteRefresh(p)
             \/ WipeSkipped(p) \/ WipeExpiry(p) \/ Throw(p)
    BY <1>3, <1>4
    DEF Reuse, PostLost, PostTransient, WriteRefresh, WipeSkipped, WipeExpiry, Throw
  <1>5. ASSUME NEW pc \in Pcs \ {"idle", "acquire", "release"}, Goes(p, pc), Refreshing(p)
        PROVE  Moved(p)
    BY <1>5 DEF Goes, FlightRecord
  <1>6. CASE \/ PostRejected(p) \/ PostRefused(p) \/ WriteAccess(p) \/ WriteExpiry(p)
             \/ WipeAccess(p) \/ WipeRefresh(p)
    BY <1>5, <1>6
    DEF PostRejected, PostRefused, Gives, WriteAccess, WriteExpiry, WipeAccess, WipeRefresh, Refreshing, Pcs
  <1>7. CASE Degrade(p) \/ NoReuse(p)
    BY <1>7 DEF Degrade, NoReuse, FlightRecord, Refreshing
  <1>8. CASE Read(p)
    BY <1>8 DEF Read, FlightRecord, Refreshing
  <1>9. CASE Post(p)
    BY <1>9 DEF Post, Rotates, FlightRecord, Refreshing
  <1>10. CASE Poll(p)
    BY <1>10 DEF Poll, FlightRecord, Refreshing
  <1>11. CASE Confirm(p)
    <2>1. CASE Confirmed(p)
      BY <1>11, <2>1 DEF Confirm, FlightRecord, Refreshing
    <2>2. CASE ~Confirmed(p)
      BY <1>3, <1>11, <2>2 DEF Confirm
    <2> QED
      BY <2>1, <2>2
  <1>12. CASE Unread(p)
    <2>1. CASE flight[p].pc = "recheck"
      BY <1>12, <2>1 DEF Unread, FlightRecord, Refreshing
    <2>2. CASE flight[p].pc = "poll"
      BY <1>5, <1>12, <2>2 DEF Unread, Refreshing, Pcs
    <2> QED
      BY <1>12, <2>1, <2>2 DEF Unread
  <1> QED
    BY <1>1, <1>2, <1>4, <1>6, <1>7, <1>8, <1>9, <1>10, <1>11, <1>12
    DEF FlightSteps, Acquires, Refreshes, Wipes

LEMMA HolderStep ==
  ASSUME TypeOK, LeaseNamesHolder, [Next]_vars
  PROVE  LeaseNamesHolder'
  <1> USE DEF TypeOK
  <1>1. ASSUME NEW p \in Procs, Acquire(p) PROVE LeaseNamesHolder'
    <2>1. \A q \in Procs : ~Leased(q)
      BY <1>1, RefreshAssumption DEF Acquire, LeaseNamesHolder, Free
    <2>2. /\ flight'[p].pc = "recheck"
          /\ \A q \in Procs \ {p} : flight'[q] = flight[q]
      BY <1>1 DEF Acquire, FlightRecord
    <2>3. \A q \in Procs \ {p} : ~Leased(q)'
      BY <2>1, <2>2 DEF Leased, Refreshing
    <2>4. lease'.owner = p /\ ~lease'.expired
      BY <1>1 DEF Acquire
    <2> QED
      BY <2>2, <2>3, <2>4 DEF LeaseNamesHolder
  <1>2. ASSUME NEW p \in Procs, Release(p) PROVE LeaseNamesHolder'
    <2>1. /\ flight'[p] = NoFlight
          /\ \A q \in Procs \ {p} : flight'[q] = flight[q]
      BY <1>2 DEF Release
    <2>2. ~Leased(p)' /\ ~flight'[p].leased
      BY <2>1 DEF Leased, Refreshing, NoFlight
    <2>3. ASSUME NEW q \in Procs \ {p}, Leased(q)' PROVE lease'.owner = q /\ ~lease'.expired
      <3>1. lease.owner = q /\ ~lease.expired
        BY <2>1, <2>3 DEF Leased, Refreshing, LeaseNamesHolder
      <3> QED
        BY <1>2, <3>1 DEF Release, Releases
    <2> QED
      BY <2>1, <2>2, <2>3 DEF LeaseNamesHolder
  <1>3. CASE LeaseExpires
    <2>1. \A q \in Procs : ~Leased(q)'
      <3> SUFFICES ASSUME NEW q \in Procs, Leased(q)' PROVE FALSE
        OBVIOUS
      <3>1. Leased(q) /\ flight'[q].leased /\ ~flight'[q].lapsed
        BY <1>3 DEF LeaseExpires, Leased, Refreshing, FlightRecord
      <3>2. lease.owner = q
        BY <3>1 DEF LeaseNamesHolder
      <3> QED
        BY <1>3, <3>1, <3>2 DEF LeaseExpires, Leased, FlightRecord
    <2>2. \A q \in Procs : flight'[q].pc = flight[q].pc /\ flight'[q].leased = flight[q].leased
      BY <1>3 DEF LeaseExpires, FlightRecord
    <2> QED
      BY <2>1, <2>2 DEF LeaseNamesHolder
  <1>4. ASSUME NEW p \in Procs, FlightSteps(p), ~Acquire(p), ~Release(p)
        PROVE  LeaseNamesHolder'
    <2>1. UNCHANGED lease /\ \A q \in Procs \ {p} : flight'[q] = flight[q]
      BY <1>4
      DEF FlightSteps, Start, Acquires, Degrade, Reuse, NoReuse, Refreshes, Read, Post,
          PostLost, PostTransient, PostRejected, PostRefused, Gives, Poll, Unread, WriteAccess, WriteExpiry,
          WriteRefresh, Wipes, WipeSkipped, Confirm, WipeAccess, WipeRefresh, WipeExpiry,
          Throw, Crash, Goes, Leaves
    <2>2. Moved(p)
      BY <1>4, FlightMoved
    <2> QED
      BY <2>1, <2>2, HolderFrame DEF Moved, LeaseNamesHolder, Leased, Refreshing
  <1>5. CASE UNCHANGED <<lease, flight>>
    BY <1>5, HolderFrame DEF LeaseNamesHolder, Leased, Refreshing
  <1> QED
    BY <1>1, <1>2, <1>3, <1>4, <1>5
    DEF Next, FlightSteps, Operates, Connect, Disconnect, OperatorAccess, OperatorExpiry,
        OperatorRefresh, AccessExpires, Revoke, vars

\* Of two flights past the lease, one went on without it or has outlived its
\* own: no release, expiry or crash lets a second one in beside a first.
THEOREM RefreshIsExclusive == Spec => []OneRefresher
  <1>1. LeaseNamesHolder => OneRefresher
    BY DEF LeaseNamesHolder, OneRefresher
  <1>2. Init => LeaseNamesHolder
    BY HolderInit
  <1> QED
    BY <1>1, <1>2, TypeCorrect, HolderStep, PTL DEF Spec

-----------------------------------------------------------------------------
(* What a flight reads and writes: one disjunct for each way a step of it   *)
(* touches the stored refresh token, the vendor's tokens or its own.       *)

Writer(p) == flight[p].pc \in {"write_access", "write_expiry", "write_refresh"}

StoredSame == UNCHANGED <<refresh, valid, issued, consumed, late>>
TokensSame(p) == /\ flight'[p].kind = flight[p].kind
                 /\ flight'[p].token = flight[p].token
                 /\ flight'[p].seen = flight[p].seen
                 /\ flight'[p].got = flight[p].got

Rests(p) ==
  /\ StoredSame
  /\ flight'[p].pc \in {"idle", "acquire", "recheck", "read", "release"}
  /\ flight'[p].token \in {0, flight[p].token}
  /\ flight'[p].got \in {0, flight[p].got}

LooksUp(p) ==
  /\ StoredSame
  /\ flight[p].pc \in {"read", "poll"}
  /\ flight'[p].pc = "post" \/ (flight'[p].pc = "terminal" /\ refresh = 0)
  /\ flight'[p].token = refresh /\ flight'[p].seen = refresh
  /\ flight'[p].got = flight[p].got

Exchanges(p) ==
  /\ Rotates(p)
  /\ UNCHANGED <<refresh, late>>
  /\ \/ /\ flight'[p].pc = "write_access" /\ flight'[p].got = issued + 1
        /\ flight'[p].token = flight[p].token /\ flight'[p].seen = flight[p].seen
     \/ /\ flight'[p].pc = "release" /\ "lost" \in mishaps'
        /\ flight'[p].token = 0 /\ flight'[p].got = 0

Fruitless(p) ==
  /\ StoredSame /\ TokensSame(p)
  /\ flight'[p].pc \in {"poll", "terminal"}
  /\ \/ /\ flight[p].pc = "post"
        /\ flight[p].kind \in Authoritative => flight[p].token \notin valid \ refused'
     \/ flight[p].pc = "poll"

WritesOn(p) ==
  /\ StoredSame /\ TokensSame(p)
  /\ Writer(p) /\ flight'[p].pc \in {"write_expiry", "write_refresh"}

Publishes(p) ==
  /\ UNCHANGED <<valid, issued, consumed>>
  /\ Writer(p)
  /\ refresh' = flight[p].got
  /\ ~late' => ~late /\ refresh = flight[p].seen
  /\ flight'[p].pc = "release" /\ flight'[p].token = 0 /\ flight'[p].got = 0

Confirms(p) ==
  /\ StoredSame
  /\ flight[p].pc = "terminal" /\ flight'[p].pc = "wipe_access"
  /\ flight[p].kind \in Authoritative
  /\ flight[p].token = 0 \/ refresh \in {0, flight[p].token}
  /\ flight'[p].token = flight[p].token /\ flight'[p].seen = refresh
  /\ flight'[p].got = flight[p].got

WipesOn(p) ==
  /\ StoredSame /\ TokensSame(p)
  /\ flight[p].pc = "wipe_access" /\ flight'[p].pc = "wipe_refresh"

Unpublishes(p) ==
  /\ UNCHANGED <<valid, issued, consumed>>
  /\ TokensSame(p)
  /\ flight[p].pc = "wipe_refresh" /\ flight'[p].pc = "wipe_expiry"
  /\ refresh' = 0
  /\ ~late' => ~late /\ (refresh # 0 => refresh = flight[p].seen /\ flight[p].token # 0)

Handles(p) ==
  \/ Rests(p) \/ LooksUp(p) \/ Exchanges(p) \/ Fruitless(p) \/ WritesOn(p)
  \/ Publishes(p) \/ Confirms(p) \/ WipesOn(p) \/ Unpublishes(p)

LEMMA FlightHandles ==
  ASSUME TypeOK, NEW p \in Procs, FlightSteps(p)
  PROVE  /\ Handles(p)
         /\ UNCHANGED operator
         /\ \A q \in Procs \ {p} : flight'[q] = flight[q]
  <1>0. flight \in [Procs -> FlightRecord] /\ flight[p] \in FlightRecord
    BY DEF TypeOK
  <1>a. UNCHANGED operator /\ \A q \in Procs \ {p} : flight'[q] = flight[q]
    BY <1>0
    DEF FlightSteps, Start, Acquires, Acquire, Release, Degrade, Reuse, NoReuse, Refreshes,
        Read, Post, PostLost, PostTransient, PostRejected, PostRefused, Gives, Poll, Unread, WriteAccess,
        WriteExpiry, WriteRefresh, Wipes, WipeSkipped, Confirm, WipeAccess, WipeRefresh,
        WipeExpiry, Throw, Crash, Goes, Leaves
  <1>1. ASSUME StoredSame, Leaves(p) PROVE Rests(p)
    BY <1>0, <1>1 DEF Leaves, Leaving, NoFlight, Rests
  <1>2. CASE \E kind \in Kinds : Start(p, kind)
    <2>1. StoredSame
      BY <1>2 DEF Start, StoredSame, store, vendor, ghosts
    <2>2. flight'[p].pc = "acquire" /\ flight'[p].token = 0 /\ flight'[p].got = 0
      BY <1>0, <1>2 DEF Start, NoFlight
    <2> QED
      BY <1>a, <2>1, <2>2 DEF Rests, Handles
  <1>3. CASE Acquire(p) \/ Degrade(p) \/ NoReuse(p) \/ (Unread(p) /\ flight[p].pc = "recheck")
    <2>1. StoredSame
      BY <1>3 DEF Acquire, Degrade, NoReuse, Unread, StoredSame, store, vendor, ghosts
    <2>2. /\ flight'[p].pc \in {"recheck", "read"} /\ flight'[p].token = flight[p].token
          /\ flight'[p].got = flight[p].got
      BY <1>0, <1>3 DEF Acquire, Degrade, NoReuse, Unread, FlightRecord
    <2> QED
      BY <1>a, <2>1, <2>2 DEF Rests, Handles
  <1>4. CASE Release(p) \/ Crash(p)
    <2>1. StoredSame
      BY <1>4 DEF Release, Crash, StoredSame, store, vendor, ghosts
    <2>2. flight'[p].pc = "idle" /\ flight'[p].token = 0 /\ flight'[p].got = 0
      BY <1>0, <1>4 DEF Release, Crash, NoFlight
    <2> QED
      BY <1>a, <2>1, <2>2 DEF Rests, Handles
  <1>5. CASE \/ Reuse(p) \/ PostTransient(p) \/ WipeSkipped(p) \/ WipeExpiry(p) \/ Throw(p)
             \/ (Confirm(p) /\ ~Confirmed(p))
    <2>1. StoredSame /\ Leaves(p)
      BY <1>5
      DEF Reuse, PostTransient, WipeSkipped, WipeExpiry, Throw, Confirm, StoredSame, store,
          vendor, ghosts
    <2> QED
      BY <1>a, <1>1, <2>1 DEF Handles
  <1>6. CASE Read(p)
    <2>1. StoredSame
      BY <1>6 DEF Read, StoredSame, store, vendor, ghosts
    <2>2. /\ flight[p].pc = "read" /\ flight'[p].pc = IF refresh = 0 THEN "terminal" ELSE "post"
          /\ flight'[p].token = refresh /\ flight'[p].seen = refresh
          /\ flight'[p].got = flight[p].got
      BY <1>0, <1>6 DEF Read, FlightRecord
    <2> QED
      BY <1>a, <2>1, <2>2 DEF LooksUp, Handles
  <1>7. CASE Post(p)
    <2>1. /\ flight'[p].pc = "write_access" /\ flight'[p].got = issued + 1
          /\ flight'[p].token = flight[p].token /\ flight'[p].seen = flight[p].seen
      BY <1>0, <1>7 DEF Post, FlightRecord
    <2> QED
      BY <1>a, <1>7, <2>1 DEF Post, store, Exchanges, Handles
  <1>8. CASE PostLost(p)
    <2>1. flight'[p].pc = "release" /\ flight'[p].token = 0 /\ flight'[p].got = 0
      BY <1>0, <1>8 DEF PostLost, Leaves, Leaving, NoFlight
    <2>2. "lost" \in mishaps'
      BY <1>8 DEF PostLost, Happens
    <2> QED
      BY <1>a, <1>8, <2>1, <2>2 DEF PostLost, store, Exchanges, Handles
  <1>9. CASE PostRejected(p) \/ PostRefused(p) \/ (Unread(p) /\ flight[p].pc = "poll")
    <2>1. StoredSame
      BY <1>9 DEF PostRejected, PostRefused, Gives, Unread, StoredSame, store, vendor, ghosts
    <2>2. \E pc \in {"poll", "terminal"} : Goes(p, pc)
      BY <1>9 DEF PostRejected, PostRefused, Gives, Unread
    <2>3. TokensSame(p) /\ flight'[p].pc \in {"poll", "terminal"}
      BY <1>0, <2>2 DEF Goes, FlightRecord, TokensSame
    <2> QED
      BY <1>a, <1>9, <2>1, <2>3 DEF PostRejected, PostRefused, Gives, Fruitless, Handles
  <1>10. CASE Poll(p)
    <2>1. StoredSame
      BY <1>10 DEF Poll, StoredSame, store, vendor, ghosts
    <2>2. CASE refresh \notin {0, flight[p].token}
      <3>1. /\ flight[p].pc = "poll" /\ flight'[p].pc = "post"
            /\ flight'[p].token = refresh /\ flight'[p].seen = refresh
            /\ flight'[p].got = flight[p].got
        BY <1>0, <1>10, <2>2 DEF Poll, FlightRecord
      <3> QED
        BY <1>a, <2>1, <3>1 DEF LooksUp, Handles
    <2>3. CASE refresh \in {0, flight[p].token}
      <3>1. flight[p].pc = "poll" /\ flight'[p].pc = "terminal" /\ TokensSame(p)
        BY <1>0, <1>10, <2>3 DEF Poll, FlightRecord, TokensSame
      <3> QED
        BY <1>a, <2>1, <3>1 DEF Fruitless, Handles
    <2> QED
      BY <2>2, <2>3
  <1>11. CASE WriteAccess(p) \/ WriteExpiry(p)
    <2>1. StoredSame
      BY <1>11 DEF WriteAccess, WriteExpiry, StoredSame, store, vendor, ghosts
    <2>2. \E pc \in {"write_expiry", "write_refresh"} : Goes(p, pc)
      BY <1>11 DEF WriteAccess, WriteExpiry
    <2>3. TokensSame(p) /\ flight'[p].pc \in {"write_expiry", "write_refresh"}
      BY <1>0, <2>2 DEF Goes, FlightRecord, TokensSame
    <2> QED
      BY <1>a, <1>11, <2>1, <2>3 DEF WriteAccess, WriteExpiry, Writer, WritesOn, Handles
  <1>12. CASE WriteRefresh(p)
    <2>1. flight'[p].pc = "release" /\ flight'[p].token = 0 /\ flight'[p].got = 0
      BY <1>0, <1>12 DEF WriteRefresh, Leaves, Leaving, NoFlight
    <2>2. ~late' => ~late /\ refresh = flight[p].seen
      BY <1>12, Zenon DEF WriteRefresh
    <2> QED
      BY <1>a, <1>12, <2>1, <2>2 DEF WriteRefresh, vendor, Writer, Publishes, Handles
  <1>13. CASE Confirm(p) /\ Confirmed(p)
    <2>1. StoredSame
      BY <1>13 DEF Confirm, StoredSame, store, vendor, ghosts
    <2>2. /\ flight[p].pc = "terminal" /\ flight'[p].pc = "wipe_access"
          /\ flight[p].kind \in Authoritative
          /\ flight'[p].token = flight[p].token /\ flight'[p].seen = refresh
          /\ flight'[p].got = flight[p].got
      BY <1>0, <1>13 DEF Confirm, FlightRecord
    <2> QED
      BY <1>a, <1>13, <2>1, <2>2 DEF Confirmed, Confirms, Handles
  <1>14. CASE WipeAccess(p)
    <2>1. StoredSame
      BY <1>14 DEF WipeAccess, StoredSame, store, vendor, ghosts
    <2>2. /\ flight[p].pc = "wipe_access" /\ flight'[p].pc = "wipe_refresh" /\ TokensSame(p)
      BY <1>0, <1>14 DEF WipeAccess, Goes, FlightRecord, TokensSame
    <2> QED
      BY <1>a, <2>1, <2>2 DEF WipesOn, Handles
  <1>15. CASE WipeRefresh(p)
    <2>1. /\ flight[p].pc = "wipe_refresh" /\ flight'[p].pc = "wipe_expiry" /\ TokensSame(p)
      BY <1>0, <1>15 DEF WipeRefresh, Goes, FlightRecord, TokensSame
    <2>2. ~late' => ~late /\ (refresh # 0 => refresh = flight[p].seen /\ flight[p].token # 0)
      BY <1>15, Zenon DEF WipeRefresh
    <2> QED
      BY <1>a, <1>15, <2>1, <2>2 DEF WipeRefresh, vendor, Unpublishes, Handles
  <1> QED
    BY <1>2, <1>3, <1>4, <1>5, <1>6, <1>7, <1>8, <1>9, <1>10, <1>11, <1>12, <1>13, <1>14,
       <1>15
    DEF FlightSteps, Acquires, Refreshes, Wipes, Unread

-----------------------------------------------------------------------------
(* The others: the operator, and what only the vendor and the clock change. *)

Grants ==
  /\ UNCHANGED <<refresh, consumed>>
  /\ operator.pc = "idle" /\ operator'.pc = "write_access"
  /\ operator'.got = issued + 1
  /\ issued' = issued + 1
  /\ issued + 1 \in valid' /\ valid' \subseteq valid \cup {issued + 1}

OperatorGoesOn ==
  /\ UNCHANGED <<refresh, valid, issued, consumed>>
  /\ \/ operator'.got = 0 /\ "disconnect" \in mishaps'
     \/ /\ operator.pc # "idle" /\ operator'.got = operator.got
        /\ operator'.pc = "idle" => operator.got = 0

OperatorPublishes ==
  /\ UNCHANGED <<valid, issued, consumed>>
  /\ operator.pc # "idle"
  /\ refresh' = operator.got
  /\ operator'.got = 0
  /\ operator.got # 0 => operator'.pc = "idle"

LEMMA OperatorHandles ==
  ASSUME TypeOK, Operates
  PROVE  /\ Grants \/ OperatorGoesOn \/ OperatorPublishes
         /\ UNCHANGED <<flight, late>>
  <1>a. UNCHANGED <<flight, late>>
    BY DEF Operates, Connect, Disconnect, OperatorAccess, OperatorExpiry, OperatorRefresh, ghosts
  <1>1. CASE Connect
    BY <1>a, <1>1 DEF Connect, Grants, store, ghosts
  <1>2. CASE Disconnect
    BY <1>a, <1>2 DEF Disconnect, Happens, OperatorGoesOn, store, vendor
  <1>3. CASE OperatorAccess
    BY <1>a, <1>3 DEF OperatorAccess, OperatorGoesOn, TypeOK, vendor, ghosts
  <1>4. CASE OperatorExpiry
    BY <1>a, <1>4 DEF OperatorExpiry, OperatorGoesOn, NoOperator, TypeOK, vendor, ghosts
  <1>5. CASE OperatorRefresh
    BY <1>a, <1>5 DEF OperatorRefresh, OperatorPublishes, NoOperator, TypeOK, vendor, ghosts
  <1> QED
    BY <1>1, <1>2, <1>3, <1>4, <1>5 DEF Operates

Ambient ==
  /\ UNCHANGED <<refresh, issued, consumed, late, operator>>
  /\ valid' \in {valid, {}}
  /\ \A p \in Procs : flight'[p].pc = flight[p].pc /\ TokensSame(p)

LEMMA AmbientHandles ==
  ASSUME TypeOK, LeaseExpires \/ AccessExpires \/ Revoke \/ UNCHANGED vars
  PROVE  Ambient
  <1>1. CASE LeaseExpires
    <2>1. \A p \in Procs : flight'[p].pc = flight[p].pc /\ TokensSame(p)
      BY <1>1 DEF LeaseExpires, TypeOK, FlightRecord, TokensSame
    <2> QED
      BY <1>1, <2>1 DEF LeaseExpires, Ambient, store, vendor
  <1>2. CASE AccessExpires \/ Revoke \/ UNCHANGED vars
    BY <1>2 DEF AccessExpires, Revoke, Ambient, TokensSame, vars, store, vendor, ghosts
  <1> QED
    BY <1>1, <1>2

LEMMA Steps ==
  ASSUME TypeOK, [Next]_vars
  PROVE  \/ \E p \in Procs :
              /\ FlightSteps(p) /\ Handles(p) /\ UNCHANGED operator
              /\ \A q \in Procs \ {p} : flight'[q] = flight[q]
         \/ Grants /\ UNCHANGED <<flight, late>>
         \/ OperatorGoesOn /\ UNCHANGED <<flight, late>>
         \/ OperatorPublishes /\ UNCHANGED <<flight, late>>
         \/ Ambient
  <1>1. CASE \E p \in Procs : FlightSteps(p)
    BY <1>1, FlightHandles
  <1>2. CASE Operates
    BY <1>2, OperatorHandles
  <1>3. CASE LeaseExpires \/ AccessExpires \/ Revoke \/ UNCHANGED vars
    BY <1>3, AmbientHandles
  <1> QED
    BY <1>1, <1>2, <1>3 DEF Next, FlightSteps

-----------------------------------------------------------------------------
(* What a step adds to the faults and to the refused tokens.               *)

LEMMA MishapsGrow == ASSUME [Next]_vars PROVE mishaps \subseteq mishaps'
  <1>1. ASSUME NEW p \in Procs, FlightSteps(p) PROVE mishaps \subseteq mishaps'
    <2>1. CASE Degrade(p) \/ PostLost(p) \/ PostRefused(p) \/ Unread(p) \/ Throw(p) \/ Crash(p)
      BY <2>1 DEF Degrade, PostLost, PostRefused, Unread, Throw, Crash, Happens
    <2>2. CASE ~(Degrade(p) \/ PostLost(p) \/ PostRefused(p) \/ Unread(p) \/ Throw(p) \/ Crash(p))
      BY <1>1, <2>2
      DEF FlightSteps, Start, Acquires, Acquire, Release, Reuse, NoReuse, Refreshes, Read,
          Post, PostTransient, PostRejected, Poll, WriteAccess, WriteExpiry, WriteRefresh,
          Wipes, WipeSkipped, Confirm, WipeAccess, WipeRefresh, WipeExpiry, ghosts
    <2> QED
      BY <2>1, <2>2
  <1>2. CASE Operates
    BY <1>2
    DEF Operates, Connect, Disconnect, OperatorAccess, OperatorExpiry, OperatorRefresh,
        Happens, ghosts
  <1>3. CASE LeaseExpires \/ AccessExpires \/ Revoke \/ UNCHANGED vars
    BY <1>3 DEF LeaseExpires, AccessExpires, Revoke, Happens, vars, ghosts
  <1> QED
    BY <1>1, <1>2, <1>3 DEF Next, FlightSteps

LEMMA RefusedGrow == ASSUME [Next]_vars PROVE refused \subseteq refused'
  <1>1. ASSUME NEW p \in Procs, FlightSteps(p) PROVE refused \subseteq refused'
    <2>1. CASE Degrade(p) \/ PostLost(p) \/ PostRefused(p) \/ Unread(p) \/ Throw(p) \/ Crash(p)
      BY <2>1 DEF Degrade, PostLost, PostRefused, Unread, Throw, Crash, Happens
    <2>2. CASE ~(Degrade(p) \/ PostLost(p) \/ PostRefused(p) \/ Unread(p) \/ Throw(p) \/ Crash(p))
      BY <1>1, <2>2
      DEF FlightSteps, Start, Acquires, Acquire, Release, Reuse, NoReuse, Refreshes, Read,
          Post, PostTransient, PostRejected, Poll, WriteAccess, WriteExpiry, WriteRefresh,
          Wipes, WipeSkipped, Confirm, WipeAccess, WipeRefresh, WipeExpiry, ghosts
    <2> QED
      BY <2>1, <2>2
  <1>2. CASE Operates
    BY <1>2
    DEF Operates, Connect, Disconnect, OperatorAccess, OperatorExpiry, OperatorRefresh,
        Happens, ghosts
  <1>3. CASE LeaseExpires \/ AccessExpires \/ Revoke \/ UNCHANGED vars
    BY <1>3 DEF LeaseExpires, AccessExpires, Revoke, Happens, vars, ghosts
  <1> QED
    BY <1>1, <1>2, <1>3 DEF Next, FlightSteps

-----------------------------------------------------------------------------
(* The lineage of the tokens.                                              *)

\* No token is stored, presented or taken before the vendor issued it, and a
\* consumed one is not taken again.
Numbered ==
  /\ refresh <= issued /\ operator.got <= issued
  /\ \A t \in valid : t <= issued
  /\ \A t \in consumed : t <= issued /\ t \notin valid
  /\ \A p \in Procs : flight[p].token <= issued /\ flight[p].got <= issued

\* A pair that is not stored yet: nobody can have read it.
Unpublished(t) ==
  t # 0 /\ t # refresh /\ t \notin consumed /\ \A p \in Procs : flight[p].token # t

Fresh ==
  /\ operator.pc # "idle" /\ operator.got # 0 => Unpublished(operator.got)
  /\ \A p \in Procs : Writer(p) =>
       /\ Unpublished(flight[p].got)
       /\ operator.pc # "idle" => flight[p].got # operator.got
       /\ \A q \in Procs : Writer(q) /\ flight[q].got = flight[p].got => q = p

\* What a flight knows of the token it has tried.
TriedBy(p) ==
  /\ flight[p].pc = "post" \/ Writer(p) => flight[p].seen = flight[p].token
  /\ Writer(p) => flight[p].token \in consumed
  /\ flight[p].pc \in {"poll", "terminal"} /\ flight[p].kind \in Authoritative =>
       flight[p].token \notin valid \ refused
  /\ flight[p].pc \in {"wipe_access", "wipe_refresh"} =>
       flight[p].token \notin valid \ refused
  /\ flight[p].pc \in {"wipe_access", "wipe_refresh"} =>
       flight[p].token = 0 \/ flight[p].seen \in {0, flight[p].token}

Lineage == Numbered /\ Fresh /\ \A p \in Procs : TriedBy(p)

LEMMA LineageInit == Init => Lineage
  BY DEF Init, Lineage, Numbered, Fresh, TriedBy, Writer, Unpublished, NoFlight, NoOperator

\* The numbers, as far as arithmetic goes.
LEMMA NumbersType ==
  ASSUME TypeOK
  PROVE  /\ issued \in Nat /\ refresh \in Nat /\ operator.got \in Nat
         /\ \A t \in valid \cup consumed : t \in Nat /\ t # 0
         /\ \A p \in Procs : /\ flight[p].token \in Nat /\ flight[p].got \in Nat
                             /\ flight[p].seen \in Nat
  BY RefreshAssumption DEF TypeOK, Tokens, FlightRecord

LEMMA NumberedStep ==
  ASSUME TypeOK, Numbered, [Next]_vars
  PROVE  Numbered'
  <1>0. /\ issued \in Nat /\ refresh \in Nat /\ operator.got \in Nat
        /\ \A t \in valid \cup consumed : t \in Nat /\ t # 0
        /\ \A p \in Procs : flight[p].token \in Nat /\ flight[p].got \in Nat
    BY NumbersType
  <1>1. ASSUME NEW p \in Procs, Handles(p), UNCHANGED operator,
               \A q \in Procs \ {p} : flight'[q] = flight[q]
        PROVE  Numbered'
    <2>1. CASE Exchanges(p)
      <3>1. /\ issued' = issued + 1 /\ refresh' = refresh
            /\ valid' = (valid \ {flight[p].token}) \cup {issued + 1}
            /\ consumed' = consumed \cup {flight[p].token}
            /\ flight'[p].token \in {0, flight[p].token}
            /\ flight'[p].got \in {0, issued + 1}
        BY <2>1 DEF Exchanges, Rotates
      <3>2. \A t \in consumed' : t <= issued' /\ t \notin valid'
        BY <1>0, <3>1 DEF Numbered
      <3>3. \A q \in Procs : flight'[q].token <= issued' /\ flight'[q].got <= issued'
        BY <1>0, <1>1, <3>1 DEF Numbered
      <3> QED
        BY <1>0, <1>1, <3>1, <3>2, <3>3 DEF Numbered
    <2>2. CASE ~Exchanges(p)
      <3>1. /\ UNCHANGED <<valid, issued, consumed>>
            /\ refresh' \in {0, refresh, flight[p].got}
            /\ flight'[p].token \in {0, flight[p].token, refresh}
            /\ flight'[p].got \in {0, flight[p].got}
        BY <1>1, <2>2
        DEF Handles, Rests, LooksUp, Fruitless, WritesOn, Publishes, Confirms, WipesOn,
            Unpublishes, StoredSame, TokensSame
      <3> QED
        BY <1>0, <1>1, <3>1 DEF Numbered
    <2> QED
      BY <2>1, <2>2
  <1>2. CASE Grants /\ UNCHANGED <<flight, late>>
    BY <1>0, <1>2 DEF Grants, Numbered
  <1>3. CASE (OperatorGoesOn \/ OperatorPublishes) /\ UNCHANGED <<flight, late>>
    BY <1>0, <1>3 DEF OperatorGoesOn, OperatorPublishes, Numbered
  <1>4. CASE Ambient
    BY <1>0, <1>4 DEF Ambient, TokensSame, Numbered
  <1> QED
    BY <1>1, <1>2, <1>3, <1>4, Steps

\* What nobody can have read stays so, until it is stored.
LEMMA UnpublishedStays ==
  ASSUME NEW t, Unpublished(t), NEW p \in Procs, Handles(p),
         \A q \in Procs \ {p} : flight'[q] = flight[q],
         Publishes(p) => flight[p].got # t
  PROVE  Unpublished(t)'
  <1>1. flight'[p].token \in {0, flight[p].token, refresh} /\ refresh' # t
    BY DEF Unpublished, Handles, Rests, LooksUp, Exchanges, Fruitless, WritesOn, Publishes,
           Confirms, WipesOn, Unpublishes, StoredSame, TokensSame
  <1>2. t \notin consumed'
    BY DEF Unpublished, Handles, Rests, LooksUp, Exchanges, Rotates, Fruitless, WritesOn,
           Publishes, Confirms, WipesOn, Unpublishes, StoredSame
  <1> QED
    BY <1>1, <1>2 DEF Unpublished

\* A writer is one already, or has just been given its pair.
LEMMA WriterFrom ==
  ASSUME NEW p \in Procs, Handles(p), Writer(p)'
  PROVE  \/ Exchanges(p) /\ flight'[p].got = issued + 1 /\ flight'[p].token = flight[p].token
         \/ Writer(p) /\ TokensSame(p) /\ ~Publishes(p) /\ StoredSame
  BY DEF Writer, Handles, Rests, LooksUp, Exchanges, Fruitless, WritesOn, Publishes, Confirms,
         WipesOn, Unpublishes

\* The vendor's new pair has a number nobody has seen.
LEMMA NewPair ==
  ASSUME TypeOK, Numbered, NEW t, t = issued + 1
  PROVE  /\ Unpublished(t) /\ t \in Nat
         /\ operator.got # t
         /\ \A p \in Procs : flight[p].got # t
  <1>0. /\ issued \in Nat /\ refresh \in Nat /\ operator.got \in Nat
        /\ \A u \in valid \cup consumed : u \in Nat /\ u # 0
        /\ \A p \in Procs : flight[p].token \in Nat /\ flight[p].got \in Nat
    BY NumbersType
  <1>1. t \notin consumed
    BY <1>0 DEF Numbered
  <1> QED
    BY <1>0, <1>1 DEF Numbered, Unpublished

LEMMA FreshFlight ==
  ASSUME TypeOK, Lineage, NEW p \in Procs, Handles(p), UNCHANGED operator,
         \A q \in Procs \ {p} : flight'[q] = flight[q]
  PROVE  Fresh'
  <1>a. Fresh /\ Numbered
    BY DEF Lineage
  <1>1. ASSUME NEW t, Unpublished(t), Publishes(p) => flight[p].got # t PROVE Unpublished(t)'
    BY <1>1, UnpublishedStays
  <1>2. ASSUME operator.pc # "idle", operator.got # 0, NEW t, t = operator.got
        PROVE  Unpublished(t)'
    <2>1. Unpublished(t) /\ (Publishes(p) => flight[p].got # t)
      BY <1>a, <1>2 DEF Fresh, Publishes
    <2> QED
      BY <1>1, <2>1
  <1>3. ASSUME NEW w \in Procs, Writer(w)'
        PROVE  \/ w = p /\ Exchanges(p) /\ flight'[w].got = issued + 1
               \/ /\ Writer(w) /\ flight'[w].got = flight[w].got
                  /\ Publishes(p) => w # p
    <2>1. CASE w = p
      BY <1>3, <2>1, WriterFrom DEF TokensSame
    <2>2. CASE w # p
      BY <1>3, <2>2 DEF Writer
    <2> QED
      BY <2>1, <2>2
  <1>4. ASSUME NEW w \in Procs, Writer(w)', NEW t, t = flight'[w].got
        PROVE  Unpublished(t)' /\ (operator.pc # "idle" => t # operator.got)
    <2>1. CASE w = p /\ Exchanges(p) /\ t = issued + 1
      BY <1>a, <1>1, <2>1, NewPair DEF Exchanges, Publishes, Rotates, Writer
    <2>2. CASE Writer(w) /\ t = flight[w].got /\ (Publishes(p) => w # p)
      <3>1. Unpublished(t) /\ (operator.pc # "idle" => t # operator.got)
        BY <1>a, <2>2 DEF Fresh
      <3>2. Publishes(p) => flight[p].got # t
        BY <1>a, <2>2 DEF Fresh, Publishes
      <3> QED
        BY <1>1, <3>1, <3>2
    <2> QED
      BY <1>3, <1>4, <2>1, <2>2
  <1>5. ASSUME NEW w \in Procs, NEW v \in Procs, Writer(w)', Writer(v)',
               flight'[v].got = flight'[w].got
        PROVE  v = w
    <2>1. \A q \in Procs : flight[q].got # issued + 1
      BY <1>a, NewPair
    <2>2. Writer(w) /\ Writer(v) /\ flight[v].got = flight[w].got => v = w
      BY <1>a DEF Fresh
    <2> QED
      BY <1>3, <1>5, <2>1, <2>2
  <1> QED
    BY <1>2, <1>4, <1>5 DEF Fresh, Unpublished

LEMMA FreshStep ==
  ASSUME TypeOK, Lineage, [Next]_vars
  PROVE  Fresh'
  <1>a. Fresh /\ Numbered
    BY DEF Lineage
  <1>1. ASSUME NEW p \in Procs, Handles(p), UNCHANGED operator,
               \A q \in Procs \ {p} : flight'[q] = flight[q]
        PROVE  Fresh'
    BY <1>1, FreshFlight
  <1>2. CASE Grants /\ UNCHANGED <<flight, late>>
    <2>1. PICK t : t = issued + 1
      OBVIOUS
    <2>2. Unpublished(t) /\ \A p \in Procs : flight[p].got # t
      BY <1>a, <2>1, NewPair
    <2> QED
      BY <1>2, <1>a, <2>1, <2>2 DEF Grants, Fresh, Unpublished, Writer
  <1>3. CASE OperatorGoesOn /\ UNCHANGED <<flight, late>>
    <2>1. ASSUME NEW w \in Procs, Writer(w) PROVE flight[w].got # 0
      BY <1>a, <2>1 DEF Fresh, Unpublished
    <2> QED
      BY <1>3, <1>a, <2>1 DEF OperatorGoesOn, Fresh, Unpublished, Writer
  <1>4. CASE OperatorPublishes /\ UNCHANGED <<flight, late>>
    <2>1. ASSUME NEW w \in Procs, Writer(w) PROVE flight[w].got \notin {0, operator.got}
      BY <1>4, <1>a, <2>1 DEF Fresh, Unpublished, OperatorPublishes
    <2> QED
      BY <1>4, <1>a, <2>1 DEF OperatorPublishes, Fresh, Unpublished, Writer
  <1>5. CASE Ambient
    BY <1>5, <1>a DEF Ambient, TokensSame, Fresh, Unpublished, Writer
  <1> QED
    BY <1>1, <1>2, <1>3, <1>4, <1>5, Steps

LEMMA TriedStep ==
  ASSUME TypeOK, Lineage, [Next]_vars, NEW q \in Procs
  PROVE  TriedBy(q)'
  <1>0. /\ issued \in Nat
        /\ \A t \in valid \cup consumed : t \in Nat /\ t # 0
        /\ \A p \in Procs : flight[p].token \in Nat
    BY NumbersType
  <1>a. Numbered /\ \A p \in Procs : TriedBy(p)
    BY DEF Lineage
  <1>b. flight[q].token # issued + 1
    BY <1>0, <1>a DEF Numbered
  <1>c. refused \subseteq refused'
    BY RefusedGrow
  <1>1. ASSUME flight'[q].pc = flight[q].pc, TokensSame(q), consumed \subseteq consumed',
               flight[q].token \notin valid => flight[q].token \notin valid'
        PROVE  TriedBy(q)'
    BY <1>1, <1>a, <1>c DEF TriedBy, Writer, TokensSame
  <1>2. ASSUME NEW p \in Procs, Handles(p), UNCHANGED operator,
               \A r \in Procs \ {p} : flight'[r] = flight[r]
        PROVE  TriedBy(q)'
    <2>1. consumed \subseteq consumed' /\ valid' \subseteq valid \cup {issued + 1}
      BY <1>2
      DEF Handles, Rests, LooksUp, Exchanges, Rotates, Fruitless, WritesOn, Publishes,
          Confirms, WipesOn, Unpublishes, StoredSame
    <2>2. CASE q # p
      BY <1>1, <1>2, <1>b, <2>1, <2>2 DEF TokensSame
    <2>3. CASE q = p
      <3>1. CASE Rests(p)
        BY <2>3, <3>1 DEF Rests, TriedBy, Writer
      <3>2. CASE LooksUp(p)
        BY <1>0, <2>3, <3>2 DEF LooksUp, StoredSame, TriedBy, Writer
      <3>3. CASE Exchanges(p)
        BY <1>a, <2>3, <3>3 DEF Exchanges, Rotates, TriedBy, Writer
      <3>4. CASE Fruitless(p)
        BY <1>a, <1>c, <2>3, <3>4 DEF Fruitless, StoredSame, TokensSame, TriedBy, Writer
      <3>5. CASE WritesOn(p)
        BY <1>a, <2>3, <3>5 DEF WritesOn, StoredSame, TokensSame, TriedBy, Writer
      <3>6. CASE Publishes(p)
        BY <2>3, <3>6 DEF Publishes, TriedBy, Writer
      <3>7. CASE Confirms(p)
        BY <1>a, <1>c, <2>3, <3>7 DEF Confirms, StoredSame, TriedBy, Writer
      <3>8. CASE WipesOn(p)
        BY <1>a, <1>c, <2>3, <3>8 DEF WipesOn, StoredSame, TokensSame, TriedBy, Writer
      <3>9. CASE Unpublishes(p)
        BY <2>3, <3>9 DEF Unpublishes, TriedBy, Writer
      <3> QED
        BY <1>2, <3>1, <3>2, <3>3, <3>4, <3>5, <3>6, <3>7, <3>8, <3>9 DEF Handles
    <2> QED
      BY <2>2, <2>3
  <1>3. CASE (Grants \/ OperatorGoesOn \/ OperatorPublishes) /\ UNCHANGED <<flight, late>>
    BY <1>1, <1>3, <1>b DEF Grants, OperatorGoesOn, OperatorPublishes, TokensSame
  <1>4. CASE Ambient
    BY <1>1, <1>4 DEF Ambient
  <1> QED
    BY <1>2, <1>3, <1>4, Steps

LEMMA AlwaysLineage == Spec => []Lineage
  <1>1. TypeOK /\ Lineage /\ [Next]_vars => Lineage'
    <2> SUFFICES ASSUME TypeOK, Lineage, [Next]_vars PROVE Lineage'
      OBVIOUS
    <2>1. Numbered' /\ Fresh'
      BY NumberedStep, FreshStep DEF Lineage
    <2>2. \A p \in Procs : TriedBy(p)'
      BY TriedStep
    <2> QED
      BY <2>1, <2>2 DEF Lineage
  <1> QED
    BY <1>1, LineageInit, TypeCorrect, PTL DEF Spec

-----------------------------------------------------------------------------
(* How a writer comes to its end.                                          *)

LEMMA WriterStops ==
  ASSUME TypeOK, NEW p \in Procs, FlightSteps(p), Writer(p)
  PROVE  Writer(p)' \/ WriteRefresh(p) \/ mishaps' \cap {"crash", "dberror"} # {}
  <1>1. CASE Throw(p) \/ Crash(p)
    BY <1>1 DEF Throw, Crash, Happens
  <1>2. CASE WriteAccess(p) \/ WriteExpiry(p)
    BY <1>2 DEF WriteAccess, WriteExpiry, Goes, Writer, TypeOK, FlightRecord
  <1> QED
    BY <1>1, <1>2
    DEF FlightSteps, Start, Acquires, Acquire, Release, Degrade, Reuse, NoReuse, Refreshes,
        Read, Post, PostLost, Rotates, PostTransient, PostRejected, PostRefused, Gives, Poll, Unread, Wipes,
        WipeSkipped, Confirm, WipeAccess, WipeRefresh, WipeExpiry, Writer

LEMMA Published ==
  ASSUME TypeOK, NEW p \in Procs, WriteRefresh(p)
  PROVE  /\ refresh' = flight[p].got /\ UNCHANGED <<valid, consumed>> /\ Writer(p)
         /\ ~late' => ~late /\ refresh = flight[p].seen
  <1>1. ~late' => ~late /\ refresh = flight[p].seen
    BY Zenon DEF WriteRefresh
  <1> QED
    BY <1>1 DEF WriteRefresh, vendor, Writer

-----------------------------------------------------------------------------
(* No consumed token is posted under the lease.                            *)

Calm == mishaps \cap {"degrade", "lapse", "lost", "crash", "dberror"} = {}

\* Nobody refreshes without the lease, and a consumed token is in the store only
\* while the flight that exchanged it is writing.
Alone ==
  Calm =>
    /\ \A p \in Procs : ~flight[p].lapsed /\ (Refreshing(p) => flight[p].leased)
    /\ \A p \in Procs : ~PostsConsumed(p)
    /\ refresh \in consumed => \E p \in Procs : Writer(p)

LEMMA AloneInit == Init => Alone
  BY DEF Init, Alone, Refreshing, PostsConsumed, NoFlight

LEMMA LeasedStep ==
  ASSUME TypeOK, Alone, [Next]_vars, Calm, Calm', NEW q \in Procs
  PROVE  ~flight'[q].lapsed /\ (Refreshing(q)' => flight'[q].leased)
  <1> DEFINE Goal == ~flight'[q].lapsed /\ (Refreshing(q)' => flight'[q].leased)
  <1> SUFFICES Goal
    OBVIOUS
  <1>0. ~flight[q].lapsed /\ (Refreshing(q) => flight[q].leased) /\ flight[q] \in FlightRecord
    BY DEF Alone, TypeOK
  <1>1. CASE UNCHANGED flight
    BY <1>0, <1>1 DEF Refreshing
  <1>2. ASSUME NEW p \in Procs, FlightSteps(p) PROVE Goal
    <2>1. CASE q # p
      <3>1. flight'[q] = flight[q]
        BY <1>2, <2>1, FlightHandles
      <3> QED
        BY <1>0, <3>1 DEF Refreshing
    <2>2. CASE Acquire(p) /\ q = p
      BY <1>0, <2>2 DEF Acquire, TypeOK, FlightRecord
    <2>3. CASE Release(p) /\ q = p
      BY <2>3 DEF Release, TypeOK, NoFlight, Refreshing
    <2>4. CASE ~Acquire(p) /\ ~Release(p) /\ q = p
      <3>1. Moved(p) /\ ~Degrade(p)
        BY <1>2, <2>4, FlightMoved DEF Degrade, Happens, Calm
      <3> QED
        BY <1>0, <2>4, <3>1 DEF Moved, Refreshing
    <2> QED
      BY <2>1, <2>2, <2>3, <2>4
  <1>3. CASE LeaseExpires
    BY <1>1, <1>3 DEF LeaseExpires, Happens, Calm
  <1>4. CASE Operates \/ AccessExpires \/ Revoke \/ UNCHANGED vars
    BY <1>1, <1>4, OperatorHandles DEF AccessExpires, Revoke, vars
  <1> QED
    BY <1>2, <1>3, <1>4 DEF Next, FlightSteps

LEMMA AloneStep ==
  ASSUME TypeOK, LeaseNamesHolder, Lineage, Alone, [Next]_vars
  PROVE  Alone'
  <1> SUFFICES ASSUME Calm' PROVE Alone'
    BY DEF Alone
  <1>0. Calm /\ Fresh /\ 0 \notin consumed
    BY MishapsGrow, NumbersType DEF Calm, Lineage
  <1>1. \A p, q \in Procs : Refreshing(p) /\ Refreshing(q) => p = q
    BY <1>0 DEF Alone, LeaseNamesHolder, Leased
  <1>2. \A q \in Procs : ~PostsConsumed(q)
    BY <1>0 DEF Alone
  <1>3. refresh \in consumed => \E q \in Procs : Writer(q)
    BY <1>0 DEF Alone
  <1>4. \A q \in Procs : ~flight'[q].lapsed /\ (Refreshing(q)' => flight'[q].leased)
    BY <1>0, LeasedStep
  <1>5. (\A q \in Procs : ~PostsConsumed(q)') /\ (refresh' \in consumed' => \E q \in Procs : Writer(q)')
    <2>1. ASSUME NEW p \in Procs, FlightSteps(p), Handles(p),
                 \A q \in Procs \ {p} : flight'[q] = flight[q]
          PROVE  /\ \A q \in Procs : ~PostsConsumed(q)'
                 /\ refresh' \in consumed' => \E q \in Procs : Writer(q)'
      <3>1. ASSUME NEW q \in Procs \ {p}, PostsConsumed(q)' PROVE FALSE
        <4>1. ~Exchanges(p)
          <5>1. Refreshing(q)
            BY <2>1, <3>1 DEF PostsConsumed, Refreshing
          <5> QED
            BY <1>1, <5>1 DEF Exchanges, Rotates, Refreshing
        <4>2. consumed' = consumed
          BY <2>1, <4>1
          DEF Handles, Rests, LooksUp, Fruitless, WritesOn, Publishes, Confirms, WipesOn,
              Unpublishes, StoredSame
        <4> QED
          BY <1>2, <2>1, <3>1, <4>2 DEF PostsConsumed
      <3>2. ASSUME PostsConsumed(p)' PROVE FALSE
        <4>1. LooksUp(p)
          BY <2>1, <3>2
          DEF PostsConsumed, Handles, Rests, Exchanges, Fruitless, WritesOn, Publishes,
              Confirms, WipesOn, Unpublishes
        <4>2. refresh \in consumed
          BY <3>2, <4>1 DEF PostsConsumed, LooksUp, StoredSame
        <4>3. PICK w \in Procs : Writer(w)
          BY <1>3, <4>2
        <4>4. Refreshing(p) /\ Refreshing(w) /\ w # p
          BY <4>1, <4>3 DEF LooksUp, Refreshing, Writer
        <4> QED
          BY <1>1, <4>4
      <3>3. ASSUME refresh' \in consumed' PROVE \E q \in Procs : Writer(q)'
        <4>1. ~WriteRefresh(p)
          BY <1>0, <3>3, Published DEF Fresh, Unpublished
        <4>2. CASE Exchanges(p)
          BY <1>0, <4>2 DEF Exchanges, Calm, Writer
        <4>3. CASE ~Exchanges(p)
          <5>1. ~Publishes(p) /\ ~Unpublishes(p)
            BY <1>0, <3>3 DEF Publishes, Unpublishes, Fresh, Unpublished
          <5>2. StoredSame
            BY <2>1, <4>3, <5>1 DEF Handles, Rests, LooksUp, Fruitless, WritesOn, Confirms, WipesOn
          <5>3. PICK w \in Procs : Writer(w)
            BY <1>3, <3>3, <5>2 DEF StoredSame
          <5>4. CASE w = p
            BY <2>1, <4>1, <5>3, <5>4, WriterStops DEF Calm
          <5>5. CASE w # p
            BY <2>1, <5>3, <5>5 DEF Writer
          <5> QED
            BY <5>4, <5>5
        <4> QED
          BY <4>2, <4>3
      <3> QED
        BY <3>1, <3>2, <3>3
    <2>2. CASE (Grants \/ OperatorGoesOn) /\ UNCHANGED <<flight, late>>
      BY <1>2, <1>3, <2>2 DEF Grants, OperatorGoesOn, PostsConsumed, Writer
    <2>3. CASE OperatorPublishes /\ UNCHANGED <<flight, late>>
      <3>1. operator.got \notin consumed
        BY <1>0, <2>3 DEF OperatorPublishes, Fresh, Unpublished
      <3> QED
        BY <1>2, <2>3, <3>1 DEF OperatorPublishes, PostsConsumed, Writer
    <2>4. CASE Ambient
      BY <1>2, <1>3, <2>4 DEF Ambient, TokensSame, PostsConsumed, Writer
    <2> QED
      BY <2>1, <2>2, <2>3, <2>4, Steps
  <1> QED
    BY <1>4, <1>5 DEF Alone

LEMMA AlwaysHolder == Spec => []LeaseNamesHolder
  BY HolderInit, HolderStep, TypeCorrect, PTL DEF Spec

\* While no flight goes on without its lease, outlives it or is cut off, no
\* process posts a refresh token that was exchanged before: whoever comes second
\* finds the new one.
THEOREM ConsumedStaysUnposted == Spec => []ConsumedNeverPosted
  <1>1. Alone => ConsumedNeverPosted
    BY DEF Alone, Calm, ConsumedNeverPosted
  <1> QED
    BY <1>1, AloneInit, AloneStep, TypeCorrect, AlwaysHolder, AlwaysLineage, PTL DEF Spec

-----------------------------------------------------------------------------
(* The connection survives.                                                *)

Undisturbed == mishaps \cap {"lost", "crash", "dberror", "disconnect"} = {}

\* A token the vendor takes is in the store or about to be written there, or it
\* has refused one that it takes.
InHand ==
  \/ valid = {} \/ refresh \in valid \/ operator.pc # "idle"
  \/ valid \cap refused # {}
  \/ \E p \in Procs : Writer(p) /\ flight[p].got \in valid

Survival ==
  /\ operator.pc # "idle" /\ operator.got # 0 => operator.got \in valid \/ valid = {}
  /\ Undisturbed =>
       /\ operator.pc # "idle" => operator.got # 0
       /\ ~late => InHand

LEMMA SurvivalInit == Init => Survival
  BY DEF Init, Survival, InHand, NoOperator

LEMMA SurvivalFlight ==
  ASSUME TypeOK, Lineage, Survival, [Next]_vars, NEW p \in Procs, FlightSteps(p), Handles(p),
         UNCHANGED operator, \A q \in Procs \ {p} : flight'[q] = flight[q]
  PROVE  Survival'
  <1>0. Fresh /\ (\A q \in Procs : TriedBy(q)) /\ (\A t \in consumed : t \notin valid)
    BY DEF Lineage, Numbered
  <1>1. 0 \notin valid
    BY NumbersType
  <1>2. \/ UNCHANGED valid
        \/ Exchanges(p) /\ valid' = (valid \ {flight[p].token}) \cup {issued + 1} /\ valid # {}
    BY DEF Handles, Rests, LooksUp, Exchanges, Rotates, Fruitless, WritesOn, Publishes,
           Confirms, WipesOn, Unpublishes, StoredSame
  <1>3. ASSUME operator.pc # "idle", operator.got # 0 PROVE operator.got \in valid' \/ valid' = {}
    BY <1>0, <1>2, <1>3 DEF Survival, Fresh, Unpublished
  <1>4. Undisturbed' => Undisturbed
    BY MishapsGrow DEF Undisturbed
  <1>6. refused \subseteq refused'
    BY RefusedGrow
  <1>5. ASSUME Undisturbed', ~late' PROVE InHand'
    <2>1. CASE Exchanges(p)
      BY <1>2, <1>5, <2>1 DEF Exchanges, Rotates, Undisturbed, InHand, Writer
    <2>2. CASE WriteRefresh(p)
      <3>0. /\ Writer(p) /\ UNCHANGED valid /\ refresh' = flight[p].got
            /\ ~late /\ refresh = flight[p].seen
        BY <1>5, <2>2, Published
      <3>1. refresh \notin valid
        BY <1>0, <3>0 DEF TriedBy
      <3>2. CASE valid = {} \/ operator.pc # "idle" \/ valid \cap refused # {}
        BY <1>6, <3>0, <3>2 DEF InHand
      <3>3. ASSUME NEW w \in Procs, Writer(w), flight[w].got \in valid PROVE InHand'
        <4>1. CASE w = p
          BY <3>0, <3>3, <4>1 DEF InHand
        <4>2. CASE w # p
          BY <3>0, <3>3, <4>2 DEF InHand, Writer
        <4> QED
          BY <4>1, <4>2
      <3> QED
        BY <1>4, <1>5, <3>0, <3>1, <3>2, <3>3 DEF Survival, InHand
    <2>3. CASE ~Exchanges(p) /\ ~WriteRefresh(p)
      <3>0. UNCHANGED valid
        BY <1>2, <2>3
      <3>1. ASSUME NEW w \in Procs, Writer(w), flight[w].got \in valid PROVE InHand'
        <4>1. CASE w # p
          BY <3>0, <3>1, <4>1 DEF InHand, Writer
        <4>2. CASE w = p
          <5>1. Writer(p)'
            BY <1>5, <2>3, <3>1, <4>2, WriterStops DEF Undisturbed
          <5>2. flight'[p].got = flight[p].got
            BY <2>3, <5>1, WriterFrom DEF TokensSame
          <5> QED
            BY <3>0, <3>1, <4>2, <5>1, <5>2 DEF InHand
        <4> QED
          BY <4>1, <4>2
      <3>2. ASSUME refresh \in valid PROVE InHand'
        <4>1. CASE refresh' = refresh
          BY <3>0, <3>2, <4>1 DEF InHand
        <4>2. CASE Publishes(p)
          BY <1>0, <1>5, <3>2, <4>2 DEF Publishes, TriedBy
        <4>3. CASE Unpublishes(p)
          <5>1. flight[p].token \notin valid \ refused /\ flight[p].token = refresh
            BY <1>0, <1>1, <1>5, <3>2, <4>3 DEF Unpublishes, TriedBy
          <5> QED
            BY <1>6, <3>0, <3>2, <5>1 DEF InHand
        <4> QED
          BY <2>3, <4>1, <4>2, <4>3
          DEF Handles, Rests, LooksUp, Fruitless, WritesOn, Confirms, WipesOn, StoredSame
      <3>3. CASE valid = {} \/ operator.pc # "idle" \/ valid \cap refused # {}
        BY <1>6, <3>0, <3>3 DEF InHand
      <3>4. ~late
        <4>1. CASE late' = late
          BY <1>5, <4>1
        <4>2. CASE Publishes(p) \/ Unpublishes(p)
          BY <1>5, <4>2 DEF Publishes, Unpublishes
        <4> QED
          BY <2>3, <4>1, <4>2
          DEF Handles, Rests, LooksUp, Fruitless, WritesOn, Confirms, WipesOn, StoredSame
      <3> QED
        BY <1>4, <1>5, <3>1, <3>2, <3>3, <3>4 DEF Survival, InHand
    <2> QED
      BY <2>1, <2>2, <2>3
  <1> QED
    BY <1>3, <1>4, <1>5 DEF Survival

LEMMA SurvivalStep ==
  ASSUME TypeOK, Lineage, Survival, [Next]_vars
  PROVE  Survival'
  <1>0. (Undisturbed' => Undisturbed) /\ refused \subseteq refused'
    BY MishapsGrow, RefusedGrow DEF Undisturbed
  <1>1. ASSUME NEW p \in Procs, FlightSteps(p), Handles(p), UNCHANGED operator,
               \A q \in Procs \ {p} : flight'[q] = flight[q]
        PROVE  Survival'
    BY <1>1, SurvivalFlight
  <1>2. CASE Grants /\ UNCHANGED <<flight, late>>
    <2>1. issued + 1 # 0
      BY NumbersType
    <2> QED
      BY <1>2, <2>1 DEF Grants, Survival, InHand
  <1>3. CASE OperatorGoesOn /\ UNCHANGED <<flight, late>>
    BY <1>0, <1>3 DEF OperatorGoesOn, Survival, InHand, Undisturbed, Writer
  <1>4. CASE OperatorPublishes /\ UNCHANGED <<flight, late>>
    BY <1>0, <1>4 DEF OperatorPublishes, Survival, InHand, Writer
  <1>5. CASE Ambient
    BY <1>0, <1>5 DEF Ambient, TokensSame, Survival, InHand, Writer
  <1> QED
    BY <1>1, <1>2, <1>3, <1>4, <1>5, Steps

\* Two flights without each other's knowledge, a wipe and an operator who
\* connects in the middle cost no connection: as long as every answer arrives
\* and every write is made, by whoever had read what it replaces, a refresh
\* token the vendor takes is stored or on its way; or the vendor has refused a
\* token that it takes, as for a wrong client, to a flight that may wipe.
THEOREM ConnectionIsKept == Spec => []ConnectionSurvives
  <1>1. Survival => ConnectionSurvives
    BY DEF Survival, InHand, Undisturbed, ConnectionSurvives, Writing, Writer
  <1> QED
    BY <1>1, SurvivalInit, SurvivalStep, TypeCorrect, AlwaysLineage, PTL DEF Spec
===============================================================================
