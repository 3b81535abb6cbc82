---------------------------- MODULE OAuthRefresh ----------------------------
(***************************************************************************)
(* The refresh of one connection's OAuth tokens (SEMrush) by the instances *)
(* of the service: the single flight of a process, the lease row that      *)
(* serialises the processes, the captured token and its one retry, the     *)
(* wipe of a connection the vendor rejects, and an operator who connects   *)
(* and disconnects.                                                        *)
(*                                                                         *)
(* Tokens are numbered as the vendor issues them; 0 is a setting that is   *)
(* empty.  Every setting is a row of its own and every statement commits   *)
(* on its own.                                                             *)
(***************************************************************************)
EXTENDS Naturals, FiniteSets

CONSTANTS
  Procs,       \* processes, each with one flight at a time
  MaxToken,    \* bound: token pairs the vendor issues
  Faults,      \* what may happen in this instance of the model
  MaxMishaps,  \* bound: kinds of fault in a behaviour
  Recurring,   \* bound: whether a fault may happen again
  None

FaultKinds == {"crash", "dberror", "degrade", "lapse", "lost", "refuse", "revoke",
               "disconnect"}

ASSUME RefreshAssumption ==
  /\ MaxToken \in Nat \ {0}
  /\ Faults \subseteq FaultKinds
  /\ MaxMishaps \in Nat
  /\ Recurring \in BOOLEAN
  /\ None \notin Procs

VARIABLES
  access,    \* the stored access token
  expiry,    \* the stored expiry: empty, ahead or past
  refresh,   \* the stored refresh token
  lease,     \* the lease row: its owner, and whether it has run out
  flight,    \* the refresh in flight of each process
  operator,  \* where the operator's connect or disconnect is
  valid,     \* external: the refresh tokens the vendor takes
  issued,    \* external: the pairs it has issued
  consumed,  \* ghost: the refresh tokens that were exchanged for a pair
  refused,   \* ghost: the tokens it took and yet refused, to one who may wipe
  late,      \* ghost: a refresh token was replaced that its writer had not read
  mishaps    \* bound and ghost: the faults that have happened

store == <<access, expiry, refresh>>
vendor == <<valid, issued>>
ghosts == <<consumed, refused, late, mishaps>>
vars == <<store, lease, flight, operator, vendor, ghosts>>

Tokens == 0 .. MaxToken

\* Why a refresh is asked for.  The first two may wipe the stored tokens.
Authoritative == {"expiry", "401_retry"}
Kinds == Authoritative \cup {"probe", "proactive"}

\* rejected: the access token of a 401.  token: the refresh token last tried.
\* seen: the stored refresh token when it was last read.  got: the new pair.
\* lapsed: ghost, the flight has outlived its lease.
NoFlight == [pc |-> "idle", kind |-> "expiry", rejected |-> 0, leased |-> FALSE,
             lapsed |-> FALSE, token |-> 0, seen |-> 0, got |-> 0, second |-> FALSE]

NoOperator == [pc |-> "idle", got |-> 0]

Free == [owner |-> None, expired |-> FALSE]

Goes(p, pc) == flight' = [flight EXCEPT ![p].pc = pc]

\* The flight has its result: what is left is to release the lease.
Leaving(p) == [NoFlight EXCEPT !.pc = "release", !.leased = flight[p].leased]
Leaves(p) == flight' = [flight EXCEPT ![p] = Leaving(p)]

\* Bound: so many kinds of fault in a behaviour, each once unless faults recur.
Happens(fault) ==
  /\ fault \in Faults
  /\ fault \in mishaps => Recurring
  /\ Cardinality(mishaps \cup {fault}) <= MaxMishaps
  /\ mishaps' = mishaps \cup {fault}

-----------------------------------------------------------------------------
(* withSingleFlightOAuthRefresh, doRefresh and the lease.  A caller that   *)
(* finds a flight of its process joins it and changes nothing.             *)

\* What the callers look at before they ask.
Wanted(kind) ==
  CASE kind = "expiry" -> IF access = 0 THEN refresh # 0 ELSE expiry = "past"
    [] kind = "probe" -> refresh # 0 /\ (access = 0 \/ expiry = "past")
    [] kind = "401_retry" -> access # 0
    [] kind = "proactive" -> refresh # 0

Start(p, kind) ==
  /\ flight[p].pc = "idle"
  /\ Wanted(kind)
  /\ flight' = [flight EXCEPT ![p] =
                  [NoFlight EXCEPT !.pc = "acquire", !.kind = kind,
                     !.rejected = IF kind = "401_retry" THEN access ELSE 0]]
  /\ UNCHANGED <<store, lease, operator, vendor, ghosts>>

\* tryAcquireOnce: the row is absent or has run out.
Acquire(p) ==
  /\ flight[p].pc = "acquire"
  /\ lease = Free \/ lease.expired
  /\ lease' = [owner |-> p, expired |-> FALSE]
  /\ flight' = [flight EXCEPT ![p].pc = "recheck", ![p].leased = TRUE]
  /\ UNCHANGED <<store, operator, vendor, ghosts>>

\* After 25 seconds, or when the lease cannot be read: on without it.
Degrade(p) ==
  /\ Happens("degrade")
  /\ flight[p].pc = "acquire"
  /\ flight' = [flight EXCEPT ![p].pc = "read", ![p].rejected = 0]
  /\ UNCHANGED <<store, lease, operator, vendor, consumed, refused, late>>

\* onLeaseAcquiredRecheck: another process has refreshed meanwhile.
Reusable(p) ==
  /\ access # 0
  /\ expiry = "ahead"
  /\ flight[p].kind = "401_retry" => access # flight[p].rejected

Reuse(p) ==
  /\ flight[p].pc = "recheck"
  /\ Reusable(p)
  /\ Leaves(p)
  /\ UNCHANGED <<store, lease, operator, vendor, ghosts>>

\* A keep-alive also goes on over a fresh token, unless it is very recent.
NoReuse(p) ==
  /\ flight[p].pc = "recheck"
  /\ ~Reusable(p) \/ flight[p].kind = "proactive"
  /\ flight' = [flight EXCEPT ![p].pc = "read", ![p].rejected = 0]
  /\ UNCHANGED <<store, lease, operator, vendor, ghosts>>

\* Mutant: whoever holds the lease now.
ReleasesAny(p) == IF flight[p].leased THEN Free ELSE lease

\* releaseOwned.
Releases(p) == IF flight[p].leased /\ lease.owner = p THEN Free ELSE lease

Release(p) ==
  /\ flight[p].pc = "release"
  /\ lease' = Releases(p)
  /\ flight' = [flight EXCEPT ![p] = NoFlight]
  /\ UNCHANGED <<store, operator, vendor, ghosts>>

\* The holder is gone, or slower than the lease lasts.
LeaseExpires ==
  /\ lease # Free
  /\ ~lease.expired
  /\ \/ /\ ~flight[lease.owner].leased
        /\ UNCHANGED <<flight, mishaps>>
     \/ /\ flight[lease.owner].leased
        /\ flight' = [flight EXCEPT ![lease.owner].lapsed = TRUE]
        /\ Happens("lapse")
  /\ lease' = [lease EXCEPT !.expired = TRUE]
  /\ UNCHANGED <<store, operator, vendor, consumed, refused, late>>

-----------------------------------------------------------------------------
(* doRefreshInner and refreshOnce.                                         *)

Read(p) ==
  /\ flight[p].pc = "read"
  /\ flight' = [flight EXCEPT ![p].pc = IF refresh = 0 THEN "terminal" ELSE "post",
                              ![p].token = refresh, ![p].seen = refresh]
  /\ UNCHANGED <<store, lease, operator, vendor, ghosts>>

\* The vendor takes the token, consumes it and issues a pair ...
Rotates(p) ==
  /\ flight[p].pc = "post"
  /\ flight[p].token \in valid
  /\ issued < MaxToken
  /\ issued' = issued + 1
  /\ valid' = (valid \ {flight[p].token}) \cup {issued + 1}
  /\ consumed' = consumed \cup {flight[p].token}

Post(p) ==
  /\ Rotates(p)
  /\ flight' = [flight EXCEPT ![p].pc = "write_access", ![p].got = issued + 1]
  /\ UNCHANGED <<store, lease, operator, refused, late, mishaps>>

\* ... whose answer may be lost: a transient failure, as far as p can tell.
PostLost(p) ==
  /\ Happens("lost")
  /\ Rotates(p)
  /\ Leaves(p)
  /\ UNCHANGED <<store, lease, operator, refused, late>>

\* The vendor does not answer, or not to the point.
PostTransient(p) ==
  /\ flight[p].pc = "post"
  /\ Leaves(p)
  /\ UNCHANGED <<store, lease, operator, vendor, ghosts>>

\* A terminal answer: once more if the store has another token, else the end.
Gives(p) == Goes(p, IF flight[p].second THEN "terminal" ELSE "poll")

\* invalid_grant, or invalid_request: the token is dead.
PostRejected(p) ==
  /\ flight[p].pc = "post"
  /\ flight[p].token \notin valid
  /\ Gives(p)
  /\ UNCHANGED <<store, lease, operator, vendor, ghosts>>

\* invalid_client, unauthorized_client, or invalid_request for a client_id that
\* is not configured: the client is refused, and the token is as good as before.
PostRefused(p) ==
  /\ Happens("refuse")
  /\ flight[p].pc = "post"
  /\ flight[p].token \in valid
  /\ Gives(p)
  /\ refused' = refused \cup
       (IF flight[p].kind \in Authoritative THEN {flight[p].token} ELSE {})
  /\ UNCHANGED <<store, lease, operator, vendor, consumed, late>>

\* waitForRotatedRefreshToken: the look that decides, of the four.
Poll(p) ==
  /\ flight[p].pc = "poll"
  /\ flight' = [flight EXCEPT ![p] =
       IF refresh \notin {0, flight[p].token}
         THEN [@ EXCEPT !.pc = "post", !.token = refresh, !.seen = refresh,
                        !.second = TRUE]
         ELSE [@ EXCEPT !.pc = "terminal"]]
  /\ UNCHANGED <<store, lease, operator, vendor, ghosts>>

\* Two reads whose failure is caught: the look under the lease and the poll's.
Unread(p) ==
  /\ Happens("dberror")
  /\ \/ /\ flight[p].pc = "recheck"
        /\ flight' = [flight EXCEPT ![p].pc = "read", ![p].rejected = 0]
     \/ /\ flight[p].pc = "poll"
        /\ Goes(p, "terminal")
  /\ UNCHANGED <<store, lease, operator, vendor, consumed, refused, late>>

WriteAccess(p) ==
  /\ flight[p].pc = "write_access"
  /\ access' = flight[p].got
  /\ Goes(p, "write_expiry")
  /\ UNCHANGED <<expiry, refresh, lease, operator, vendor, ghosts>>

WriteExpiry(p) ==
  /\ flight[p].pc = "write_expiry"
  /\ expiry' = "ahead"
  /\ Goes(p, "write_refresh")
  /\ UNCHANGED <<access, refresh, lease, operator, vendor, ghosts>>

\* Mutant: the consumed token is left in place.
WriteNoRefresh(p) ==
  /\ flight[p].pc = "write_refresh"
  /\ Leaves(p)
  /\ UNCHANGED <<store, lease, operator, vendor, ghosts>>

WriteRefresh(p) ==
  /\ flight[p].pc = "write_refresh"
  /\ refresh' = flight[p].got
  /\ late' = (late \/ refresh # flight[p].seen)
  /\ Leaves(p)
  /\ UNCHANGED <<access, expiry, lease, operator, vendor, consumed, refused, mishaps>>

-----------------------------------------------------------------------------
(* onTerminalAfterRetry: the wipe.                                         *)

\* A probe or a keep-alive never wipes.
WipeSkipped(p) ==
  /\ flight[p].pc = "terminal"
  /\ flight[p].kind \notin Authoritative
  /\ Leaves(p)
  /\ UNCHANGED <<store, lease, operator, vendor, ghosts>>

\* Mutant: the last look of the poll is taken for the confirmation.
ConfirmedUnread(p) == TRUE

\* The confirming read: the stored token is still the one that was tried.
\* Nothing was tried if none was stored when the flight first looked.
Confirmed(p) == flight[p].token = 0 \/ refresh \in {0, flight[p].token}

Confirm(p) ==
  /\ flight[p].pc = "terminal"
  /\ flight[p].kind \in Authoritative
  /\ IF Confirmed(p)
       THEN flight' = [flight EXCEPT ![p].pc = "wipe_access", ![p].seen = refresh]
       ELSE Leaves(p)
  /\ UNCHANGED <<store, lease, operator, vendor, ghosts>>

WipeAccess(p) ==
  /\ flight[p].pc = "wipe_access"
  /\ access' = 0
  /\ Goes(p, "wipe_refresh")
  /\ UNCHANGED <<expiry, refresh, lease, operator, vendor, ghosts>>

WipeRefresh(p) ==
  /\ flight[p].pc = "wipe_refresh"
  /\ refresh' = 0
  /\ late' = (late \/ (refresh # 0 /\ (refresh # flight[p].seen \/ flight[p].token = 0)))
  /\ Goes(p, "wipe_expiry")
  /\ UNCHANGED <<access, expiry, lease, operator, vendor, consumed, refused, mishaps>>

\* Mutant: zero is written for no expiry.
WipeExpiryZero(p) ==
  /\ flight[p].pc = "wipe_expiry"
  /\ expiry' = "0"
  /\ Leaves(p)
  /\ UNCHANGED <<access, refresh, lease, operator, vendor, ghosts>>

WipeExpiry(p) ==
  /\ flight[p].pc = "wipe_expiry"
  /\ expiry' = "empty"
  /\ Leaves(p)
  /\ UNCHANGED <<access, refresh, lease, operator, vendor, ghosts>>

-----------------------------------------------------------------------------
(* The operator: pollDeviceToken and disconnect, which take no lease.      *)

\* A new grant, which may or may not end the one before it.
Connect ==
  /\ operator.pc = "idle"
  /\ issued < MaxToken
  /\ issued' = issued + 1
  /\ \E keep \in {valid, {}} : valid' = keep \cup {issued + 1}
  /\ operator' = [pc |-> "write_access", got |-> issued + 1]
  /\ UNCHANGED <<store, lease, flight, ghosts>>

Disconnect ==
  /\ Happens("disconnect")
  /\ operator.pc = "idle"
  /\ operator' = [pc |-> "write_access", got |-> 0]
  /\ UNCHANGED <<store, lease, flight, vendor, consumed, refused, late>>

\* A connect writes the expiry before the refresh token, a disconnect after it.
OperatorAccess ==
  /\ operator.pc = "write_access"
  /\ access' = operator.got
  /\ operator' = [operator EXCEPT !.pc = IF operator.got = 0 THEN "write_refresh"
                                                            ELSE "write_expiry"]
  /\ UNCHANGED <<expiry, refresh, lease, flight, vendor, ghosts>>

OperatorExpiry ==
  /\ operator.pc = "write_expiry"
  /\ expiry' = IF operator.got = 0 THEN "empty" ELSE "ahead"
  /\ operator' = IF operator.got = 0 THEN NoOperator
                                     ELSE [operator EXCEPT !.pc = "write_refresh"]
  /\ UNCHANGED <<access, refresh, lease, flight, vendor, ghosts>>

OperatorRefresh ==
  /\ operator.pc = "write_refresh"
  /\ refresh' = operator.got
  /\ operator' = IF operator.got = 0 THEN [operator EXCEPT !.pc = "write_expiry"]
                                     ELSE NoOperator
  /\ UNCHANGED <<access, expiry, lease, flight, vendor, ghosts>>

-----------------------------------------------------------------------------
(* Time, the vendor and failures.                                          *)

AccessExpires ==
  /\ expiry = "ahead"
  /\ expiry' = "past"
  /\ UNCHANGED <<access, refresh, lease, flight, operator, vendor, ghosts>>

Revoke ==
  /\ Happens("revoke")
  /\ valid' = {}
  /\ UNCHANGED <<store, lease, flight, operator, issued, consumed, refused, late>>

\* Another statement of the flight throws; its lease is released.
Throw(p) ==
  /\ Happens("dberror")
  /\ flight[p].pc \notin {"idle", "acquire", "recheck", "poll", "release"}
  /\ Leaves(p)
  /\ UNCHANGED <<store, lease, operator, vendor, consumed, refused, late>>

Crash(p) ==
  /\ Happens("crash")
  /\ flight[p].pc # "idle"
  /\ flight' = [flight EXCEPT ![p] = NoFlight]
  /\ UNCHANGED <<store, lease, operator, vendor, consumed, refused, late>>

-----------------------------------------------------------------------------

\* A connection that was made before, its access token fresh or not.
Init ==
  /\ access = 1
  /\ expiry \in {"ahead", "past"}
  /\ refresh = 1
  /\ lease = Free
  /\ flight = [p \in Procs |-> NoFlight]
  /\ operator = NoOperator
  /\ valid = {1}
  /\ issued = 1
  /\ consumed = {}
  /\ refused = {}
  /\ late = FALSE
  /\ mishaps = {}

Acquires(p) ==
  Acquire(p) \/ Degrade(p) \/ Reuse(p) \/ NoReuse(p) \/ Release(p)

Refreshes(p) ==
  \/ Read(p) \/ Post(p) \/ PostLost(p) \/ PostTransient(p) \/ PostRejected(p)
  \/ PostRefused(p) \/ Poll(p) \/ Unread(p)
  \/ WriteAccess(p) \/ WriteExpiry(p) \/ WriteRefresh(p)

Wipes(p) ==
  \/ WipeSkipped(p) \/ Confirm(p)
  \/ WipeAccess(p) \/ WipeRefresh(p) \/ WipeExpiry(p)

Operates ==
  Connect \/ Disconnect \/ OperatorAccess \/ OperatorExpiry \/ OperatorRefresh

Next ==
  \/ \E p \in Procs :
       \/ \E kind \in Kinds : Start(p, kind)
       \/ Acquires(p) \/ Refreshes(p) \/ Wipes(p) \/ Throw(p) \/ Crash(p)
  \/ Operates
  \/ LeaseExpires \/ AccessExpires \/ Revoke

Spec == Init /\ [][Next]_vars

-----------------------------------------------------------------------------
(* Properties.                                                             *)

FlightRecord ==
  [pc : {"idle", "acquire", "recheck", "read", "post", "poll", "write_access",
         "write_expiry", "write_refresh", "terminal", "wipe_access",
         "wipe_refresh", "wipe_expiry", "release"},
   kind : Kinds,
   rejected : Tokens,
   leased : BOOLEAN,
   lapsed : BOOLEAN,
   token : Tokens,
   seen : Tokens,
   got : Tokens,
   second : BOOLEAN]

\* Every variable has its type.
TypeOK ==
  /\ access \in Tokens
  /\ expiry \in {"empty", "ahead", "past"}
  /\ refresh \in Tokens
  /\ lease \in [owner : Procs \cup {None}, expired : BOOLEAN]
  /\ flight \in [Procs -> FlightRecord]
  /\ operator \in [pc : {"idle", "write_access", "write_expiry", "write_refresh"},
                   got : Tokens]
  /\ valid \subseteq 1 .. MaxToken
  /\ issued \in 1 .. MaxToken
  /\ consumed \subseteq 1 .. MaxToken
  /\ refused \subseteq 1 .. MaxToken
  /\ late \in BOOLEAN
  /\ mishaps \subseteq Faults

\* "only one process refreshes at a time": of two flights that are past the
\* lease, one went on without it or has outlived its own; in particular no
\* release frees what another process has taken over.
Refreshing(p) == flight[p].pc \notin {"idle", "acquire", "release"}
Leased(p) == Refreshing(p) /\ flight[p].leased /\ ~flight[p].lapsed

OneRefresher == \A p, q \in Procs : Leased(p) /\ Leased(q) => p = q

\* "a loser picks up any rotated token a sibling just persisted": a flight that
\* holds the lease posts a token that was consumed only if the lease ran out
\* under somebody, or the pair it was consumed for did not reach the store.
PostsConsumed(p) == flight[p].pc = "post" /\ flight[p].token \in consumed

ConsumedNeverPosted ==
  \A p \in Procs :
    PostsConsumed(p) =>
      mishaps \cap {"degrade", "lapse", "lost", "crash", "dberror"} # {}

\* Whoever wipes, fails or is late: while the vendor takes a token of ours and
\* nobody is about to write, the stored refresh token is one it takes, unless the
\* vendor has refused such a token to a flight that may wipe.  What it answers to
\* probes and keep-alives costs no connection.
Writing ==
  \/ operator.pc # "idle"
  \/ \E p \in Procs : flight[p].pc \in {"write_access", "write_expiry", "write_refresh"}

ConnectionSurvives ==
  valid # {} /\ ~Writing =>
    \/ refresh \in valid
    \/ valid \cap refused # {}
    \/ late
    \/ mishaps \cap {"lost", "crash", "dberror", "disconnect"} # {}
=============================================================================
