---------------------------- MODULE AuthThrottle ----------------------------
(***************************************************************************)
(* core/auth_throttle.py and the middleware of core/api.py that uses it:   *)
(* which requests are refused because of wrong API keys.  The middleware   *)
(* has no await between the check and the count, so a request is one step. *)
(*                                                                         *)
(* Two dictionaries are kept in memory, the recent failures of a client    *)
(* and the clients that are locked out; together they may hold             *)
(* MAX_TRACKED_CLIENTS entries before old ones are thrown out, the         *)
(* failures in the order in which their clients were first seen.           *)
(***************************************************************************)
EXTENDS Integers, Sequences, FiniteSets, SequencesExt, Selection

CONSTANTS
  Clients,             \* what client_id answers: the addresses that are counted
  max_failures,        \* AUTH_MAX_FAILURES
  window_seconds,      \* AUTH_WINDOW_SECONDS
  lockout_seconds,     \* AUTH_LOCKOUT_SECONDS
  MAX_TRACKED_CLIENTS,
  MaxClock             \* bound: the clock stops here

ASSUME ThrottleAssumption ==
  /\ max_failures \in Nat \ {0} /\ window_seconds \in Nat \ {0} /\ lockout_seconds \in Nat \ {0}
  /\ MAX_TRACKED_CLIENTS \in Nat \ {0} /\ MaxClock \in Nat /\ IsFiniteSet(Clients)

VARIABLES
  clock,     \* _clock()
  order,     \* the keys of _failures, in the order of the dictionary
  times,     \* _failures: the times of the failures of each client, <<>> for no entry
  until,     \* _locked_until, 0 for no entry
  \* history, read by the properties only
  wrong,     \* for each client its wrong keys since its count last began anew
  lockedAt,  \* for each client the times it was locked out
  answered   \* for each client the last time a request of it was not refused with 429

throttleVars == <<clock, order, times, until, wrong, lockedAt, answered>>

ThrottleTypeOK ==
  /\ clock \in 1..MaxClock
  /\ order \in Seq(Clients)
  /\ times \in [Clients -> Seq(1..MaxClock)]
  /\ until \in [Clients -> Nat]
  /\ wrong \in [Clients -> Seq(1..MaxClock)]
  /\ lockedAt \in [Clients -> SUBSET (1..MaxClock)]
  /\ answered \in [Clients -> 0..MaxClock]
  \* the keys of _failures are the clients with a failure, each once
  /\ \A c \in Clients : times[c] # <<>> <=> \E i \in DOMAIN order : order[i] = c
  /\ \A i, j \in DOMAIN order : order[i] = order[j] => i = j

ThrottleInit ==
  /\ clock = 1
  /\ order = <<>>
  /\ times = [c \in Clients |-> <<>>]
  /\ until = [c \in Clients |-> 0]
  /\ wrong = [c \in Clients |-> <<>>]
  /\ lockedAt = [c \in Clients |-> {}]
  /\ answered = [c \in Clients |-> 0]

ClockTicks == clock < MaxClock /\ clock' = clock + 1 /\ UNCHANGED <<order, times, until, wrong, lockedAt, answered>>

\* blocked_seconds answers more than 0.
LockedOut(c) == until[c] > clock

\* blocked_seconds drops a lockout that is over.
Unlocked(c) == [until EXCEPT ![c] = 0]

TrackedEntries(keys, locks) == Len(keys) + Cardinality({c \in Clients : locks[c] # 0})

Stale(c) == clock - Last(times[c]) > window_seconds

\* A table that forgets the lockouts, too, when it is full.
RoomLocksAll(locks) ==
  IF TrackedEntries(order, locks) < MAX_TRACKED_CLIENTS THEN locks ELSE [c \in Clients |-> 0]

\* _make_room: nothing while there is room.  Otherwise the lockouts that are over and the
\* failures that are too old go, and then the clients seen first, until there is room or no
\* client with failures is left.  Lockouts in force stay.
RoomLocks(locks) ==
  IF TrackedEntries(order, locks) < MAX_TRACKED_CLIENTS THEN locks
  ELSE [c \in Clients |-> IF locks[c] > clock THEN locks[c] ELSE 0]

FreshKeys(keys) == Only(keys, {c \in Range(keys) : ~Stale(c)})

\* Room is made only once the table is larger than it may be.
RoomKeysLate(locks) == IF TrackedEntries(order, locks) <= MAX_TRACKED_CLIENTS THEN order ELSE FreshKeys(order)

RoomKeys(locks) ==
  IF TrackedEntries(order, locks) < MAX_TRACKED_CLIENTS THEN order
  ELSE LET fresh == FreshKeys(order)
           excess == TrackedEntries(fresh, RoomLocks(locks)) - MAX_TRACKED_CLIENTS + 1
       IN IF excess <= 0 THEN fresh ELSE SubSeq(fresh, excess + 1, Len(fresh))

\* What the table has of a client after room was made, and the wrong keys it stands for.
KeptTimes(c, keys) == IF c \in Range(keys) THEN times[c] ELSE <<>>
KeptWrong(c, keys) == IF c \in Range(keys) THEN wrong[c] ELSE <<>>

\* The failures at the front of a queue that are too old, and what is left without them.
TooOld(q, age) == {i \in DOMAIN q : \A j \in 1..i : clock - q[j] > age}
WithoutOld(q, age) == SubSeq(q, Cardinality(TooOld(q, age)) + 1, Len(q))

\* A window that is measured from the last failure.
InWindowSinceLast(c, keys) == IF c \in Range(keys) /\ ~Stale(c) THEN times[c] ELSE <<>>

\* A window that ends one second early.
InWindowStrict(c, keys) == WithoutOld(KeptTimes(c, keys), window_seconds - 1)

\* The failures of c that still count.
InWindow(c, keys) == WithoutOld(KeptTimes(c, keys), window_seconds)

\* A queue that is entered again at every failure.
KeyAppended(c, keys) == Append(keys, c)

\* setdefault: a client that has an entry keeps its place.
KeyAdded(c, keys) == IF c \in Range(keys) THEN keys ELSE Append(keys, c)

\* record_failure: make room, drop what is too old, count this one, lock out at the limit.
RecordFailure(c, locks) ==
  LET keys == RoomKeys(locks)
      count == Append(InWindow(c, keys), clock)
  IN IF Len(count) >= max_failures
     THEN /\ until' = [RoomLocks(locks) EXCEPT ![c] = clock + lockout_seconds]
          /\ order' = Only(keys, Clients \ {c})
          /\ times' = [d \in Clients |-> IF d = c THEN <<>> ELSE KeptTimes(d, keys)]
          /\ lockedAt' = [lockedAt EXCEPT ![c] = @ \cup {clock}]
          /\ wrong' = [d \in Clients |-> IF d = c THEN <<>> ELSE KeptWrong(d, keys)]
     ELSE /\ until' = RoomLocks(locks)
          /\ order' = KeyAdded(c, keys)
          /\ times' = [d \in Clients |-> IF d = c THEN count ELSE KeptTimes(d, keys)]
          /\ wrong' = [d \in Clients |-> IF d = c THEN Append(KeptWrong(c, keys), clock) ELSE KeptWrong(d, keys)]
          /\ UNCHANGED lockedAt

\* record_success: the count of the client begins anew.
RecordSuccess(c) ==
  /\ order' = Only(order, Clients \ {c})
  /\ times' = [times EXCEPT ![c] = <<>>]
  /\ wrong' = [wrong EXCEPT ![c] = <<>>]

-----------------------------------------------------------------------------
(* require_api_key. *)

\* A client that is locked out gets 429, whatever key it sends.
Refuse(c) == LockedOut(c) /\ UNCHANGED throttleVars

MissingKey(c) ==
  /\ ~LockedOut(c)
  /\ until' = Unlocked(c)
  /\ answered' = [answered EXCEPT ![c] = clock]
  /\ UNCHANGED <<clock, order, times, wrong, lockedAt>>

WrongKey(c) ==
  /\ ~LockedOut(c)
  /\ RecordFailure(c, Unlocked(c))
  /\ answered' = [answered EXCEPT ![c] = clock]
  /\ UNCHANGED clock

RightKey(c) ==
  /\ ~LockedOut(c)
  /\ until' = Unlocked(c)
  /\ RecordSuccess(c)
  /\ answered' = [answered EXCEPT ![c] = clock]
  /\ UNCHANGED <<clock, lockedAt>>

\* State is in memory: a restart forgets it.
ThrottleRestart ==
  /\ order' = <<>>
  /\ times' = [c \in Clients |-> <<>>]
  /\ until' = [c \in Clients |-> 0]
  /\ wrong' = [c \in Clients |-> <<>>]
  /\ lockedAt' = [c \in Clients |-> {}]
  /\ UNCHANGED <<clock, answered>>

ThrottleNext ==
  \/ ClockTicks \/ ThrottleRestart
  \/ \E c \in Clients : Refuse(c) \/ MissingKey(c) \/ WrongKey(c) \/ RightKey(c)

ThrottleSpec == ThrottleInit /\ [][ThrottleNext]_throttleVars

-----------------------------------------------------------------------------
(* Properties. *)

\* A client that was locked out gets no other answer than 429 for AUTH_LOCKOUT_SECONDS, not even
\* with the right key and not even when the table overflows meanwhile (_make_room).
LockoutHonoured ==
  \A c \in Clients : \A t \in lockedAt[c] : answered[c] <= t \/ answered[c] >= t + lockout_seconds

\* AUTH_MAX_FAILURES wrong keys of a client within AUTH_WINDOW_SECONDS are never left standing:
\* those that were not answered by a lockout lie further apart (record_failure).  A right key, and
\* being thrown out of a full table, begin a new count.
LockedInTime ==
  \A c \in Clients : \A i \in DOMAIN wrong[c] :
    i + max_failures - 1 \in DOMAIN wrong[c] =>
      wrong[c][i + max_failures - 1] - wrong[c][i] > window_seconds

\* Nobody is locked out who has not earned it: at a lockout this wrong key and the ones before it
\* since the last right key make AUTH_MAX_FAILURES within the window (record_failure).
LockEarned ==
  [][\A c \in Clients : lockedAt'[c] \ lockedAt[c] # {} =>
       LET before == Len(wrong[c]) - (max_failures - 1)
       IN before >= 0 /\ (max_failures > 1 => clock - wrong[c][before + 1] <= window_seconds)]_throttleVars

\* However many clients fail, no more than MAX_TRACKED_CLIENTS are kept with their failures
\* (test_tracking_is_bounded).
TrackingBounded == Len(order) <= MAX_TRACKED_CLIENTS

\* What is kept of the failures is enough to lock in time, never too much to lock without reason,
\* and bounded.
FailuresCount == [](LockedInTime /\ TrackingBounded) /\ LockEarned
=============================================================================
