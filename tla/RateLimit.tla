------------------------------ MODULE RateLimit ------------------------------
(***************************************************************************)
(* The two limiters in front of the matcher: a bucket of tokens for each   *)
(* client, refilled by the second and forgotten once it must be full       *)
(* again, and for the requests that change something a count in a window   *)
(* of time.  Both keep a bounded number of clients.                        *)
(***************************************************************************)
EXTENDS Integers, FiniteSets, FiniteSetsExt, Functions, Sums, Absent

CONSTANTS
  Clients, Watched,            \* every client, and the one whose requests are counted
  Capacity, RefillPerSecond,   \* of a bucket
  Window, WindowRequests,      \* of a window
  MaxEntries,                  \* clients each limiter keeps
  MaxLimiterTime               \* bound

ASSUME RateAssumption ==
  /\ Capacity \in Nat \ {0} /\ RefillPerSecond \in Nat \ {0} /\ MaxEntries \in Nat \ {0}
  /\ Window \in Nat \ {0} /\ WindowRequests \in Nat /\ MaxLimiterTime \in Nat
  /\ Watched \in Clients

VARIABLES
  buckets,     \* client -> [tokens, lastRefillAt], for the clients kept
  windows,     \* client -> [startedAt, count], for the clients kept
  limiterNow,
  admitted,    \* time -> the watched client's requests the bucket let through
  changed,     \* time -> those the window let through
  crowdedOut   \* it was forgotten because too many were kept

rateVars == <<buckets, windows, limiterNow, admitted, changed, crowdedOut>>

Seconds == 0..MaxLimiterTime

RateInit ==
  /\ buckets = [c \in {} |-> None] /\ windows = [c \in {} |-> None]
  /\ limiterNow = 0 /\ crowdedOut = FALSE
  /\ admitted = [t \in Seconds |-> 0] /\ changed = admitted

RateSecond ==
  /\ limiterNow < MaxLimiterTime
  /\ limiterNow' = limiterNow + 1
  /\ UNCHANGED <<buckets, windows, admitted, changed, crowdedOut>>

(* Fault: the division is taken for exact. *)
RefillTime == Capacity \div RefillPerSecond

IdleSeconds == Capacity \div RefillPerSecond + 1

\* Of the buckets not idle long enough to be full, the most recently seen are
\* kept; which of several seen at once depends on their names.
KeptBuckets ==
  LET active == {c \in DOMAIN buckets : limiterNow < buckets[c].lastRefillAt + IdleSeconds}
  IN  {kept \in SUBSET active :
         /\ Cardinality(kept) = IF Cardinality(active) > MaxEntries THEN MaxEntries ELSE Cardinality(active)
         /\ \A c \in kept, d \in active \ kept : buckets[d].lastRefillAt <= buckets[c].lastRefillAt}

Refilled(bucket) ==
  Min({Capacity, bucket.tokens + (limiterNow - bucket.lastRefillAt) * RefillPerSecond})

\* A bucket with the client's tokens, one taken if there is one.
TakeToken(c, kept) ==
  LET tokens == IF c \in kept THEN Refilled(buckets[c]) ELSE Capacity
  IN  [d \in kept \cup {c} |->
         IF d # c THEN buckets[d]
         ELSE [tokens |-> IF tokens = 0 THEN 0 ELSE tokens - 1, lastRefillAt |-> limiterNow]]

Admits(c, kept) == c \in kept => Refilled(buckets[c]) > 0

\* The windows that are over go; a newcomer takes the place of the oldest left.
KeptWindows(c) ==
  LET open == {d \in DOMAIN windows : limiterNow - windows[d].startedAt < Window}
      oldest == {d \in open : \A e \in open : windows[d].startedAt <= windows[e].startedAt}
  IN  IF c \in open \/ Cardinality(open) < MaxEntries THEN {open}
      ELSE {open \ {d} : d \in oldest}

\* A count past the limit says no more than the first past it.
CheckRate(c, kept) ==
  windows' = [d \in kept \cup {c} |->
    IF d # c THEN windows[d]
    ELSE IF c \in kept THEN [windows[c] EXCEPT !.count = Min({@, WindowRequests}) + 1]
    ELSE [startedAt |-> limiterNow, count |-> 1]]

Count(log, c) == IF c = Watched THEN [log EXCEPT ![limiterNow] = @ + 1] ELSE log

BucketRuns(c) == limiterNow < buckets[c].lastRefillAt + IdleSeconds
WindowRuns(c) == limiterNow - windows[c].startedAt < Window

\* A request that only reads passes the bucket; one that changes something
\* passes the window as well.  The watched client is crowded out when it is
\* dropped for want of room while its bucket or window still says something.
Request(c, mutation) ==
  \E kept \in KeptBuckets :
   \E open \in IF mutation /\ Admits(c, kept) THEN KeptWindows(c) ELSE {DOMAIN windows} :
    /\ buckets' = TakeToken(c, kept)
    /\ crowdedOut' = ((Watched \in DOMAIN buckets \ kept /\ BucketRuns(Watched))
                       \/ (Watched \in DOMAIN windows \ open /\ WindowRuns(Watched)))
    /\ admitted' = IF Admits(c, kept) THEN Count(admitted, c) ELSE admitted
    /\ IF mutation /\ Admits(c, kept)
       THEN /\ CheckRate(c, open)
            /\ changed' = IF windows'[c].count <= WindowRequests THEN Count(changed, c) ELSE changed
       ELSE UNCHANGED <<windows, changed>>
    /\ UNCHANGED limiterNow

\* Once the watched client is crowded out nothing more is said of it.
RateNext ==
  /\ crowdedOut = FALSE
  /\ \/ RateSecond
     \/ \E c \in Clients, mutation \in BOOLEAN : Request(c, mutation)

-----------------------------------------------------------------------------
Between(log, s, t) == SumOver(log, s..t)

\* A client that no crowd pushed out of the limiters is let through within
\* budget over every span of time: a full bucket and what the span refills, and
\* two windows' worth of changes in the time of one, although its bucket was
\* forgotten and begun anew while it was quiet (pruneRateLimitMiddleware says a
\* full bucket is indistinguishable from a key that has never been seen).
WithinBudget ==
  crowdedOut = FALSE => \A s \in Seconds, t \in Seconds : s <= t =>
    /\ Between(admitted, s, t) <= Capacity + RefillPerSecond * (t - s)
    /\ t - s < Window => Between(changed, s, t) <= 2 * WindowRequests
=============================================================================
