---------------------------- MODULE RateLimiter ----------------------------
(***************************************************************************)
(* The token buckets in front of register, login and refresh.  Time and    *)
(* tokens are whole numbers of small units, so that the float64 arithmetic *)
(* of the code is exact; a request costs Cost units (1.0 in the code).     *)
(* Allow and a sweep each run under the limiter's mutex.                   *)
(***************************************************************************)
EXTENDS Integers

CONSTANTS
  Ips,         \* keys of the buckets
  Rate,        \* units a bucket gains per tick
  Capacity,    \* units of a full bucket
  Cost,        \* units of one request
  StaleAfter,  \* ticks without a request after which a sweep deletes a bucket
  SweepEvery,  \* period of the sweep's ticker
  MaxTime,     \* bound of the clock
  Absent       \* no bucket in the map

ASSUME LimitsAssumption ==
  /\ Rate \in Nat \ {0} /\ Capacity \in Nat \ {0} /\ Cost \in Nat \ {0}
  /\ StaleAfter \in Nat /\ SweepEvery \in Nat \ {0} /\ MaxTime \in Nat
  /\ Absent \notin [tokens : Int, last : Int]
\* Ten minutes refill a bucket of ten tokens at five tokens a second.
ASSUME StaleIsFullAssumption == Rate * StaleAfter >= Capacity

VARIABLES
  now,      \* the clock
  buckets,  \* RateLimiter.buckets
  due,      \* a tick waits in the sweep's ticker channel
  granted   \* history: granted[ip][s] requests were admitted since time s

vars == <<now, buckets, due, granted>>

Buckets == [tokens : 0..Capacity, last : Nat]

Init ==
  /\ now = 0
  /\ buckets = [ip \in Ips |-> Absent]
  /\ due = FALSE
  /\ granted = [ip \in Ips |-> [s \in 0..MaxTime |-> 0]]

Capped(n) == IF n > Capacity THEN Capacity ELSE n

\* The tokens Allow would find now: a missing bucket is created full.
Level(ip) ==
  IF buckets[ip] = Absent THEN Capacity
  ELSE Capped(buckets[ip].tokens + Rate * (now - buckets[ip].last))

\* Mutation: lastRefilled keeps the time of the bucket's creation.
RefillFromCreation(ip) ==
  LET level == Level(ip)
      admit == level >= Cost
  IN /\ buckets' = [buckets EXCEPT ![ip] =
                      [tokens |-> IF admit THEN level - Cost ELSE level,
                       last |-> IF buckets[ip] = Absent THEN now ELSE buckets[ip].last]]
     /\ granted' = [granted EXCEPT ![ip] =
                      [s \in 0..MaxTime |-> IF admit /\ s <= now THEN @[s] + 1 ELSE @[s]]]
     /\ UNCHANGED <<now, due>>

Allow(ip) ==
  LET level == Level(ip)
      admit == level >= Cost
  IN /\ buckets' = [buckets EXCEPT ![ip] =
                      [tokens |-> IF admit THEN level - Cost ELSE level, last |-> now]]
     /\ granted' = [granted EXCEPT ![ip] =
                      [s \in 0..MaxTime |-> IF admit /\ s <= now THEN @[s] + 1 ELSE @[s]]]
     /\ UNCHANGED <<now, due>>

\* Mutation: a sweep drops every bucket of the map.
AnyBucket(ip) == buckets[ip] # Absent

Stale(ip) == buckets[ip] # Absent /\ now - buckets[ip].last > StaleAfter

\* One round of cleanupLoop.
Sweep ==
  /\ due
  /\ due' = FALSE
  /\ buckets' = [ip \in Ips |-> IF Stale(ip) THEN Absent ELSE buckets[ip]]
  /\ UNCHANGED <<now, granted>>

\* Time passes; the ticker drops a tick while one is waiting.
Tick ==
  /\ now < MaxTime
  /\ now' = now + 1
  /\ due' = (due \/ (now + 1) % SweepEvery = 0)
  /\ UNCHANGED <<buckets, granted>>

Next == (\E ip \in Ips : Allow(ip)) \/ Sweep \/ Tick

Spec == Init /\ [][Next]_vars

-----------------------------------------------------------------------------
(* Properties *)

\* What the window from s until now still allows.
Headroom(ip, s) == Capacity + Rate * (now - s) - Cost * granted[ip][s]

\* The buckets hold between nothing and their capacity, with a past refill.
TypeOK ==
  /\ now \in 0..MaxTime /\ due \in BOOLEAN
  /\ buckets \in [Ips -> Buckets \cup {Absent}]
  /\ granted \in [Ips -> [0..MaxTime -> Nat]]
  /\ \A ip \in Ips : buckets[ip] # Absent => buckets[ip].last <= now

\* Allow admits a request exactly when no window of any length, ended by it,
\* has more requests than a burst of Capacity plus Rate times its length: the
\* bucket forgets nothing that matters, also when a sweep deletes it.
ExactLimit ==
  \A ip \in Ips : Level(ip) >= Cost <=> \A s \in 0..now : Headroom(ip, s) >= Cost

\* No window ever exceeds its limit.
WithinLimit == \A ip \in Ips : \A s \in 0..now : Headroom(ip, s) >= 0
=============================================================================
