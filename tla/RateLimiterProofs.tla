------------------------- MODULE RateLimiterProofs -------------------------
(***************************************************************************)
(* A bucket admits exactly the requests that keep every window within its  *)
(* limit, for every rate, capacity, cost and sweep that satisfy the        *)
(* assumptions of RateLimiter.                                             *)
(***************************************************************************)
EXTENDS RateLimiter, TLAPS

\* The level of a bucket is the smallest headroom of the windows that end now;
\* windows that have not begun are empty.
LevelIsHeadroom ==
  \A ip \in Ips :
    /\ \A s \in 0..now : Level(ip) <= Headroom(ip, s)
    /\ \E s \in 0..now : Level(ip) = Headroom(ip, s)
    /\ \A s \in 0..MaxTime : s > now => granted[ip][s] = 0

LimiterInv == TypeOK /\ LevelIsHeadroom

-----------------------------------------------------------------------------
(* Arithmetic *)

LEMMA OneMore == \A a, b, c \in Int : a * ((b + 1) - c) = a * (b - c) + a
BY SMT

LEMMA Successor == \A a, b \in Int : a * (b + 1) = a * b + a
BY SMT

LEMMA Zero == \A a, b \in Int : a * (b - b) = 0 /\ a * 0 = 0
BY SMT

LEMMA Product == \A a, b \in Int : a * b \in Int
BY SMT

LEMMA NotNegative == \A a, b \in Nat : a * b >= 0
BY SMT

LEMMA Monotone == \A a, b, c \in Nat : b <= c => a * b <= a * c
BY SMT

-----------------------------------------------------------------------------
(* Levels *)

LEMMA LevelType ==
  ASSUME TypeOK, NEW ip \in Ips
  PROVE  Level(ip) \in 0..Capacity
<1>1. CASE buckets[ip] = Absent
  BY <1>1, LimitsAssumption DEF Level
<1>2. CASE buckets[ip] # Absent
  <2>1. buckets[ip].tokens \in 0..Capacity /\ now - buckets[ip].last \in Nat
    BY <1>2 DEF TypeOK, Buckets
  <2>2. Rate * (now - buckets[ip].last) \in Nat
    BY <2>1, Product, NotNegative, LimitsAssumption
  <2> QED BY <1>2, <2>1, <2>2, LimitsAssumption DEF Level, Capped
<1> QED BY <1>1, <1>2

LEMMA HeadroomType ==
  ASSUME TypeOK, NEW ip \in Ips, NEW s \in 0..MaxTime
  PROVE  /\ granted[ip][s] \in Nat /\ now \in Nat
         /\ Rate * (now - s) \in Int /\ Cost * granted[ip][s] \in Int
         /\ Headroom(ip, s) \in Int
<1>1. granted[ip][s] \in Nat /\ now \in Nat /\ s \in Nat
  BY LimitsAssumption DEF TypeOK
<1>2. Rate * (now - s) \in Int /\ Cost * granted[ip][s] \in Int
  BY <1>1, Product, LimitsAssumption
<1> QED BY <1>1, <1>2, LimitsAssumption DEF Headroom

\* A bucket that a sweep deletes would have been full at the next request.
LEMMA StaleIsFull ==
  ASSUME TypeOK, NEW ip \in Ips, Stale(ip)
  PROVE  Level(ip) = Capacity
<1>1. buckets[ip].tokens \in 0..Capacity /\ now - buckets[ip].last \in Nat
      /\ now - buckets[ip].last >= StaleAfter
  BY LimitsAssumption DEF TypeOK, Buckets, Stale
<1>2. Rate * (now - buckets[ip].last) >= Rate * StaleAfter
      /\ Rate * (now - buckets[ip].last) \in Int /\ Rate * StaleAfter \in Int
  BY <1>1, Monotone, Product, LimitsAssumption
<1>3. Rate * (now - buckets[ip].last) >= Capacity
  BY <1>2, StaleIsFullAssumption, LimitsAssumption
<1> DEFINE gain == Rate * (now - buckets[ip].last)
<1>4. Level(ip) = Capped(buckets[ip].tokens + gain)
  BY DEF Level, Stale
<1>5. gain \in Int /\ gain >= Capacity
  BY <1>2, <1>3
<1> HIDE DEF gain
<1> QED BY <1>1, <1>4, <1>5, LimitsAssumption DEF Capped

-----------------------------------------------------------------------------
(* Type correctness *)

LEMMA LimiterInitType == Init => TypeOK
<1> SUFFICES ASSUME Init PROVE TypeOK
  OBVIOUS
<1>1. now \in 0..MaxTime /\ granted \in [Ips -> [0..MaxTime -> Nat]]
  BY LimitsAssumption DEF Init
<1>2. due \in BOOLEAN
  BY DEF Init
<1>3. /\ buckets \in [Ips -> Buckets \cup {Absent}]
      /\ \A ip \in Ips : buckets[ip] = Absent
  BY DEF Init
<1> QED BY <1>1, <1>2, <1>3 DEF TypeOK

LEMMA LimiterNextType == TypeOK /\ [Next]_vars => TypeOK'
<1> SUFFICES ASSUME TypeOK, [Next]_vars PROVE TypeOK'
  OBVIOUS
<1>1. ASSUME NEW ip \in Ips, Allow(ip) PROVE TypeOK'
  <2> DEFINE admit == Level(ip) >= Cost
             row == [tokens |-> IF admit THEN Level(ip) - Cost ELSE Level(ip), last |-> now]
  <2>1. now \in Nat /\ now' = now /\ due' = due
    BY <1>1, LimitsAssumption DEF TypeOK, Allow
  <2>2. row \in Buckets /\ row.last = now
    BY <2>1, LevelType, LimitsAssumption DEF Buckets
  <2>3. buckets' = [buckets EXCEPT ![ip] = row]
    BY <1>1 DEF Allow
  <2>4. /\ buckets' \in [Ips -> Buckets \cup {Absent}]
        /\ \A j \in Ips : buckets'[j] # Absent => buckets'[j].last <= now'
    <3> HIDE DEF row
    <3> QED BY <2>1, <2>2, <2>3 DEF TypeOK
  <2>5. granted' \in [Ips -> [0..MaxTime -> Nat]]
    <3> DEFINE count == [s \in 0..MaxTime |-> IF admit /\ s <= now THEN granted[ip][s] + 1 ELSE granted[ip][s]]
    <3>1. granted \in [Ips -> [0..MaxTime -> Nat]] /\ granted[ip] \in [0..MaxTime -> Nat]
      BY DEF TypeOK
    <3>2. count \in [0..MaxTime -> Nat]
      <4> HIDE DEF admit
      <4> QED BY <3>1
    <3>3. granted' = [granted EXCEPT ![ip] = count]
      BY <1>1, <3>1 DEF Allow
    <3> HIDE DEF count
    <3> QED BY <3>1, <3>2, <3>3
  <2> QED BY <2>1, <2>4, <2>5 DEF TypeOK
<1>2. CASE Sweep
  BY <1>2 DEF Sweep, TypeOK
<1>3. CASE Tick
  <2>1. due' \in BOOLEAN
    BY <1>3 DEF Tick
  <2>2. now' \in 0..MaxTime /\ now <= now' /\ now \in Nat
    BY <1>3, LimitsAssumption DEF Tick, TypeOK
  <2>3. \A ip \in Ips : buckets[ip] # Absent => buckets[ip].last <= now'
    BY <2>2, LimitsAssumption DEF TypeOK, Buckets
  <2> QED BY <1>3, <2>1, <2>2, <2>3 DEF Tick, TypeOK
<1>4. CASE UNCHANGED vars
  BY <1>4 DEF vars, TypeOK
<1> QED BY <1>1, <1>2, <1>3, <1>4 DEF Next

\* No bucket holds less than nothing or more than its capacity.
THEOREM LimiterTypes == Spec => []TypeOK
BY LimiterInitType, LimiterNextType, PTL DEF Spec

-----------------------------------------------------------------------------
(* The invariant *)

LEMMA LimiterInit == Init => LevelIsHeadroom
<1> SUFFICES ASSUME Init, NEW ip \in Ips
             PROVE  /\ \A s \in 0..now : Level(ip) <= Headroom(ip, s)
                    /\ \E s \in 0..now : Level(ip) = Headroom(ip, s)
                    /\ \A s \in 0..MaxTime : s > now => granted[ip][s] = 0
  BY DEF LevelIsHeadroom
<1>1. now = 0 /\ Level(ip) = Capacity /\ \A s \in 0..MaxTime : granted[ip][s] = 0
  BY DEF Init, Level
<1>2. Headroom(ip, 0) = Capacity
  <2>1. granted[ip][0] = 0
    BY <1>1, LimitsAssumption
  <2>2. Rate * (0 - 0) = 0 /\ Cost * 0 = 0
    BY Zero, LimitsAssumption
  <2> QED BY <1>1, <2>1, <2>2, LimitsAssumption DEF Headroom
<1> QED BY <1>1, <1>2, LimitsAssumption

LEMMA LimiterAllow ==
  ASSUME LimiterInv, TypeOK', NEW ip \in Ips, Allow(ip)
  PROVE  LevelIsHeadroom'
<1> USE DEF LimiterInv
<1> DEFINE admit == Level(ip) >= Cost
           row == [tokens |-> IF admit THEN Level(ip) - Cost ELSE Level(ip), last |-> now]
<1>1. now \in Nat /\ now' = now /\ now <= MaxTime /\ 0..now \subseteq 0..MaxTime
  BY LimitsAssumption DEF TypeOK, Allow
<1>2. Level(ip) \in 0..Capacity
  BY LevelType
<1>3. buckets' = [buckets EXCEPT ![ip] = row] /\ buckets'[ip] = row
  BY DEF Allow, TypeOK
<1>4. Level(ip)' = IF admit THEN Level(ip) - Cost ELSE Level(ip)
  <2>1. row \in [tokens : Int, last : Int] /\ row.tokens \in 0..Capacity /\ row.last = now
    BY <1>1, <1>2, LimitsAssumption
  <2>2. row # Absent
    BY <2>1, LimitsAssumption
  <2>3. Level(ip)' = Capped(row.tokens + Rate * (now - row.last))
    BY <1>1, <1>3, <2>2 DEF Level
  <2>4. Rate * (now - row.last) = 0
    BY <1>1, <2>1, Zero, LimitsAssumption
  <2>5. Level(ip)' = row.tokens
    <3> HIDE DEF row
    <3> QED BY <2>1, <2>3, <2>4, LimitsAssumption DEF Capped
  <2> QED BY <2>5
<1>5. \A s \in 0..MaxTime : granted'[ip][s] = IF admit /\ s <= now THEN granted[ip][s] + 1 ELSE granted[ip][s]
  BY DEF Allow, TypeOK
<1>6. \A s \in 0..now : Headroom(ip, s)' = IF admit THEN Headroom(ip, s) - Cost ELSE Headroom(ip, s)
  <2> TAKE s \in 0..now
  <2>1. s \in 0..MaxTime /\ s <= now
    BY <1>1
  <2>2. granted'[ip][s] = IF admit THEN granted[ip][s] + 1 ELSE granted[ip][s]
    BY <1>5, <2>1
  <2>3. Cost * (granted[ip][s] + 1) = Cost * granted[ip][s] + Cost
    BY <2>1, HeadroomType, Successor, LimitsAssumption
  <2>4. Headroom(ip, s)' = Capacity + Rate * (now - s) - Cost * granted'[ip][s]
    BY <1>1 DEF Headroom
  <2> HIDE DEF admit
  <2> QED BY <2>1, <2>2, <2>3, <2>4, HeadroomType, LimitsAssumption DEF Headroom
<1>7. \A s \in 0..now : Level(ip)' <= Headroom(ip, s)'
  <2> TAKE s \in 0..now
  <2>1. Level(ip) <= Headroom(ip, s) /\ Headroom(ip, s) \in Int
    BY <1>1, HeadroomType DEF LevelIsHeadroom
  <2> HIDE DEF admit
  <2> QED BY <2>1, <1>2, <1>4, <1>6, LimitsAssumption
<1>8. \E s \in 0..now : Level(ip)' = Headroom(ip, s)'
  <2>1. PICK s \in 0..now : Level(ip) = Headroom(ip, s)
    BY DEF LevelIsHeadroom
  <2>2. Level(ip)' = Headroom(ip, s)'
    <3> HIDE DEF admit
    <3> QED BY <2>1, <1>4, <1>6
  <2> QED BY <2>2
<1>9. \A s \in 0..MaxTime : s > now => granted'[ip][s] = 0
  <2> TAKE s \in 0..MaxTime
  <2> HAVE s > now
  <2>1. ~(s <= now)
    BY <1>1
  <2> QED BY <2>1, <1>5 DEF LevelIsHeadroom
<1>10. ASSUME NEW j \in Ips, j # ip
       PROVE  /\ \A s \in 0..now : Level(j)' <= Headroom(j, s)'
              /\ \E s \in 0..now : Level(j)' = Headroom(j, s)'
              /\ \A s \in 0..MaxTime : s > now => granted'[j][s] = 0
  <2>1. buckets'[j] = buckets[j] /\ granted'[j] = granted[j]
    BY <1>10 DEF Allow, TypeOK
  <2>2. Level(j)' = Level(j) /\ \A s : Headroom(j, s)' = Headroom(j, s)
    BY <1>1, <2>1 DEF Level, Headroom
  <2> QED BY <2>1, <2>2 DEF LevelIsHeadroom
<1> QED BY <1>1, <1>7, <1>8, <1>9, <1>10 DEF LevelIsHeadroom

LEMMA LimiterSweep ==
  ASSUME LimiterInv, Sweep
  PROVE  LevelIsHeadroom'
<1> USE DEF LimiterInv
<1>1. now' = now /\ granted' = granted
  BY DEF Sweep
<1>2. ASSUME NEW ip \in Ips PROVE Level(ip)' = Level(ip)
  <2>1. CASE Stale(ip)
    <3>1. buckets'[ip] = Absent
      BY <2>1 DEF Sweep
    <3> QED BY <2>1, <3>1, StaleIsFull DEF Level
  <2>2. CASE ~Stale(ip)
    <3>1. buckets'[ip] = buckets[ip]
      BY <2>2 DEF Sweep
    <3> QED BY <1>1, <3>1 DEF Level
  <2> QED BY <2>1, <2>2
<1>3. \A ip, s : Headroom(ip, s)' = Headroom(ip, s)
  BY <1>1 DEF Headroom
<1> QED BY <1>1, <1>2, <1>3 DEF LevelIsHeadroom

LEMMA LimiterTick ==
  ASSUME LimiterInv, Tick
  PROVE  LevelIsHeadroom'
<1> USE DEF LimiterInv
<1>1. now \in Nat /\ now' = now + 1 /\ now' <= MaxTime /\ buckets' = buckets /\ granted' = granted
  BY LimitsAssumption DEF Tick, TypeOK
<1> SUFFICES ASSUME NEW ip \in Ips
             PROVE  /\ \A s \in 0..now' : Level(ip)' <= Headroom(ip, s)'
                    /\ \E s \in 0..now' : Level(ip)' = Headroom(ip, s)'
                    /\ \A s \in 0..MaxTime : s > now' => granted'[ip][s] = 0
  BY DEF LevelIsHeadroom
<1>2. Level(ip) \in 0..Capacity
  BY LevelType
<1>3. Level(ip)' = Capped(Level(ip) + Rate)
  <2>1. CASE buckets[ip] = Absent
    BY <1>1, <2>1, LimitsAssumption DEF Level, Capped
  <2>2. CASE buckets[ip] # Absent
    <3> DEFINE filled == buckets[ip].tokens + Rate * (now - buckets[ip].last)
    <3>1. buckets[ip].tokens \in 0..Capacity /\ buckets[ip].last \in Nat
      BY <2>2 DEF TypeOK, Buckets
    <3>2. Rate * ((now + 1) - buckets[ip].last) = Rate * (now - buckets[ip].last) + Rate
      BY <1>1, <3>1, OneMore, LimitsAssumption
    <3>3. Rate * (now - buckets[ip].last) \in Int
      BY <1>1, <3>1, Product, LimitsAssumption
    <3>4. Level(ip) = Capped(filled) /\ filled \in Int
      BY <2>2, <3>1, <3>3, LimitsAssumption DEF Level
    <3>5. Level(ip)' = Capped(filled + Rate)
      <4>1. Level(ip)' = Capped(buckets[ip].tokens + Rate * ((now + 1) - buckets[ip].last))
        BY <1>1, <2>2 DEF Level
      <4>2. buckets[ip].tokens + Rate * ((now + 1) - buckets[ip].last) = filled + Rate
        BY <3>1, <3>2, <3>3, LimitsAssumption
      <4> QED BY <4>1, <4>2
    <3> HIDE DEF filled
    <3> QED BY <3>4, <3>5, LimitsAssumption DEF Capped
  <2> QED BY <2>1, <2>2
<1>4. \A s \in 0..now : Headroom(ip, s)' = Headroom(ip, s) + Rate /\ Headroom(ip, s) \in Int
  <2> TAKE s \in 0..now
  <2>1. s \in 0..MaxTime /\ s \in Int
    BY <1>1, LimitsAssumption
  <2>2. Rate * ((now + 1) - s) = Rate * (now - s) + Rate
    BY <1>1, <2>1, OneMore, LimitsAssumption
  <2>3. Headroom(ip, s)' = Capacity + Rate * ((now + 1) - s) - Cost * granted[ip][s]
    BY <1>1 DEF Headroom
  <2> QED BY <2>1, <2>2, <2>3, HeadroomType, LimitsAssumption DEF Headroom
<1>5. ASSUME NEW t \in Nat, t = now + 1 PROVE Headroom(ip, t)' = Capacity
  <2>1. granted[ip][t] = 0
    BY <1>1, <1>5, LimitsAssumption DEF LevelIsHeadroom
  <2>2. Rate * (t - t) = 0 /\ Cost * 0 = 0
    BY Zero, LimitsAssumption
  <2>3. Headroom(ip, t)' = Capacity + Rate * (t - t) - Cost * 0
    BY <1>1, <1>5, <2>1 DEF Headroom
  <2> QED BY <2>2, <2>3, LimitsAssumption
<1>6. Level(ip)' \in Int /\ Level(ip)' <= Capacity /\ Level(ip)' <= Level(ip) + Rate
  BY <1>2, <1>3, LimitsAssumption DEF Capped
<1>7. \A s \in 0..now' : Level(ip)' <= Headroom(ip, s)'
  <2> TAKE s \in 0..now'
  <2>1. CASE s = now + 1
    BY <1>1, <1>5, <1>6, <2>1
  <2>2. CASE s # now + 1
    <3>1. s \in 0..now
      BY <1>1, <2>2
    <3>2. Level(ip) <= Headroom(ip, s)
      BY <3>1 DEF LevelIsHeadroom
    <3> QED BY <1>2, <1>4, <1>6, <3>1, <3>2, LimitsAssumption
  <2> QED BY <2>1, <2>2
<1>8. \E s \in 0..now' : Level(ip)' = Headroom(ip, s)'
  <2>1. CASE Level(ip) + Rate > Capacity
    <3>1. PICK t \in Nat : t = now + 1
      BY <1>1
    <3>2. Level(ip)' = Headroom(ip, t)'
      BY <1>3, <1>5, <2>1, <3>1 DEF Capped
    <3>3. t \in 0..now'
      BY <1>1, <3>1
    <3> QED BY <3>2, <3>3
  <2>2. CASE ~(Level(ip) + Rate > Capacity)
    <3>1. PICK s \in 0..now : Level(ip) = Headroom(ip, s)
      BY DEF LevelIsHeadroom
    <3>2. Level(ip)' = Headroom(ip, s)'
      BY <1>3, <1>4, <2>2, <3>1 DEF Capped
    <3>3. s \in 0..now'
      BY <1>1
    <3> QED BY <3>2, <3>3
  <2> QED BY <2>1, <2>2
<1>9. \A s \in 0..MaxTime : s > now' => granted'[ip][s] = 0
  <2> TAKE s \in 0..MaxTime
  <2> HAVE s > now'
  <2>1. s > now
    BY <1>1
  <2> QED BY <1>1, <2>1 DEF LevelIsHeadroom
<1> QED BY <1>7, <1>8, <1>9

LEMMA LimiterNext == LimiterInv /\ [Next]_vars => LimiterInv'
<1> SUFFICES ASSUME LimiterInv, [Next]_vars PROVE LimiterInv'
  OBVIOUS
<1>1. TypeOK'
  BY LimiterNextType DEF LimiterInv
<1>2. ASSUME NEW ip \in Ips, Allow(ip) PROVE LevelIsHeadroom'
  BY <1>1, <1>2, LimiterAllow
<1>3. ASSUME Sweep PROVE LevelIsHeadroom'
  BY <1>3, LimiterSweep
<1>4. ASSUME Tick PROVE LevelIsHeadroom'
  BY <1>4, LimiterTick
<1>5. ASSUME UNCHANGED vars PROVE LevelIsHeadroom'
  <2>1. now' = now /\ granted' = granted
    BY <1>5 DEF vars
  <2>2. \A ip, s : Level(ip)' = Level(ip) /\ Headroom(ip, s)' = Headroom(ip, s)
    BY <1>5 DEF vars, Level, Headroom
  <2> QED BY <2>1, <2>2 DEF LimiterInv, LevelIsHeadroom
<1> QED BY <1>1, <1>2, <1>3, <1>4, <1>5 DEF Next, LimiterInv

LEMMA LimiterMeaning == LimiterInv => ExactLimit /\ WithinLimit
<1> SUFFICES ASSUME LimiterInv, NEW ip \in Ips
             PROVE  /\ Level(ip) >= Cost <=> \A s \in 0..now : Headroom(ip, s) >= Cost
                    /\ \A s \in 0..now : Headroom(ip, s) >= 0
  BY DEF ExactLimit, WithinLimit
<1>1. Level(ip) \in 0..Capacity
  BY LevelType DEF LimiterInv
<1>2. \A s \in 0..now : Headroom(ip, s) \in Int /\ Level(ip) <= Headroom(ip, s)
  <2> TAKE s \in 0..now
  <2>1. s \in 0..MaxTime
    BY LimitsAssumption DEF LimiterInv, TypeOK
  <2> QED BY <2>1, HeadroomType DEF LimiterInv, LevelIsHeadroom
<1>3. PICK s \in 0..now : Level(ip) = Headroom(ip, s)
  BY DEF LimiterInv, LevelIsHeadroom
<1> QED BY <1>1, <1>2, <1>3, LimitsAssumption

\* A request is admitted exactly when no window ended by it has too many, although
\* the bucket keeps two numbers and a sweep may throw them away.
THEOREM LimitIsExact == Spec => []ExactLimit
<1>1. Init => LimiterInv
  BY LimiterInitType, LimiterInit DEF LimiterInv
<1> QED BY <1>1, LimiterNext, LimiterMeaning, PTL DEF Spec

\* No window ever has more requests than the burst and the rate allow.
THEOREM LimitIsKept == Spec => []WithinLimit
<1>1. Init => LimiterInv
  BY LimiterInitType, LimiterInit DEF LimiterInv
<1> QED BY <1>1, LimiterNext, LimiterMeaning, PTL DEF Spec
=============================================================================
