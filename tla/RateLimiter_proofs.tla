------------------------- MODULE RateLimiter_proofs -------------------------
(***************************************************************************)
(* Proof that no bucket grants more than its capacity and its rate allow.  *)
(*                                                                         *)
(* What a bucket has granted and what it still holds stay within one       *)
(* capacity for the first second and one for each second up to             *)
(* last_refill.  In Redis last_refill may go back, by at most the time the *)
(* script was under way, and an expired bucket is full again, after a time *)
(* in which it would have filled up.                                       *)
(***************************************************************************)
EXTENDS RateLimiter, FiniteSetTheorems, SequenceTheorems, TLAPS

\* The seconds scripts for a key were under way; a process has no way to go to its own bucket.
Delay(s, k) == IF s = Redis THEN late[k] ELSE 0

\* The tokens bucket k of store s may have granted or hold at time t.
Budget(s, k, t) == Capacity(k) * (1 + t + Delay(s, k))

\* What was granted or is held fits the time up to last_refill; what was
\* granted before the key was dropped, or will be, fits the time before that.
BucketFits(s, k, b) ==
  /\ b.tokens # None =>
       /\ b.last <= now
       /\ Unit * granted[s][k] + b.tokens <= Budget(s, k, b.last)
  /\ b.tokens = None => Unit * granted[s][k] + Capacity(k) <= Budget(s, k, now)
  /\ b.expires # None =>
       Unit * granted[s][k] + Capacity(k) <= Budget(s, k, b.expires - 1)

Within ==
  /\ \A c \in Callers : call[c].stamp <= now
  /\ \A c \in Callers : call[c].pc = "next" => call[c].i < Len(BucketsOf[c])
  /\ \A s \in Stores, k \in Keys : BucketFits(s, k, bucket[s][k])

IInv == TypeOK /\ Within

-----------------------------------------------------------------------------
(* Arithmetic *)

\* Rates and capacities are numbers.
LEMMA Capacities == \A k \in Keys : Rate[k] \in Nat \ {0} /\ Capacity(k) \in Nat
  BY LimiterAssumption DEF Capacity, Unit

\* A greater number of seconds gives no fewer tokens.
LEMMA Monotone ==
  ASSUME NEW C \in Nat, NEW a \in Int, NEW b \in Int, a <= b
  PROVE  C * a <= C * b
  OBVIOUS

\* Halving keeps a multiplier within its bounds.
LEMMA HalvedType == \A m \in Floor .. Unit : Halved(m) \in Floor .. Unit
  BY DEF Halved, Larger, Floor, Unit

\* A grant keeps the key for two seconds at least.
LEMMA TtlBound == \A m \in Floor .. Unit : Ttl(m) \in Nat /\ Ttl(m) >= 2
  BY DEF Ttl, Floor, Unit

\* The multiplier is at most one, so a second refills at most a capacity.
LEMMA RefillBound ==
  ASSUME NEW k \in Keys, NEW m \in Floor .. Unit, NEW n \in Nat
  PROVE  n * Rate[k] * m \in Nat /\ n * Rate[k] * m <= Capacity(k) * n
<1>1. PICK r \in Nat : r = Rate[k]
  BY Capacities
<1>2. n * r \in Nat
  OBVIOUS
<1>3. (n * r) * m <= (n * r) * Unit
  BY <1>2, Monotone DEF Floor, Unit
<1>4. (n * r) * Unit = (Unit * r) * n
  BY DEF Unit
<1>5. (n * r) * m \in Nat
  BY <1>2 DEF Floor, Unit
<1> QED BY <1>1, <1>3, <1>4, <1>5 DEF Capacity

-----------------------------------------------------------------------------
(* Buckets *)

\* A bucket keeps fitting when time passes, scripts for others run and its
\* multiplier changes.
LEMMA FitsStay ==
  ASSUME IInv, NEW s \in Stores, NEW k \in Keys,
         now' \in Nat, now <= now', late'[k] \in Nat, late[k] <= late'[k],
         bucket'[s][k].tokens = bucket[s][k].tokens,
         bucket'[s][k].last = bucket[s][k].last,
         bucket'[s][k].expires = bucket[s][k].expires,
         granted'[s][k] = granted[s][k]
  PROVE  BucketFits(s, k, bucket[s][k])'
<1>1. PICK b \in Bucket : b = bucket[s][k]
  BY DEF IInv, TypeOK
<1>2. PICK C \in Nat : C = Capacity(k)
  BY Capacities
<1>3. PICK L \in Nat : L = Delay(s, k)
  BY DEF IInv, TypeOK, Delay
<1>4. PICK M \in Nat : M = Delay(s, k)' /\ L <= M
  BY <1>3 DEF IInv, TypeOK, Delay
<1>5. PICK g \in Nat : g = granted[s][k]
  BY DEF IInv, TypeOK
<1>6. now \in Nat
  BY LimiterAssumption DEF IInv, TypeOK
<1>7. /\ b.tokens # None => b.last <= now /\ Unit * g + b.tokens <= C * (1 + b.last + L)
      /\ b.tokens = None => Unit * g + C <= C * (1 + now + L)
      /\ b.expires # None => Unit * g + C <= C * (1 + (b.expires - 1) + L)
  BY <1>1, <1>2, <1>3, <1>5 DEF IInv, Within, BucketFits, Budget
<1>8. /\ b.last \in Nat
      /\ b.expires # None => b.expires \in Nat
      /\ b.tokens # None => b.tokens \in Nat
  BY DEF Bucket
<1>9. /\ C * (1 + b.last + L) <= C * (1 + b.last + M)
      /\ C * (1 + now + L) <= C * (1 + now' + M)
      /\ b.expires # None => C * (1 + (b.expires - 1) + L) <= C * (1 + (b.expires - 1) + M)
  BY <1>4, <1>6, <1>8, Monotone
<1>10. /\ b.tokens # None => b.last <= now' /\ Unit * g + b.tokens <= C * (1 + b.last + M)
       /\ b.tokens = None => Unit * g + C <= C * (1 + now' + M)
       /\ b.expires # None => Unit * g + C <= C * (1 + (b.expires - 1) + M)
  <2> DEFINE X == Unit * g
  <2>1. X \in Nat
    BY DEF Unit
  <2> HIDE DEF X
  <2>2. /\ C * (1 + b.last + L) \in Int /\ C * (1 + b.last + M) \in Int
        /\ C * (1 + now + L) \in Int /\ C * (1 + now' + M) \in Int
    BY <1>6, <1>8
  <2>3. b.tokens # None => X + b.tokens <= C * (1 + b.last + M)
    BY <1>7, <1>8, <1>9, <2>1, <2>2 DEF X
  <2>4. b.tokens = None => X + C <= C * (1 + now' + M)
    BY <1>7, <1>9, <2>1, <2>2 DEF X
  <2>5. b.expires # None => X + C <= C * (1 + (b.expires - 1) + M)
    BY <1>7, <1>8, <1>9, <2>1 DEF X
  <2> QED BY <1>6, <1>7, <1>8, <2>3, <2>4, <2>5 DEF X
<1>11. /\ bucket'[s][k].tokens = b.tokens /\ bucket'[s][k].last = b.last
       /\ bucket'[s][k].expires = b.expires /\ granted'[s][k] = g /\ Capacity(k)' = C
       /\ \A t : Budget(s, k, t)' = C * (1 + t + M)
  BY <1>1, <1>2, <1>4, <1>5 DEF Budget, Capacity
<1> QED BY <1>10, <1>11 DEF BucketFits, Budget, Capacity, Delay

\* A refill at time t, no later than now, leaves the bucket within the budget of
\* now, whichever way t moves last_refill.
LEMMA RefillFits ==
  ASSUME NEW k \in Keys, NEW b \in Bucket, NEW n \in Nat, NEW t \in 0 .. n,
         NEW g \in Nat, NEW L \in Nat,
         b.tokens # None =>
           b.last <= n /\ Unit * g + b.tokens <= Capacity(k) * (1 + b.last + L),
         b.tokens = None => Unit * g + Capacity(k) <= Capacity(k) * (1 + n + L)
  PROVE  /\ Refilled(b, k, t) \in Bucket
         /\ Refilled(b, k, t).tokens \in Nat
         /\ Refilled(b, k, t).last = t
         /\ Refilled(b, k, t).expires = b.expires
         /\ Unit * g + Refilled(b, k, t).tokens <= Capacity(k) * (1 + n + L)
<1> DEFINE r == Refilled(b, k, t)
           X == Unit * g
<1>1. PICK C \in Nat : C = Capacity(k)
  BY Capacities
<1>2. X \in Nat
  BY DEF Unit
<1>3. /\ b.last \in Nat /\ b.mult \in Floor .. Unit
      /\ b.expires \in Nat \cup {None} /\ b.tokens \in Nat \cup {None}
  BY DEF Bucket
<1>4. PICK dt \in Nat : /\ dt = Larger(0, t - b.last)
                       /\ (dt = 0 \/ b.last + dt = t)
  <2>1. Larger(0, t - b.last) \in Nat
    BY <1>3 DEF Larger
  <2>2. Larger(0, t - b.last) = 0 \/ b.last + Larger(0, t - b.last) = t
    BY <1>3 DEF Larger
  <2> QED BY <2>1, <2>2
<1>5. PICK R \in Nat : R = dt * Rate[k] * b.mult /\ R <= C * dt
  BY <1>1, <1>3, <1>4, RefillBound
<1>6. PICK v \in Nat : v = IF b.tokens = None THEN C ELSE Smaller(C, b.tokens + R)
  BY <1>3, <1>5 DEF Smaller, None
<1>7. r = [b EXCEPT !.tokens = v, !.last = t]
  <2>1. R = Larger(0, t - b.last) * Rate[k] * b.mult
    BY <1>4, <1>5, Zenon
  <2>2. v = IF b.tokens = None THEN Capacity(k)
            ELSE Smaller(Capacity(k), b.tokens + Larger(0, t - b.last) * Rate[k] * b.mult)
    BY <1>1, <1>4, <1>6, <2>1, Zenon
  <2> QED BY <2>2, Zenon DEF Refilled
<1>8. /\ r.last = t /\ r.expires = b.expires /\ r.mult = b.mult
      /\ r.tokens = v
  BY <1>7 DEF Bucket
<1>9. r \in Bucket
  <2>1. t \in Nat
    OBVIOUS
  <2> HIDE DEF r
  <2> QED BY <1>3, <1>7, <2>1 DEF Bucket
<1>10. X + r.tokens <= C * (1 + n + L)
  <2>1. CASE b.tokens = None
    <3>1. r.tokens = C
      BY <1>6, <1>8, <2>1
    <3> QED BY <1>1, <2>1, <3>1
  <2>2. CASE b.tokens # None
    <3>1. PICK w \in Nat : w = b.tokens
      BY <1>3, <2>2
    <3>2. PICK l \in Nat : l = b.last
      BY <1>3
    <3>3. X + w <= C * (1 + l + L) /\ l <= n
      BY <1>1, <2>2, <3>1, <3>2
    <3>4. r.tokens <= w + R
      BY <1>3, <1>5, <1>6, <1>8, <2>2, <3>1 DEF Smaller
    <3>5. l + dt <= n
      BY <1>4, <3>2, <3>3
    <3>6. C * (1 + l + L) + C * dt = C * (1 + l + L + dt)
      OBVIOUS
    <3>7. C * (1 + l + L + dt) <= C * (1 + n + L)
      BY <3>5, Monotone
    <3>8. /\ C * (1 + l + L) \in Int /\ C * dt \in Int
          /\ C * (1 + l + L + dt) \in Int /\ C * (1 + n + L) \in Int
      OBVIOUS
    <3> HIDE DEF r, X
    <3> QED BY <1>2, <1>5, <1>8, <3>3, <3>4, <3>6, <3>7, <3>8
  <2> QED BY <2>1, <2>2
<1> QED BY <1>1, <1>8, <1>9, <1>10

\* A request at time t leaves every bucket within its budget.
LEMMA TakeFits ==
  ASSUME IInv, NEW s \in Stores, NEW k \in Keys, NEW t \in 0 .. now,
         s # Redis => t = now, now' = now, TakeFrom(s, k, t)
  PROVE  /\ bucket' \in [Stores -> [Keys -> Bucket]]
         /\ granted' \in [Stores -> [Keys -> Nat]]
         /\ late' \in [Keys -> Nat]
         /\ \A u \in Stores, j \in Keys : BucketFits(u, j, bucket[u][j])'
<1>1. PICK b \in Bucket : b = bucket[s][k]
  BY DEF IInv, TypeOK
<1>2. PICK C \in Nat : C = Capacity(k)
  BY Capacities
<1>3. PICK L \in Nat : L = Delay(s, k)
  BY DEF IInv, TypeOK, Delay
<1>4. PICK g \in Nat : g = granted[s][k]
  BY DEF IInv, TypeOK
<1>5. PICK n \in Nat : n = now
  BY LimiterAssumption DEF IInv, TypeOK
<1>6. /\ b.tokens # None => b.last <= n /\ Unit * g + b.tokens <= C * (1 + b.last + L)
      /\ b.tokens = None => Unit * g + C <= C * (1 + n + L)
      /\ b.expires # None => Unit * g + C <= C * (1 + (b.expires - 1) + L)
  BY <1>1, <1>2, <1>3, <1>4, <1>5 DEF IInv, Within, BucketFits, Budget
<1>7. PICK r \in Bucket : /\ r = Refilled(b, k, t)
                         /\ r.tokens \in Nat /\ r.last = t /\ r.expires = b.expires
                         /\ Unit * g + r.tokens <= C * (1 + n + L)
  <2>1. t \in 0 .. n
    BY <1>5
  <2>2. /\ b.tokens # None =>
             b.last <= n /\ Unit * g + b.tokens <= Capacity(k) * (1 + b.last + L)
        /\ b.tokens = None => Unit * g + Capacity(k) <= Capacity(k) * (1 + n + L)
    BY <1>2, <1>6
  <2>3. /\ Refilled(b, k, t) \in Bucket
        /\ Refilled(b, k, t).tokens \in Nat
        /\ Refilled(b, k, t).last = t
        /\ Refilled(b, k, t).expires = b.expires
        /\ Unit * g + Refilled(b, k, t).tokens <= Capacity(k) * (1 + n + L)
    BY <2>1, <2>2, RefillFits
  <2> QED BY <1>2, <2>3
<1>8. PICK e \in Nat \cup {None} :
        /\ e = IF s = Redis THEN now + Ttl(r.mult) ELSE None
        /\ e # None => e >= n + 2
  BY <1>5, TtlBound DEF Bucket, None
<1>9. PICK c \in Bucket : c = Taken(r, e)
  <2>1. CASE Covers(r)
    <3>1. Taken(r, e) = [r EXCEPT !.tokens = r.tokens - Unit, !.expires = e]
      BY <2>1 DEF Taken
    <3>2. r.tokens - Unit \in Nat
      BY <1>7, <2>1 DEF Covers, Unit
    <3>3. [r EXCEPT !.tokens = r.tokens - Unit, !.expires = e] \in Bucket
      BY <3>2 DEF Bucket
    <3> QED BY <3>1, <3>3
  <2>2. CASE ~Covers(r)
    BY <2>2 DEF Taken
  <2> QED BY <2>1, <2>2
<1>10. PICK h \in Nat : h = IF Covers(r) THEN g + 1 ELSE g
  OBVIOUS
<1>11. /\ bucket' = [bucket EXCEPT ![s][k] = c]
       /\ granted' = [granted EXCEPT ![s][k] = h]
       /\ late' = [late EXCEPT ![k] = @ + (n - t)]
  <2>1. bucket' = [bucket EXCEPT ![s][k] = Taken(r, e)]
    BY <1>1, <1>7, <1>8 DEF TakeFrom
  <2>2. granted' = [granted EXCEPT ![s][k] = IF Covers(r) THEN @ + 1 ELSE @]
    BY <1>1, <1>7 DEF TakeFrom
  <2>3. late' = [late EXCEPT ![k] = @ + (n - t)]
    BY <1>5 DEF TakeFrom
  <2> QED BY <1>4, <1>9, <1>10, <2>1, <2>2, <2>3 DEF IInv, TypeOK
<1>12. bucket' \in [Stores -> [Keys -> Bucket]] /\ granted' \in [Stores -> [Keys -> Nat]]
  BY <1>11 DEF IInv, TypeOK
<1>13. late' \in [Keys -> Nat] /\ \A j \in Keys : late[j] <= late'[j]
  BY <1>5, <1>11 DEF IInv, TypeOK
<1>14. PICK M \in Nat : M = Delay(s, k)' /\ t + M = n + L
  <2>1. CASE s = Redis
    BY <1>3, <1>5, <1>11, <2>1 DEF Delay, IInv, TypeOK
  <2>2. CASE s # Redis
    BY <1>3, <1>5, <2>2 DEF Delay
  <2> QED BY <2>1, <2>2
<1>15. /\ c.tokens \in Nat /\ c.last = t /\ Unit * h + c.tokens <= C * (1 + t + M)
       /\ c.expires # None => Unit * h + C <= C * (1 + (c.expires - 1) + M)
  <2>1. 1 + t + M = 1 + n + L
    BY <1>5, <1>14
  <2>2. Unit * (g + 1) = Unit * g + Unit
    BY DEF Unit
  <2>3. Unit * g \in Nat /\ Unit \in Nat
    BY DEF Unit
  <2>4. CASE Covers(r)
    <3>1. c.tokens = r.tokens - Unit /\ c.last = t /\ c.expires = e /\ h = g + 1
      BY <1>7, <1>9, <1>10, <2>4 DEF Taken, Bucket
    <3>2. c.tokens \in Nat
      BY <1>7, <2>3, <2>4, <3>1 DEF Covers
    <3>3. Unit * h + c.tokens = Unit * g + r.tokens
      BY <1>7, <2>2, <2>3, <3>1
    <3>4. Unit * h + c.tokens <= C * (1 + t + M)
      BY <1>7, <2>1, <3>3
    <3>5. ASSUME e # None PROVE Unit * h + C <= C * (1 + (e - 1) + M)
      <4>1. e \in Nat /\ t + 2 <= e
        BY <1>5, <1>8, <3>5
      <4>2. C * (1 + (t + 1) + M) <= C * (1 + (e - 1) + M)
        BY <4>1, Monotone
      <4>3. C * (1 + (t + 1) + M) = C * (1 + t + M) + C
        BY <1>5
      <4>4. Unit * h \in Nat /\ C * (1 + t + M) \in Int /\ C * (1 + (e - 1) + M) \in Int
        BY <4>1 DEF Unit
      <4> DEFINE Y == Unit * h
                 Z == C * (1 + t + M)
                 W == C * (1 + (e - 1) + M)
      <4>5. Y \in Nat /\ Z \in Int /\ W \in Int /\ Y + c.tokens <= Z /\ Z + C <= W
        BY <3>4, <4>2, <4>3, <4>4
      <4> HIDE DEF Y, Z, W
      <4>6. Y + C <= W
        BY <3>2, <4>5
      <4> QED BY <4>6 DEF Y, W
    <3> QED BY <3>1, <3>2, <3>4, <3>5
  <2>5. CASE ~Covers(r)
    <3>1. c = r /\ h = g
      BY <1>9, <1>10, <2>5 DEF Taken
    <3>2. Unit * h + c.tokens <= C * (1 + t + M)
      BY <1>7, <2>1, <3>1
    <3>3. ASSUME b.expires # None PROVE Unit * h + C <= C * (1 + (b.expires - 1) + M)
      <4>1. b.expires \in Nat
        BY <3>3 DEF Bucket
      <4>2. L <= M
        BY <1>5, <1>14
      <4>3. C * (1 + (b.expires - 1) + L) <= C * (1 + (b.expires - 1) + M)
        BY <4>1, <4>2, Monotone
      <4>4. /\ Unit * g + C \in Int /\ C * (1 + (b.expires - 1) + L) \in Int
            /\ C * (1 + (b.expires - 1) + M) \in Int
        BY <2>3, <4>1
      <4>5. Unit * g + C <= C * (1 + (b.expires - 1) + L)
        BY <1>6, <3>3
      <4> QED BY <3>1, <4>3, <4>4, <4>5
    <3> QED BY <1>7, <3>1, <3>2, <3>3
  <2> QED BY <2>4, <2>5
<1>16. BucketFits(s, k, bucket[s][k])'
  <2>1. /\ bucket'[s][k] = c /\ granted'[s][k] = h /\ Capacity(k)' = C
        /\ \A v : Budget(s, k, v)' = C * (1 + v + M)
    BY <1>2, <1>11, <1>14 DEF Budget, Capacity, IInv, TypeOK
  <2>2. c.tokens # None /\ t <= now
    BY <1>5, <1>15 DEF None
  <2> QED BY <1>15, <2>1, <2>2 DEF BucketFits, Budget, Capacity, Delay
<1>17. ASSUME NEW u \in Stores, NEW j \in Keys, u # s \/ j # k
       PROVE  BucketFits(u, j, bucket[u][j])'
  <2>1. bucket'[u][j] = bucket[u][j] /\ granted'[u][j] = granted[u][j]
    BY <1>11, <1>17 DEF IInv, TypeOK
  <2> QED BY <1>5, <1>13, <2>1, FitsStay
<1> QED BY <1>12, <1>13, <1>16, <1>17
-----------------------------------------------------------------------------
(* The steps *)

\* A step that moves no bucket, no grant and no clock, and leaves every call
\* well typed, keeps the invariant.
LEMMA CallMoves ==
  ASSUME IInv,
         call' \in [Callers -> Call],
         \A c \in Callers : call'[c].i \in DOMAIN BucketsOf[c],
         \A c \in Callers : call'[c].stamp <= now,
         \A c \in Callers : call'[c].pc = "next" => call'[c].i < Len(BucketsOf[c]),
         backend' \in [Processes -> {"unknown", "redis", "local"}],
         calls' \in [Callers -> 0 .. MaxCalls],
         UNCHANGED <<now, bucket, granted, served, late>>
  PROVE  IInv'
<1>1. TypeOK'
  BY DEF IInv, TypeOK
<1>2. \A s \in Stores, k \in Keys : BucketFits(s, k, bucket[s][k])'
  BY DEF IInv, Within, BucketFits, Budget, Delay, Capacity
<1> QED BY <1>1, <1>2 DEF IInv, Within

\* One call moves to another step.
LEMMA OneCallMoves ==
  ASSUME IInv, NEW c \in Callers,
         NEW v \in Call,
         v.i \in DOMAIN BucketsOf[c], v.stamp <= now,
         v.pc = "next" => v.i < Len(BucketsOf[c]),
         call' = [call EXCEPT ![c] = v],
         now' = now
  PROVE  /\ call' \in [Callers -> Call]
         /\ \A e \in Callers : call'[e].i \in DOMAIN BucketsOf[e]
         /\ \A e \in Callers : call'[e].stamp <= now
         /\ \A e \in Callers : call'[e].pc = "next" => call'[e].i < Len(BucketsOf[e])
<1>1. call \in [Callers -> Call]
  BY DEF IInv, TypeOK
<1>3. \A e \in Callers : call'[e] = IF e = c THEN v ELSE call[e]
  BY <1>1
<1>4. call' \in [Callers -> Call]
  BY <1>1
<1>5. ASSUME NEW e \in Callers
      PROVE  /\ call'[e].i \in DOMAIN BucketsOf[e]
             /\ call'[e].stamp <= now
             /\ call'[e].pc = "next" => call'[e].i < Len(BucketsOf[e])
  <2>1. CASE e = c
    <3>1. call'[e] = v
      BY <1>3, <2>1
    <3>2. v.i \in DOMAIN BucketsOf[e]
      BY <2>1
    <3>3. v.pc = "next" => v.i < Len(BucketsOf[e])
      BY <2>1
    <3> QED BY <3>1, <3>2, <3>3
  <2>2. CASE e # c
    <3>1. call'[e] = call[e]
      BY <1>3, <2>2
    <3>2. call[e].i \in DOMAIN BucketsOf[e] /\ call[e].stamp <= now
      BY DEF IInv, TypeOK, Within
    <3>3. call[e].pc = "next" => call[e].i < Len(BucketsOf[e])
      BY DEF IInv, Within
    <3> QED BY <3>1, <3>2, <3>3
  <2> QED BY <2>1, <2>2
<1> QED BY <1>4, <1>5

\* Every call has a first bucket to ask.
LEMMA FirstBucket == \A c \in Callers : 1 \in DOMAIN BucketsOf[c]
<1> SUFFICES ASSUME NEW c \in Callers PROVE 1 \in DOMAIN BucketsOf[c]
  OBVIOUS
<1>1. BucketsOf[c] \in Seq(Keys) /\ BucketsOf[c] # <<>>
  BY LimiterAssumption
<1>2. 1 \in 1 .. Len(BucketsOf[c])
  BY <1>1
<1> QED BY <1>1, <1>2

\* A call that has not begun is one.
LEMMA RestingType ==
  /\ Resting \in Call
  /\ Resting.i = 1 /\ Resting.stamp = 0 /\ Resting.pc = "idle"
<1>1. Unit \in Floor .. Unit /\ "idle" \in Steps
  BY DEF Floor, Unit, Steps
<1> QED BY <1>1 DEF Resting, Call

\* Time passes; a bucket that is dropped had the time to fill up.
LEMMA TickStep == ASSUME IInv, Tick PROVE IInv'
<1>1. now \in 0 .. MaxTime /\ now' \in 0 .. MaxTime /\ now' = now + 1
  BY LimiterAssumption DEF IInv, TypeOK, Tick
<1>2. bucket' = [bucket EXCEPT ![Redis] =
                  [k \in Keys |-> IF bucket[Redis][k].expires # None
                                      /\ bucket[Redis][k].expires <= now + 1
                                    THEN NoBucket ELSE bucket[Redis][k]]]
  BY DEF Tick
<1>3. UNCHANGED <<backend, call, calls, granted, served, late>>
  BY DEF Tick
<1>4. NoBucket \in Bucket
  BY DEF NoBucket, Bucket, Floor, Unit
<1>5. bucket' \in [Stores -> [Keys -> Bucket]]
  BY <1>2, <1>4 DEF IInv, TypeOK, Stores
<1>6. TypeOK'
  BY <1>1, <1>3, <1>5 DEF IInv, TypeOK
<1>7. ASSUME NEW s \in Stores, NEW k \in Keys
      PROVE  BucketFits(s, k, bucket[s][k])'
  <2>1. CASE bucket'[s][k] = bucket[s][k]
    <3>1. /\ now' \in Nat /\ now <= now'
          /\ late'[k] \in Nat /\ late[k] <= late'[k] /\ granted'[s][k] = granted[s][k]
      BY <1>1, <1>3 DEF IInv, TypeOK
    <3> QED BY <2>1, <3>1, FitsStay
  <2>2. CASE bucket'[s][k] # bucket[s][k]
    <3>1. s = Redis /\ bucket'[s][k] = NoBucket
      BY <1>2, <2>2 DEF IInv, TypeOK, Stores
    <3>2. bucket[s][k].expires # None /\ bucket[s][k].expires <= now + 1
      BY <1>2, <2>2, <3>1 DEF IInv, TypeOK, Stores
    <3>3. PICK e \in Nat : e = bucket[s][k].expires
      BY <3>2 DEF IInv, TypeOK, Bucket
    <3>4. PICK C \in Nat : C = Capacity(k)
      BY Capacities
    <3>5. PICK L \in Nat : L = Delay(s, k)
      BY DEF IInv, TypeOK, Delay
    <3>6. PICK X \in Nat : X = Unit * granted[s][k]
      BY DEF IInv, TypeOK, Unit
    <3>7. X + C <= C * (1 + (e - 1) + L)
      BY <3>2, <3>3, <3>4, <3>5, <3>6 DEF IInv, Within, BucketFits, Budget
    <3>8. C * (1 + (e - 1) + L) <= C * (1 + now' + L)
      BY <1>1, <3>2, <3>3, Monotone
    <3>9. X + C <= C * (1 + now' + L)
      BY <1>1, <3>7, <3>8
    <3> QED BY <1>3, <3>1, <3>4, <3>5, <3>6, <3>9
            DEF BucketFits, Budget, Capacity, Delay, NoBucket
  <2> QED BY <2>1, <2>2
<1>8. \A c \in Callers : call'[c].stamp <= now'
  <2>1. \A c \in Callers : call[c].stamp \in Nat /\ call[c].stamp <= now
    BY DEF IInv, TypeOK, Within, Call
  <2> QED BY <1>1, <1>3, <2>1
<1> QED BY <1>3, <1>6, <1>7, <1>8 DEF IInv, Within

-----------------------------------------------------------------------------
\* The initial state satisfies the invariant.
LEMMA InitHolds == Init => IInv
<1> SUFFICES ASSUME Init PROVE IInv
  OBVIOUS
<1>1. NoBucket \in Bucket
  BY DEF NoBucket, Bucket, Floor, Unit
<1>2. Resting \in Call /\ \A c \in Callers : 1 \in DOMAIN BucketsOf[c]
  BY RestingType, FirstBucket
<1>3. Resting.i = 1 /\ Resting.stamp = 0 /\ Resting.pc = "idle"
  BY RestingType
<1>4. TypeOK
  BY <1>1, <1>2, <1>3, LimiterAssumption DEF Init, TypeOK
<1>5. ASSUME NEW s \in Stores, NEW k \in Keys PROVE BucketFits(s, k, bucket[s][k])
  <2>1. PICK C \in Nat : C = Capacity(k)
    BY Capacities
  <2>2. Delay(s, k) = 0 /\ granted[s][k] = 0 /\ now = 0 /\ bucket[s][k] = NoBucket
    BY DEF Init, Delay
  <2> QED BY <2>1, <2>2 DEF BucketFits, Budget, NoBucket, Unit
<1>6. \A c \in Callers : call[c].stamp <= now /\ call[c].pc # "next"
  BY <1>3 DEF Init
<1> QED BY <1>4, <1>5, <1>6 DEF IInv, Within

\* The calls that take no token and report no 429.
LEMMA CallSteps ==
  ASSUME IInv, NEW c \in Callers,
         \/ Begin(c) \/ Load(c) \/ SendFirst(c) \/ SendNext(c) \/ GiveUp(c)
         \/ Wake(c) \/ Answered(c) \/ ReadMultiplier(c)
  PROVE  IInv'
<1>1. call \in [Callers -> Call] /\ call[c] \in Call /\ call[c].i \in DOMAIN BucketsOf[c]
  BY DEF IInv, TypeOK
<1>2. now \in Nat
  BY LimiterAssumption DEF IInv, TypeOK
<1>3. call[c].stamp <= now /\ call[c].i \in Nat \ {0}
  BY <1>1 DEF IInv, Within, Call
<1>4. 1 \in DOMAIN BucketsOf[c] /\ Resting \in Call
  BY RestingType, FirstBucket
<1>5. Resting.i = 1 /\ Resting.stamp = 0 /\ Resting.pc = "idle"
  BY RestingType
<1>6. ASSUME NEW v \in Call, v.i \in DOMAIN BucketsOf[c], v.stamp <= now,
             v.pc = "next" => v.i < Len(BucketsOf[c]),
             call' = [call EXCEPT ![c] = v],
             backend' = backend, calls' = calls,
             UNCHANGED <<now, bucket, granted, served, late>>
      PROVE  IInv'
  BY <1>6, OneCallMoves, CallMoves DEF IInv, TypeOK
<1>7. CASE Begin(c)
  <2>6. PICK p \in {"load", "top"} : p = IF Backend(c) = "unknown" THEN "load" ELSE "top"
    OBVIOUS
  <2>1. PICK v \in Call : /\ v = [call[c] EXCEPT !.pc = p, !.start = now]
                         /\ v.i = call[c].i /\ v.stamp = call[c].stamp /\ v.pc = p
    <3>1. [call[c] EXCEPT !.pc = p, !.start = now] \in Call
      BY <1>1, <1>2 DEF Call, Steps
    <3> QED BY <1>1, <3>1 DEF Call
  <2>2. call' = [call EXCEPT ![c] = v]
    BY <1>1, <1>7, <2>1, <2>6 DEF Begin
  <2>3. backend' \in [Processes -> {"unknown", "redis", "local"}]
    BY <1>7 DEF Begin, IInv, TypeOK
  <2>4. calls' \in [Callers -> 0 .. MaxCalls]
    <3>1. calls[c] \in 0 .. MaxCalls /\ calls[c] < MaxCalls
      BY <1>7 DEF Begin, IInv, TypeOK
    <3>2. calls[c] + 1 \in 0 .. MaxCalls
      BY <3>1, LimiterAssumption
    <3> QED BY <1>7, <3>2 DEF Begin, IInv, TypeOK
  <2>5. UNCHANGED <<now, bucket, granted, served, late>>
    BY <1>7 DEF Begin
  <2>7. v.pc # "next"
    BY <2>1
  <2> QED BY <1>1, <1>3, <2>1, <2>2, <2>3, <2>4, <2>5, <2>7, OneCallMoves, CallMoves
<1>15. CASE Load(c)
  <2>1. PICK v \in Call : /\ v = [call[c] EXCEPT !.pc = "top", !.start = now]
                         /\ v.i = call[c].i /\ v.stamp = call[c].stamp /\ v.pc = "top"
    <3>1. [call[c] EXCEPT !.pc = "top", !.start = now] \in Call
      BY <1>1, <1>2 DEF Call, Steps
    <3> QED BY <1>1, <3>1 DEF Call
  <2>2. call' = [call EXCEPT ![c] = v]
    BY <1>1, <1>15, <2>1 DEF Load
  <2>3. backend' \in [Processes -> {"unknown", "redis", "local"}]
    BY <1>15 DEF Load, SwitchToLocal, IInv, TypeOK
  <2>4. calls' \in [Callers -> 0 .. MaxCalls]
    BY <1>15 DEF Load, IInv, TypeOK
  <2>5. UNCHANGED <<now, bucket, granted, served, late>>
    BY <1>15 DEF Load
  <2> QED BY <1>1, <1>3, <2>1, <2>2, <2>3, <2>4, <2>5, OneCallMoves, CallMoves
<1>8. ASSUME NEW i \in DOMAIN BucketsOf[c], Send(c, i)
      PROVE  IInv'
  <2>1. i \in Nat \ {0}
    BY LimiterAssumption
  <2>2. PICK p \in {"eval", "local"} : p = IF Backend(c) = "redis" THEN "eval" ELSE "local"
    OBVIOUS
  <2>3. PICK v \in Call : /\ v = [call[c] EXCEPT !.pc = p, !.i = i, !.stamp = now]
                         /\ v.i = i /\ v.stamp = now /\ v.pc = p
    <3>1. [call[c] EXCEPT !.pc = p, !.i = i, !.stamp = now] \in Call
      BY <1>1, <1>2, <2>1 DEF Call, Steps
    <3> QED BY <1>1, <3>1 DEF Call
  <2>4. call' = [call EXCEPT ![c] = v]
    BY <1>1, <1>8, <2>2, <2>3 DEF Send
  <2>5. UNCHANGED <<now, bucket, backend, calls, granted, served, late>>
    BY <1>8 DEF Send
  <2>6. v.i \in DOMAIN BucketsOf[c] /\ v.stamp <= now /\ v.pc # "next"
    <3>1. p # "next" /\ now <= now
      BY <1>2
    <3> QED BY <2>3, <3>1, Zenon
  <2> QED BY <1>6, <2>4, <2>5, <2>6
<1>9. CASE SendFirst(c)
  BY <1>4, <1>8, <1>9 DEF SendFirst
<1>10. CASE SendNext(c)
  <2>1. call[c].i < Len(BucketsOf[c])
    BY <1>10 DEF SendNext, AtStep, IInv, Within
  <2>2. call[c].i + 1 \in DOMAIN BucketsOf[c]
    BY <1>3, <2>1, LimiterAssumption
  <2> QED BY <1>8, <1>10, <2>2 DEF SendNext
<1>11. ASSUME Return(c), UNCHANGED <<now, bucket, backend, calls, granted, served, late>>
       PROVE  IInv'
  <2>1. Resting.i \in DOMAIN BucketsOf[c] /\ Resting.stamp <= now /\ Resting.pc # "next"
    BY <1>2, <1>4, <1>5
  <2>2. call' = [call EXCEPT ![c] = Resting]
    BY <1>11 DEF Return
  <2> QED BY <1>4, <1>6, <1>11, <2>1, <2>2
<1>12. CASE GiveUp(c) \/ Answered(c)
  BY <1>11, <1>12 DEF GiveUp, Answered
<1>13. CASE Wake(c)
  <2>1. PICK v \in Call : /\ v = [call[c] EXCEPT !.pc = "top"]
                         /\ v.i = call[c].i /\ v.stamp = call[c].stamp /\ v.pc = "top"
    <3>1. [call[c] EXCEPT !.pc = "top"] \in Call
      BY <1>1 DEF Call, Steps
    <3> QED BY <1>1, <3>1 DEF Call
  <2>2. call' = [call EXCEPT ![c] = v]
    BY <1>1, <1>13, <2>1 DEF Wake, Goto
  <2>3. UNCHANGED <<now, bucket, backend, calls, granted, served, late>>
    BY <1>13 DEF Wake
  <2> QED BY <1>1, <1>3, <1>6, <2>1, <2>2, <2>3
<1>14. CASE ReadMultiplier(c)
  <2>1. bucket[Redis][DomainOf[c]].mult \in Floor .. Unit
    BY LimiterAssumption DEF IInv, TypeOK, Bucket, Stores
  <2>2. PICK v \in Call : /\ v = [call[c] EXCEPT !.pc = "halve",
                                   !.seen = bucket[Redis][DomainOf[c]].mult]
                         /\ v.i = call[c].i /\ v.stamp = call[c].stamp /\ v.pc = "halve"
    <3>1. [call[c] EXCEPT !.pc = "halve",
                          !.seen = bucket[Redis][DomainOf[c]].mult] \in Call
      BY <1>1, <2>1 DEF Call, Steps
    <3> QED BY <1>1, <3>1 DEF Call
  <2>3. call' = [call EXCEPT ![c] = v]
    BY <1>1, <1>14, <2>2 DEF ReadMultiplier
  <2>4. UNCHANGED <<now, bucket, backend, calls, granted, served, late>>
    BY <1>14 DEF ReadMultiplier
  <2> QED BY <1>1, <1>3, <1>6, <2>2, <2>3, <2>4
<1> QED BY <1>7, <1>9, <1>10, <1>12, <1>13, <1>14, <1>15

\* Where a call stands after a bucket has answered it.
LEMMA ProceedType ==
  ASSUME IInv, NEW c \in Callers, NEW ok \in BOOLEAN, now' = now, Proceed(c, ok)
  PROVE  /\ call' \in [Callers -> Call]
         /\ \A e \in Callers : call'[e].i \in DOMAIN BucketsOf[e]
         /\ \A e \in Callers : call'[e].stamp <= now
         /\ \A e \in Callers : call'[e].pc = "next" => call'[e].i < Len(BucketsOf[e])
         /\ served' \in [Keys -> Nat]
<1>1. call \in [Callers -> Call] /\ call[c] \in Call /\ call[c].i \in DOMAIN BucketsOf[c]
  BY DEF IInv, TypeOK
<1>2. now \in Nat /\ served \in [Keys -> Nat]
  BY LimiterAssumption DEF IInv, TypeOK
<1>3. 1 \in DOMAIN BucketsOf[c]
  BY FirstBucket
<1>4. PICK r \in Call : r = Resting /\ r.i = 1 /\ r.stamp = 0
  BY RestingType
<1>5. CASE ~ok
  <2>1. PICK m \in Nat : m = call[c].start
    BY <1>1 DEF Call
  <2>2. PICK v \in Call : /\ v = [r EXCEPT !.pc = "sleep", !.start = m]
                         /\ v.i = 1 /\ v.stamp = 0 /\ v.pc = "sleep"
    <3>1. [r EXCEPT !.pc = "sleep", !.start = m] \in Call
      BY DEF Call, Steps
    <3> QED BY <1>4, <3>1 DEF Call
  <2>3. call' = [call EXCEPT ![c] = v] /\ served' = served
    BY <1>4, <1>5, <2>1, <2>2 DEF Proceed
  <2>4. v.i \in DOMAIN BucketsOf[c] /\ v.stamp <= now /\ v.pc # "next"
    BY <1>2, <1>3, <2>2
  <2> QED BY <1>2, <2>3, <2>4, OneCallMoves
<1>6. CASE ok /\ call[c].i = Len(BucketsOf[c])
  <2>1. Grant(c)
    BY <1>6 DEF Proceed
  <2>2. PICK v \in Call : /\ v = [r EXCEPT !.pc = "granted"]
                         /\ v.i = 1 /\ v.stamp = 0 /\ v.pc = "granted"
    <3>1. [r EXCEPT !.pc = "granted"] \in Call
      BY DEF Call, Steps
    <3> QED BY <1>4, <3>1 DEF Call
  <2>3. call' = [call EXCEPT ![c] = v]
    BY <1>4, <2>1, <2>2 DEF Grant
  <2>4. served' \in [Keys -> Nat]
    BY <1>2, <2>1 DEF Grant
  <2>5. v.i \in DOMAIN BucketsOf[c] /\ v.stamp <= now /\ v.pc # "next"
    BY <1>2, <1>3, <2>2
  <2> QED BY <2>3, <2>4, <2>5, OneCallMoves
<1>7. CASE ok /\ call[c].i # Len(BucketsOf[c])
  <2>1. PICK v \in Call : /\ v = [call[c] EXCEPT !.pc = "next"]
                         /\ v.i = call[c].i /\ v.stamp = call[c].stamp /\ v.pc = "next"
    <3>1. [call[c] EXCEPT !.pc = "next"] \in Call
      BY <1>1 DEF Call, Steps
    <3> QED BY <1>1, <3>1 DEF Call
  <2>2. call' = [call EXCEPT ![c] = v] /\ served' = served
    BY <1>1, <1>7, <2>1 DEF Proceed, Goto
  <2>3. call[c].i < Len(BucketsOf[c])
    BY <1>1, <1>7, LimiterAssumption
  <2>4. v.i \in DOMAIN BucketsOf[c] /\ v.stamp <= now /\ v.i < Len(BucketsOf[c])
    <3>1. call[c].stamp <= now
      BY DEF IInv, Within
    <3> QED BY <1>1, <2>1, <2>3, <3>1
  <2> QED BY <1>2, <2>2, <2>4, OneCallMoves
<1> QED BY <1>5, <1>6, <1>7

\* A call goes to the fallback.
LEMMA GotoLocalType ==
  ASSUME IInv, NEW c \in Callers, now' = now, Goto(c, "local")
  PROVE  /\ call' \in [Callers -> Call]
         /\ \A e \in Callers : call'[e].i \in DOMAIN BucketsOf[e]
         /\ \A e \in Callers : call'[e].stamp <= now
         /\ \A e \in Callers : call'[e].pc = "next" => call'[e].i < Len(BucketsOf[e])
<1>1. call \in [Callers -> Call] /\ call[c] \in Call /\ call[c].i \in DOMAIN BucketsOf[c]
  BY DEF IInv, TypeOK
<1>2. PICK v \in Call : /\ v = [call[c] EXCEPT !.pc = "local"]
                       /\ v.i = call[c].i /\ v.stamp = call[c].stamp /\ v.pc = "local"
  <2>1. [call[c] EXCEPT !.pc = "local"] \in Call
    BY <1>1 DEF Call, Steps
  <2> QED BY <1>1, <2>1 DEF Call
<1>3. call' = [call EXCEPT ![c] = v]
  BY <1>1, <1>2 DEF Goto
<1>4. call[c].stamp <= now
  BY DEF IInv, Within
<1> QED BY <1>1, <1>2, <1>3, <1>4, OneCallMoves

\* A token is taken, and the call goes on.
LEMMA TakeSteps ==
  ASSUME IInv, NEW c \in Callers, Evaluate(c) \/ TakeLocal(c)
  PROVE  IInv'
<1>1. now \in 0 .. MaxTime /\ now \in Nat /\ now' = now /\ calls' = calls
  BY LimiterAssumption DEF IInv, TypeOK, Evaluate, TakeLocal
<1>2. call[c].stamp \in 0 .. now /\ Key(c) \in Keys
  <2>1. call[c] \in Call /\ call[c].i \in DOMAIN BucketsOf[c] /\ call[c].stamp <= now
    BY DEF IInv, TypeOK, Within
  <2>2. BucketsOf[c][call[c].i] \in Keys
    BY <2>1, LimiterAssumption
  <2> QED BY <1>1, <2>1, <2>2 DEF Call, Key
<1>3. backend' \in [Processes -> {"unknown", "redis", "local"}]
  BY LimiterAssumption DEF IInv, TypeOK, Evaluate, TakeLocal, SwitchToLocal
<1>4. ASSUME NEW s \in Stores, NEW t \in 0 .. now, s # Redis => t = now,
             TakeFrom(s, Key(c), t),
             \/ Proceed(c, Grants(s, Key(c), t))
             \/ Goto(c, "local") /\ served' = served
      PROVE  IInv'
  <2>1. /\ bucket' \in [Stores -> [Keys -> Bucket]]
        /\ granted' \in [Stores -> [Keys -> Nat]]
        /\ late' \in [Keys -> Nat]
        /\ \A u \in Stores, j \in Keys : BucketFits(u, j, bucket[u][j])'
    BY <1>1, <1>2, <1>4, TakeFits
  <2>2. Grants(s, Key(c), t) \in BOOLEAN
    BY DEF Grants, Covers
  <2>3. /\ call' \in [Callers -> Call]
        /\ \A e \in Callers : call'[e].i \in DOMAIN BucketsOf[e]
        /\ \A e \in Callers : call'[e].stamp <= now
        /\ \A e \in Callers : call'[e].pc = "next" => call'[e].i < Len(BucketsOf[e])
        /\ served' \in [Keys -> Nat]
    <3>1. CASE Proceed(c, Grants(s, Key(c), t))
      BY <1>1, <2>2, <3>1, ProceedType
    <3>2. CASE Goto(c, "local") /\ served' = served
      BY <1>1, <3>2, GotoLocalType DEF IInv, TypeOK
    <3> QED BY <1>4, <3>1, <3>2
  <2>4. TypeOK'
    BY <1>1, <1>3, <2>1, <2>3 DEF IInv, TypeOK
  <2> QED BY <1>1, <2>1, <2>3, <2>4 DEF IInv, Within
<1>5. CASE Evaluate(c) /\ TakeFrom(Redis, Key(c), call[c].stamp)
  <2>1. \/ Proceed(c, Grants(Redis, Key(c), call[c].stamp))
        \/ Goto(c, "local") /\ served' = served
    BY <1>5 DEF Evaluate
  <2> QED BY <1>2, <1>4, <1>5, <2>1 DEF Stores
<1>6. CASE Evaluate(c) /\ UNCHANGED <<bucket, granted, served, late>> /\ Goto(c, "local")
  BY <1>1, <1>3, <1>6, GotoLocalType, CallMoves DEF IInv, TypeOK
<1>7. CASE TakeLocal(c)
  <2>1. ProcessOf[c] \in Stores /\ now \in 0 .. now
    BY <1>1, LimiterAssumption DEF Stores
  <2> QED BY <1>4, <1>7, <2>1 DEF TakeLocal
<1> QED BY <1>5, <1>6, <1>7 DEF Evaluate

\* Halving the multiplier of a bucket in Redis.
LEMMA WrittenType ==
  ASSUME IInv, NEW c \in Callers
  PROVE  /\ Written(c) \in [Stores -> [Keys -> Bucket]]
         /\ \A s \in Stores, k \in Keys : BucketFits(s, k, Written(c)[s][k])
         /\ \A s \in Stores, k \in Keys :
              \/ Written(c)[s][k] = bucket[s][k]
              \/ /\ s = Redis /\ k = DomainOf[c]
                 /\ Written(c)[s][k].mult = Halved(call[c].seen)
                 /\ Written(c)[s][k].tokens = bucket[s][k].tokens
<1>1. /\ bucket \in [Stores -> [Keys -> Bucket]] /\ DomainOf[c] \in Keys
      /\ Redis \in Stores /\ call[c] \in Call
  BY LimiterAssumption DEF IInv, TypeOK, Stores
<1>2. PICK k \in Keys : k = DomainOf[c]
  BY <1>1
<1>3. PICK m \in Floor .. Unit : m = Halved(call[c].seen)
  BY <1>1, HalvedType DEF Call
<1>4. bucket[Redis][k] \in Bucket /\ BucketFits(Redis, k, bucket[Redis][k])
  BY <1>1 DEF IInv, Within
<1>5. PICK b \in Bucket : /\ b = [bucket[Redis][k] EXCEPT !.mult = m] /\ b.mult = m
                          /\ b.tokens = bucket[Redis][k].tokens
                          /\ b.last = bucket[Redis][k].last
                          /\ b.expires = bucket[Redis][k].expires
  <2>1. [bucket[Redis][k] EXCEPT !.mult = m] \in Bucket
    BY <1>4 DEF Bucket
  <2> QED BY <1>4, <2>1 DEF Bucket
<1>6. Written(c) = [bucket EXCEPT ![Redis][k] = b]
  BY <1>1, <1>2, <1>3, <1>5 DEF Written
<1>7. BucketFits(Redis, k, b)
  BY <1>4, <1>5 DEF BucketFits
<1>8. Written(c) \in [Stores -> [Keys -> Bucket]]
  BY <1>1, <1>6
<1>9. ASSUME NEW s \in Stores, NEW j \in Keys
      PROVE  /\ BucketFits(s, j, Written(c)[s][j])
             /\ \/ Written(c)[s][j] = bucket[s][j]
                \/ /\ s = Redis /\ j = DomainOf[c]
                   /\ Written(c)[s][j].mult = Halved(call[c].seen)
                   /\ Written(c)[s][j].tokens = bucket[s][j].tokens
  <2>1. CASE s = Redis /\ j = k
    <3>1. Written(c)[s][j] = b
      BY <1>1, <1>6, <2>1
    <3> QED BY <1>2, <1>3, <1>5, <1>7, <2>1, <3>1
  <2>2. CASE ~(s = Redis /\ j = k)
    <3>1. Written(c)[s][j] = bucket[s][j]
      BY <1>1, <1>6, <2>2
    <3> QED BY <3>1 DEF IInv, Within
  <2> QED BY <2>1, <2>2
<1> QED BY <1>8, <1>9

\* Halving the multiplier of a bucket of a process, which may not exist yet.
LEMMA HalvedBucketType ==
  ASSUME IInv, NEW s \in Stores, NEW k \in Keys, NEW b \in Bucket, BucketFits(s, k, b)
  PROVE  HalvedBucket(b) \in Bucket /\ BucketFits(s, k, HalvedBucket(b))
<1>1. now \in Nat
  BY LimiterAssumption DEF IInv, TypeOK
<1>2. CASE b.tokens = None
  <2>1. Halved(Unit) \in Floor .. Unit
    BY HalvedType DEF Floor, Unit
  <2>2. PICK w \in Bucket : /\ w = [tokens |-> 0, last |-> now, mult |-> Halved(Unit),
                                    expires |-> None]
                           /\ w.tokens = 0 /\ w.last = now /\ w.expires = None
    <3>1. [tokens |-> 0, last |-> now, mult |-> Halved(Unit), expires |-> None] \in Bucket
      BY <1>1, <2>1 DEF Bucket
    <3> QED BY <3>1
  <2>3. PICK X \in Nat : X = Unit * granted[s][k]
    BY DEF IInv, TypeOK, Unit
  <2>4. PICK C \in Nat : C = Capacity(k)
    BY Capacities
  <2>5. PICK L \in Nat : L = Delay(s, k)
    BY DEF IInv, TypeOK, Delay
  <2>6. X + C <= C * (1 + now + L)
    BY <1>2, <2>3, <2>4, <2>5 DEF BucketFits, Budget
  <2>7. X + 0 <= C * (1 + now + L)
    BY <1>1, <2>6
  <2>8. Unit * granted[s][k] + w.tokens <= Budget(s, k, w.last)
    BY <2>2, <2>3, <2>4, <2>5, <2>7 DEF Budget
  <2>9. w.last <= now /\ w.tokens # None
    BY <1>1, <2>2 DEF None
  <2>10. BucketFits(s, k, w)
    BY <2>2, <2>8, <2>9 DEF BucketFits
  <2> QED BY <1>2, <2>2, <2>10 DEF HalvedBucket
<1>3. CASE b.tokens # None
  <2>1. PICK m \in Floor .. Unit : m = Halved(b.mult)
    BY HalvedType DEF Bucket
  <2>2. PICK w \in Bucket : /\ w = [b EXCEPT !.mult = m]
                           /\ w.tokens = b.tokens /\ w.last = b.last
                           /\ w.expires = b.expires
    <3>1. [b EXCEPT !.mult = m] \in Bucket
      BY DEF Bucket
    <3> QED BY <3>1 DEF Bucket
  <2>3. BucketFits(s, k, w)
    BY <2>2 DEF BucketFits
  <2> QED BY <1>3, <2>1, <2>2, <2>3 DEF HalvedBucket
<1> QED BY <1>2, <1>3

\* What a report leaves in a process's own bucket, of what was there.
HalvesOwn(c, buckets) ==
  bucket' = [buckets EXCEPT ![ProcessOf[c]][DomainOf[c]] =
               HalvedBucket(buckets[ProcessOf[c]][DomainOf[c]])]

\* A 429 is reported: multipliers change, or a bucket is made without tokens.
LEMMA ReportSteps ==
  ASSUME IInv, NEW c \in Callers,
         WriteMultiplier(c) \/ WriteUnheard(c) \/ ReportLocal(c)
  PROVE  IInv'
<1>1. now \in Nat /\ now' = now /\ UNCHANGED <<calls, granted, served, late>>
  BY LimiterAssumption
  DEF IInv, TypeOK, WriteMultiplier, WriteUnheard, ReportLocal
<1>2. call[c] \in Call /\ DomainOf[c] \in Keys /\ ProcessOf[c] \in Processes
  BY LimiterAssumption DEF IInv, TypeOK
<1>3. backend' \in [Processes -> {"unknown", "redis", "local"}]
  BY <1>2 DEF IInv, TypeOK, WriteMultiplier, WriteUnheard, ReportLocal, SwitchToLocal
<1>4. /\ call' \in [Callers -> Call]
      /\ \A e \in Callers : call'[e].i \in DOMAIN BucketsOf[e]
      /\ \A e \in Callers : call'[e].stamp <= now
      /\ \A e \in Callers : call'[e].pc = "next" => call'[e].i < Len(BucketsOf[e])
  <2>1. call' = [call EXCEPT ![c] = Resting]
    BY DEF WriteMultiplier, WriteUnheard, ReportLocal, Return
  <2>2. /\ Resting \in Call /\ Resting.i \in DOMAIN BucketsOf[c]
        /\ Resting.stamp <= now /\ Resting.pc # "next"
    BY <1>1, RestingType, FirstBucket
  <2> QED BY <1>1, <2>1, <2>2, OneCallMoves
<1>5. ASSUME bucket' \in [Stores -> [Keys -> Bucket]],
             \A s \in Stores, k \in Keys : BucketFits(s, k, bucket'[s][k])
      PROVE  IInv'
  <2>1. TypeOK'
    BY <1>1, <1>3, <1>4, <1>5 DEF IInv, TypeOK
  <2>2. \A s \in Stores, k \in Keys : BucketFits(s, k, bucket[s][k])'
    BY <1>1, <1>5 DEF BucketFits, Budget, Delay, Capacity
  <2> QED BY <1>1, <1>4, <2>1, <2>2 DEF IInv, Within
<1>6. ASSUME NEW buckets \in [Stores -> [Keys -> Bucket]], HalvesOwn(c, buckets),
             \A s \in Stores, k \in Keys : BucketFits(s, k, buckets[s][k])
      PROVE  IInv'
  <2>1. PICK p \in Stores : p = ProcessOf[c]
    BY <1>2 DEF Stores
  <2>2. PICK d \in Keys : d = DomainOf[c]
    BY <1>2
  <2>3. PICK w \in Bucket : w = HalvedBucket(buckets[p][d]) /\ BucketFits(p, d, w)
    BY <1>6, HalvedBucketType
  <2>4. bucket' = [buckets EXCEPT ![p][d] = w]
    BY <1>6, <2>1, <2>2, <2>3 DEF HalvesOwn
  <2>5. bucket' \in [Stores -> [Keys -> Bucket]]
    BY <2>4
  <2>6. ASSUME NEW s \in Stores, NEW k \in Keys PROVE BucketFits(s, k, bucket'[s][k])
    <3>1. bucket'[s][k] = IF s = p /\ k = d THEN w ELSE buckets[s][k]
      BY <2>4
    <3> QED BY <1>6, <2>3, <3>1
  <2> QED BY <1>5, <2>5, <2>6
<1>7. CASE WriteMultiplier(c)
  <2>1. bucket' = Written(c)
    BY <1>7 DEF WriteMultiplier
  <2> QED BY <1>5, <2>1, WrittenType
<1>8. CASE WriteUnheard(c)
  <2>1. HalvesOwn(c, Written(c))
    BY <1>8 DEF WriteUnheard, HalveLocal, HalvesOwn
  <2> QED BY <1>6, <2>1, WrittenType
<1>9. CASE ReportLocal(c)
  <2>1. HalvesOwn(c, bucket)
    BY <1>9 DEF ReportLocal, HalveLocal, HalvesOwn
  <2>2. /\ bucket \in [Stores -> [Keys -> Bucket]]
        /\ \A s \in Stores, k \in Keys : BucketFits(s, k, bucket[s][k])
    BY DEF IInv, TypeOK, Within
  <2> QED BY <1>6, <2>1, <2>2
<1> QED BY <1>7, <1>8, <1>9

-----------------------------------------------------------------------------
(* The theorems *)

\* The invariant is inductive.
LEMMA StepHolds == IInv /\ [Next]_limiterVars => IInv'
<1> SUFFICES ASSUME IInv, [Next]_limiterVars PROVE IInv'
  OBVIOUS
<1>1. CASE Tick
  BY <1>1, TickStep
<1>2. ASSUME NEW c \in Callers, Begin(c) PROVE IInv'
  BY <1>2, CallSteps
<1>3. ASSUME NEW c \in Callers, CallStep(c) PROVE IInv'
  BY <1>3, CallSteps, TakeSteps, ReportSteps DEF CallStep
<1>4. CASE UNCHANGED limiterVars
  BY <1>4 DEF limiterVars, IInv, TypeOK, Within, BucketFits, Budget, Delay, Capacity
<1> QED BY <1>1, <1>2, <1>3, <1>4 DEF Next

\* It implies the bound on grants.
LEMMA IInvImplies == IInv => GrantsBounded
<1> SUFFICES ASSUME IInv, NEW s \in Stores, NEW k \in Keys
             PROVE  granted[s][k] <= Rate[k] * (1 + now + Delay(s, k))
  BY DEF GrantsBounded, Delay
<1>1. PICK g \in Nat : g = granted[s][k]
  BY DEF IInv, TypeOK
<1>2. PICK r \in Nat : r = Rate[k] /\ Capacity(k) = Unit * r
  BY Capacities DEF Capacity
<1>3. PICK L \in Nat : L = Delay(s, k)
  BY DEF IInv, TypeOK, Delay
<1>4. PICK b \in Bucket : b = bucket[s][k]
  BY DEF IInv, TypeOK
<1>5. now \in Nat
  BY LimiterAssumption DEF IInv, TypeOK
<1>6. Unit * g <= (Unit * r) * (1 + now + L)
  <2>1. PICK C \in Nat : C = Unit * r
    BY DEF Unit
  <2>2. PICK X \in Nat : X = Unit * g
    BY DEF Unit
  <2>3. /\ b.tokens # None => b.last <= now /\ X + b.tokens <= C * (1 + b.last + L)
        /\ b.tokens = None => X + C <= C * (1 + now + L)
    BY <1>1, <1>2, <1>3, <1>4, <2>1, <2>2 DEF IInv, Within, BucketFits, Budget
  <2>4. CASE b.tokens = None
    BY <1>5, <2>1, <2>2, <2>3, <2>4
  <2>5. CASE b.tokens # None
    <3>1. b.tokens \in Nat /\ b.last \in Nat /\ b.last <= now
      BY <2>3, <2>5 DEF Bucket
    <3>2. C * (1 + b.last + L) <= C * (1 + now + L)
      BY <1>5, <3>1, Monotone
    <3> QED BY <1>5, <2>1, <2>2, <2>3, <2>5, <3>1, <3>2
  <2> QED BY <2>4, <2>5
<1>7. PICK y \in Nat : y = r * (1 + now + L)
  BY <1>5
<1>8. (Unit * r) * (1 + now + L) = Unit * y
  BY <1>5, <1>7 DEF Unit
<1> QED BY <1>1, <1>2, <1>3, <1>6, <1>7, <1>8 DEF Unit

\* Every bucket, call and counter of the limiter keeps its type: a multiplier
\* stays between a tenth and one, a call never asks for a bucket it has not got.
THEOREM LimiterTypeCorrect == Spec => []TypeOK
<1>1. IInv => TypeOK
  BY DEF IInv
<1> QED BY InitHolds, StepHolds, <1>1, PTL DEF Spec

\* No bucket grants more than its capacity and its rate allow, counting the
\* seconds its scripts were under way, whatever fails, expires or is reported.
THEOREM GrantsStayBounded == Spec => []GrantsBounded
BY InitHolds, StepHolds, IInvImplies, PTL DEF Spec

-----------------------------------------------------------------------------
(* A call is served by its buckets: what has been handed out of a key       *)
(* covers the calls it has served and, besides, the calls whose round has   *)
(* got past a bucket of that key.                                           *)

\* The round c is in has taken a token of k.
Holds(c, k) ==
  \E i \in DOMAIN BucketsOf[c] :
    BucketsOf[c][i] = k /\ (i < call[c].i \/ (i = call[c].i /\ call[c].pc = "next"))

\* The calls that hold a token of the bucket and are not served yet.
Holders(k) == {c \in Callers : Holds(c, k)}

\* Tokens granted cover the served calls and these.
HInv == \A k \in Keys : served[k] + Cardinality(Holders(k)) <= Cardinality(Tokens(k))

\* Numbered tokens, f[s] of each s.
Numbered(S, f) == UNION {{s} \X (1 .. f[s]) : s \in S}

\* What a numbered set has.
LEMMA NumberedElements ==
  ASSUME NEW S, NEW f, NEW x
  PROVE  x \in Numbered(S, f) <=> \E s \in S : \E n \in 1 .. f[s] : x = <<s, n>>
BY DEF Numbered

\* Numbering finitely many by numbers gives finitely many.
LEMMA NumberedFinite ==
  ASSUME NEW S, IsFiniteSet(S), NEW f \in [S -> Nat]
  PROVE  IsFiniteSet(Numbered(S, f)) /\ Cardinality(Numbered(S, f)) \in Nat
<1> DEFINE part == [s \in S |-> {s} \X (1 .. f[s])]
           parts == {part[s] : s \in S}
<1>1. IsFiniteSet(parts)
  <2>1. part \in Surjection(S, parts)
    BY DEF Surjection
  <2> QED BY <2>1, FS_Surjection
<1>2. ASSUME NEW s \in S PROVE IsFiniteSet(part[s])
  <2>1. f[s] \in Nat
    OBVIOUS
  <2>2. IsFiniteSet(1 .. f[s])
    BY <2>1, FS_Interval
  <2> QED BY <2>2, FS_Singleton, FS_Product
<1>3. IsFiniteSet(UNION parts)
  <2>1. \A T \in parts : IsFiniteSet(T)
    BY <1>2
  <2> HIDE DEF parts
  <2> QED BY <1>1, <2>1, FS_UNION
<1>4. UNION parts = Numbered(S, f)
  BY DEF Numbered
<1> QED BY <1>3, <1>4, FS_CardinalityType

\* One more of one s is one more.
LEMMA NumberedOneMore ==
  ASSUME NEW S, IsFiniteSet(S), NEW f \in [S -> Nat], NEW s \in S
  PROVE  Cardinality(Numbered(S, [f EXCEPT ![s] = @ + 1])) = Cardinality(Numbered(S, f)) + 1
<1> DEFINE g == [f EXCEPT ![s] = @ + 1]
           new == <<s, f[s] + 1>>
<1>1. /\ g[s] = f[s] + 1 /\ f[s] \in Nat
      /\ \A u \in S \ {s} : g[u] = f[u]
  OBVIOUS
<1>2. \A n : n \in 1 .. (f[s] + 1) <=> n \in 1 .. f[s] \/ n = f[s] + 1
  BY <1>1
<1>3. f[s] + 1 \notin 1 .. f[s]
  BY <1>1
<1> HIDE DEF g
<1>4. ASSUME NEW x
      PROVE  x \in Numbered(S, g) <=> x \in Numbered(S, f) \/ x = new
  <2>1. x \in Numbered(S, g) <=> \E u \in S : \E n \in 1 .. g[u] : x = <<u, n>>
    BY NumberedElements
  <2>2. x \in Numbered(S, f) <=> \E u \in S : \E n \in 1 .. f[u] : x = <<u, n>>
    BY NumberedElements
  <2> QED BY <1>1, <1>2, <2>1, <2>2
<1>5. new \notin Numbered(S, f)
  <2>1. new \in Numbered(S, f) <=> \E u \in S : \E n \in 1 .. f[u] : new = <<u, n>>
    BY NumberedElements
  <2> QED BY <1>3, <2>1
<1>6. Numbered(S, g) = Numbered(S, f) \cup {new}
  BY <1>4
<1>7. IsFiniteSet(Numbered(S, f)) /\ Cardinality(Numbered(S, f)) \in Nat
  BY NumberedFinite
<1>8. Cardinality(Numbered(S, f) \cup {new}) = Cardinality(Numbered(S, f)) + 1
  BY <1>5, <1>7, FS_AddElement
<1> QED BY <1>6, <1>8 DEF g

\* The tokens a bucket has granted, by store.
GrantsOf(k) == [s \in Stores |-> granted[s][k]]

\* The tokens granted are the numbered grants.
LEMMA TokensNumbered ==
  ASSUME NEW k
  PROVE  /\ Tokens(k) = Numbered(Stores, GrantsOf(k))
         /\ Tokens(k)' = Numbered(Stores, GrantsOf(k)')
BY DEF Tokens, Numbered, GrantsOf

\* They are finitely many.
LEMMA TokensFinite ==
  ASSUME IInv, NEW k \in Keys
  PROVE  /\ IsFiniteSet(Stores) /\ GrantsOf(k) \in [Stores -> Nat]
         /\ Cardinality(Tokens(k)) \in Nat
<1>1. IsFiniteSet(Stores)
  BY FiniteAssumption, FS_Singleton, FS_Union DEF Stores
<1>2. GrantsOf(k) \in [Stores -> Nat]
  BY DEF GrantsOf, IInv, TypeOK
<1> QED BY <1>1, <1>2, TokensNumbered, NumberedFinite

\* So are the calls that hold one.
LEMMA HoldersFinite ==
  ASSUME NEW k
  PROVE  IsFiniteSet(Holders(k)) /\ Cardinality(Holders(k)) \in Nat
<1>1. Holders(k) \subseteq Callers
  BY DEF Holders
<1> QED BY <1>1, FiniteAssumption, FS_Subset, FS_CardinalityType

\* What one request does to the tokens handed out.
LEMMA TokensTaken ==
  ASSUME IInv, NEW s \in Stores, NEW k \in Keys, NEW t, TakeFrom(s, k, t)
  PROVE  /\ \A j \in Keys \ {k} : Tokens(j)' = Tokens(j)
         /\ Cardinality(Tokens(k)') =
              Cardinality(Tokens(k)) + (IF Grants(s, k, t) THEN 1 ELSE 0)
<1>1. granted' = [granted EXCEPT ![s][k] = IF Grants(s, k, t) THEN @ + 1 ELSE @]
  BY DEF TakeFrom, Grants
<1>2. granted \in [Stores -> [Keys -> Nat]]
  BY DEF IInv, TypeOK
<1>3. ASSUME NEW j \in Keys \ {k} PROVE Tokens(j)' = Tokens(j)
  <2>1. \A u \in Stores : granted'[u][j] = granted[u][j]
    BY <1>1, <1>2, <1>3
  <2> QED BY <2>1 DEF Tokens
<1>4. CASE Grants(s, k, t)
  <2>1. PICK f \in [Stores -> Nat] : f = GrantsOf(k)
    BY TokensFinite
  <2>2. GrantsOf(k)' = [f EXCEPT ![s] = @ + 1]
    BY <1>1, <1>2, <1>4, <2>1 DEF GrantsOf
  <2>3. Cardinality(Numbered(Stores, [f EXCEPT ![s] = @ + 1])) = Cardinality(Numbered(Stores, f)) + 1
    BY TokensFinite, NumberedOneMore
  <2>4. Cardinality(Tokens(k)') = Cardinality(Tokens(k)) + 1
    BY <2>1, <2>2, <2>3, TokensNumbered
  <2> QED BY <1>3, <1>4, <2>4
<1>5. CASE ~Grants(s, k, t)
  <2>1. \A u \in Stores : granted'[u][k] = granted[u][k]
    BY <1>1, <1>2, <1>5
  <2>2. Tokens(k)' = Tokens(k)
    BY <2>1 DEF Tokens
  <2> QED BY <1>3, <1>5, <2>2, TokensFinite
<1> QED BY <1>4, <1>5

\* A step that grants nothing and serves nobody, after which no call holds more.
LEMMA HoldersShrink ==
  ASSUME IInv, HInv, UNCHANGED <<granted, served>>,
         \A c \in Callers, k \in Keys : Holds(c, k)' => Holds(c, k)
  PROVE  HInv'
<1> SUFFICES ASSUME NEW k \in Keys
             PROVE  served'[k] + Cardinality(Holders(k)') <= Cardinality(Tokens(k)')
  BY DEF HInv
<1>1. Tokens(k)' = Tokens(k)
  BY DEF Tokens
<1>2. Holders(k)' \subseteq Holders(k)
  BY DEF Holders
<1>3. /\ Cardinality(Holders(k)') <= Cardinality(Holders(k))
      /\ Cardinality(Holders(k)') \in Nat /\ Cardinality(Holders(k)) \in Nat
  BY <1>2, HoldersFinite, FS_Subset, FS_CardinalityType
<1>4. served[k] + Cardinality(Holders(k)) <= Cardinality(Tokens(k))
  BY DEF HInv
<1>5. served[k] \in Nat /\ Cardinality(Tokens(k)) \in Nat
  BY TokensFinite DEF IInv, TypeOK
<1> QED BY <1>1, <1>3, <1>4, <1>5

\* A call that is not in a round holds nothing.
LEMMA RestHoldsNothing ==
  ASSUME NEW c \in Callers, call[c].i = 1, call[c].pc # "next", NEW k
  PROVE  ~Holds(c, k)
BY LimiterAssumption, LenProperties DEF Holds

\* The calls the step is not about hold what they held.
LEMMA OthersHold ==
  ASSUME IInv, NEW c \in Callers, NEW v, call' = [call EXCEPT ![c] = v]
  PROVE  /\ call'[c] = v
         /\ \A e \in Callers \ {c} : call'[e] = call[e]
         /\ \A e \in Callers \ {c}, k \in Keys : Holds(e, k)' <=> Holds(e, k)
BY DEF IInv, TypeOK, Holds

\* The steps that ask no bucket.
LEMMA OtherStepsHold ==
  ASSUME IInv, HInv, NEW c \in Callers,
         \/ Begin(c) \/ Load(c) \/ SendFirst(c) \/ SendNext(c) \/ GiveUp(c) \/ Wake(c)
         \/ Answered(c) \/ ReadMultiplier(c) \/ WriteMultiplier(c) \/ WriteUnheard(c)
         \/ ReportLocal(c)
  PROVE  HInv'
<1>1. call[c] \in Call /\ call[c].i \in Nat \ {0} /\ BucketsOf[c] \in Seq(Keys)
  BY LimiterAssumption DEF IInv, TypeOK, Call
<1>2. UNCHANGED <<granted, served>>
  BY DEF Begin, Load, SendFirst, SendNext, Send, GiveUp, Wake, Answered, ReadMultiplier,
         WriteMultiplier, WriteUnheard, ReportLocal
<1>3. PICK v : call' = [call EXCEPT ![c] = v]
  <2>1. call[c] \in Call /\ call \in [Callers -> Call]
    BY <1>1 DEF IInv, TypeOK
  <2>2. CASE Begin(c)
    <3>1. call' = [call EXCEPT ![c] =
              [call[c] EXCEPT !.pc = IF Backend(c) = "unknown" THEN "load" ELSE "top",
                              !.start = now]]
      BY <2>1, <2>2 DEF Begin
    <3> QED BY <3>1
  <2>7. CASE Load(c)
    <3>1. call' = [call EXCEPT ![c] = [call[c] EXCEPT !.pc = "top", !.start = now]]
      BY <2>1, <2>7 DEF Load
    <3> QED BY <3>1
  <2>3. ASSUME NEW i, Send(c, i)
        PROVE  \E v : call' = [call EXCEPT ![c] = v]
    <3>1. call' = [call EXCEPT ![c] =
              [call[c] EXCEPT !.pc = IF Backend(c) = "redis" THEN "eval" ELSE "local",
                              !.i = i, !.stamp = now]]
      BY <2>1, <2>3 DEF Send
    <3> QED BY <3>1
  <2>4. CASE Wake(c)
    <3>1. call' = [call EXCEPT ![c] = [call[c] EXCEPT !.pc = "top"]]
      BY <2>1, <2>4 DEF Wake, Goto
    <3> QED BY <3>1
  <2>5. CASE ReadMultiplier(c)
    <3>1. call' = [call EXCEPT ![c] = [call[c] EXCEPT !.pc = "halve",
                      !.seen = bucket[Redis][DomainOf[c]].mult]]
      BY <2>1, <2>5 DEF ReadMultiplier
    <3> QED BY <3>1
  <2>6. CASE Return(c)
    BY <2>6 DEF Return
  <2> QED BY <2>2, <2>3, <2>4, <2>5, <2>6, <2>7
          DEF SendFirst, SendNext, GiveUp, Answered, WriteMultiplier, WriteUnheard,
              ReportLocal
<1>4. \/ call'[c].i = 1 /\ call'[c].pc # "next"
      \/ call'[c].i = call[c].i /\ call'[c].pc # "next"
      \/ call[c].pc = "next" /\ call'[c].i = call[c].i + 1 /\ call'[c].pc # "next"
  <2>0. call \in [Callers -> Call]
    BY DEF IInv, TypeOK
  <2>1. CASE Begin(c)
    BY <1>1, <2>0, <2>1 DEF Begin, Call
  <2>7. CASE Load(c)
    BY <1>1, <2>0, <2>7 DEF Load, Call
  <2>2. CASE SendFirst(c)
    BY <1>1, <2>0, <2>2 DEF SendFirst, Send, Call
  <2>3. CASE SendNext(c)
    BY <1>1, <2>0, <2>3 DEF SendNext, Send, Call, AtStep
  <2>4. CASE Wake(c)
    BY <1>1, <2>0, <2>4 DEF Wake, Goto, Call
  <2>5. CASE ReadMultiplier(c)
    BY <1>1, <2>0, <2>5 DEF ReadMultiplier, Call
  <2>6. CASE Return(c)
    BY <2>0, <2>6 DEF Return, Resting
  <2> QED BY <2>1, <2>2, <2>3, <2>4, <2>5, <2>6, <2>7
          DEF GiveUp, Answered, WriteMultiplier, WriteUnheard, ReportLocal
<1>5. ASSUME NEW k \in Keys, Holds(c, k)' PROVE Holds(c, k)
  <2>1. PICK i \in DOMAIN BucketsOf[c] :
          /\ BucketsOf[c][i] = k
          /\ i < call'[c].i \/ (i = call'[c].i /\ call'[c].pc = "next")
    BY <1>5 DEF Holds
  <2>2. i \in Nat \ {0}
    BY <1>1, LenProperties
  <2>3. i < call[c].i \/ (i = call[c].i /\ call[c].pc = "next")
    BY <1>1, <1>4, <2>1, <2>2
  <2> QED BY <2>1, <2>3 DEF Holds
<1>6. \A e \in Callers, k \in Keys : Holds(e, k)' => Holds(e, k)
  BY <1>3, <1>5, OthersHold
<1> QED BY <1>2, <1>6, HoldersShrink

\* When one call only may change, their number changes by one at most.
LEMMA HoldersCount ==
  ASSUME NEW k \in Keys, NEW c \in Callers,
         \A e \in Callers \ {c} : Holds(e, k)' <=> Holds(e, k)
  PROVE  /\ Cardinality(Holders(k)') \in Nat /\ Cardinality(Holders(k)) \in Nat
         /\ Cardinality(Holders(k)') <= Cardinality(Holders(k)) + 1
         /\ (Holds(c, k)' => Holds(c, k)) => Cardinality(Holders(k)') <= Cardinality(Holders(k))
         /\ ~Holds(c, k)' /\ Holds(c, k)
              => Cardinality(Holders(k)') <= Cardinality(Holders(k)) - 1
<1>1. /\ IsFiniteSet(Holders(k)) /\ Cardinality(Holders(k)) \in Nat
      /\ Holders(k)' \subseteq Holders(k) \cup {c}
      /\ (Holds(c, k)' => Holds(c, k)) => Holders(k)' \subseteq Holders(k)
      /\ ~Holds(c, k)' /\ Holds(c, k) => Holders(k)' \subseteq Holders(k) \ {c} /\ c \in Holders(k)
  BY HoldersFinite DEF Holders
<1>2. /\ IsFiniteSet(Holders(k) \cup {c})
      /\ Cardinality(Holders(k) \cup {c}) <= Cardinality(Holders(k)) + 1
      /\ Cardinality(Holders(k) \cup {c}) \in Nat
  <2>1. /\ IsFiniteSet(Holders(k) \cup {c})
        /\ Cardinality(Holders(k) \cup {c}) =
             IF c \in Holders(k) THEN Cardinality(Holders(k)) ELSE Cardinality(Holders(k)) + 1
    BY <1>1, FS_AddElement
  <2> QED BY <1>1, <2>1
<1>3. IsFiniteSet(Holders(k)') /\ Cardinality(Holders(k)') \in Nat
  BY <1>1, <1>2, FS_Subset, FS_CardinalityType
<1>4. Cardinality(Holders(k)') <= Cardinality(Holders(k)) + 1
  BY <1>1, <1>2, <1>3, FS_Subset
<1>5. ASSUME Holds(c, k)' => Holds(c, k)
      PROVE  Cardinality(Holders(k)') <= Cardinality(Holders(k))
  BY <1>1, <1>5, FS_Subset
<1>6. ASSUME ~Holds(c, k)', Holds(c, k)
      PROVE  Cardinality(Holders(k)') <= Cardinality(Holders(k)) - 1
  <2>1. /\ IsFiniteSet(Holders(k) \ {c})
        /\ Cardinality(Holders(k) \ {c}) = Cardinality(Holders(k)) - 1
    BY <1>1, <1>6, FS_RemoveElement
  <2> QED BY <1>1, <1>6, <2>1, FS_Subset
<1> QED BY <1>1, <1>3, <1>4, <1>5, <1>6

\* The steps that ask a bucket.
LEMMA TakeStepsHold ==
  ASSUME IInv, HInv, NEW c \in Callers, Evaluate(c) \/ TakeLocal(c)
  PROVE  HInv'
<1>1. /\ call[c] \in Call /\ call[c].i \in Nat \ {0} /\ BucketsOf[c] \in Seq(Keys)
      /\ call[c].i \in DOMAIN BucketsOf[c] /\ call \in [Callers -> Call]
      /\ call[c].pc # "next" /\ Key(c) \in Keys /\ Key(c) = BucketsOf[c][call[c].i]
      /\ DOMAIN BucketsOf[c] = 1 .. Len(BucketsOf[c]) /\ Len(BucketsOf[c]) \in Nat
  <2>1. BucketsOf[c] \in Seq(Keys) /\ DOMAIN BucketsOf[c] = 1 .. Len(BucketsOf[c])
    BY LimiterAssumption, LenProperties
  <2>2. BucketsOf[c][call[c].i] \in Keys
    BY <2>1 DEF IInv, TypeOK
  <2> QED BY <2>1, <2>2 DEF IInv, TypeOK, Call, Key, Evaluate, TakeLocal, AtStep
<1>2. served \in [Keys -> Nat]
  BY DEF IInv, TypeOK
<1>3. ASSUME Goto(c, "local")
      PROVE  \A e \in Callers, k \in Keys : Holds(e, k)' => Holds(e, k)
  <2>1. call' = [call EXCEPT ![c] = [call[c] EXCEPT !.pc = "local"]]
    BY <1>1, <1>3 DEF Goto
  <2>2. call'[c].i = call[c].i /\ call'[c].pc = "local"
    BY <1>1, <2>1 DEF Call
  <2>3. \A k \in Keys : Holds(c, k)' => Holds(c, k)
    BY <2>2 DEF Holds
  <2> QED BY <2>1, <2>3, OthersHold
<1>4. ASSUME NEW s \in Stores, NEW t, TakeFrom(s, Key(c), t),
             \/ Proceed(c, Grants(s, Key(c), t))
             \/ Goto(c, "local") /\ served' = served,
             NEW k \in Keys
      PROVE  served'[k] + Cardinality(Holders(k)') <= Cardinality(Tokens(k)')
  <2>1. /\ k # Key(c) => Cardinality(Tokens(k)') = Cardinality(Tokens(k))
        /\ k = Key(c) => Cardinality(Tokens(k)') =
             Cardinality(Tokens(k)) + (IF Grants(s, Key(c), t) THEN 1 ELSE 0)
        /\ Cardinality(Tokens(k)) \in Nat
    BY <1>1, <1>4, TokensTaken, TokensFinite
  <2>2. served[k] + Cardinality(Holders(k)) <= Cardinality(Tokens(k)) /\ served[k] \in Nat
    BY <1>2 DEF HInv
  <2>3. CASE Goto(c, "local") /\ served' = served
    <3>1. \A e \in Callers : Holds(e, k)' => Holds(e, k)
      BY <1>3, <2>3
    <3>2. /\ Cardinality(Holders(k)') <= Cardinality(Holders(k))
          /\ Cardinality(Holders(k)') \in Nat /\ Cardinality(Holders(k)) \in Nat
      <4>1. Holders(k)' \subseteq Holders(k)
        BY <3>1 DEF Holders
      <4> QED BY <4>1, HoldersFinite, FS_Subset, FS_CardinalityType
    <3> QED BY <2>1, <2>2, <2>3, <3>2
  <2>4. CASE Proceed(c, Grants(s, Key(c), t)) /\ ~Grants(s, Key(c), t)
    <3>1. served' = served /\ call' = [call EXCEPT ![c] =
             [Resting EXCEPT !.pc = "sleep", !.start = call[c].start]]
      BY <2>4 DEF Proceed
    <3>2. call'[c].i = 1 /\ call'[c].pc = "sleep"
      BY <1>1, <3>1 DEF Resting
    <3>3. Holds(c, k)' => Holds(c, k)
      BY <1>1, <3>2 DEF Holds
    <3>4. \A e \in Callers \ {c} : Holds(e, k)' <=> Holds(e, k)
      BY <3>1, OthersHold
    <3> QED BY <2>1, <2>2, <3>1, <3>3, <3>4, HoldersCount
  <2>5. CASE /\ Proceed(c, Grants(s, Key(c), t)) /\ Grants(s, Key(c), t)
             /\ call[c].i # Len(BucketsOf[c])
    <3>1. served' = served /\ call' = [call EXCEPT ![c] = [call[c] EXCEPT !.pc = "next"]]
      BY <1>1, <2>5 DEF Proceed, Goto
    <3>2. call'[c].i = call[c].i /\ call'[c].pc = "next"
      BY <1>1, <3>1 DEF Call
    <3>3. Holds(c, k)' => Holds(c, k) \/ k = Key(c)
      BY <1>1, <3>2 DEF Holds
    <3>4. \A e \in Callers \ {c} : Holds(e, k)' <=> Holds(e, k)
      BY <3>1, OthersHold
    <3> QED BY <2>1, <2>2, <2>5, <3>1, <3>3, <3>4, HoldersCount
  <2>6. CASE /\ Proceed(c, Grants(s, Key(c), t)) /\ Grants(s, Key(c), t)
             /\ call[c].i = Len(BucketsOf[c])
    <3>1. /\ call' = [call EXCEPT ![c] = [Resting EXCEPT !.pc = "granted"]]
          /\ served'[k] = IF k \in ToSet(BucketsOf[c]) THEN served[k] + 1 ELSE served[k]
      BY <1>2, <2>6 DEF Proceed, Grant
    <3>2. call'[c].i = 1 /\ call'[c].pc = "granted"
      BY <1>1, <3>1 DEF Resting
    <3>3. ~Holds(c, k)'
      BY <1>1, <3>2 DEF Holds
    <3>4. k \in ToSet(BucketsOf[c]) => Holds(c, k) \/ k = Key(c)
      <4>1. \A i \in DOMAIN BucketsOf[c] : i < call[c].i \/ i = call[c].i
        BY <1>1, <2>6
      <4> QED BY <1>1, <4>1 DEF ToSet, Holds
    <3>5. \A e \in Callers \ {c} : Holds(e, k)' <=> Holds(e, k)
      BY <3>1, OthersHold
    <3> QED BY <2>1, <2>2, <2>6, <3>1, <3>3, <3>4, <3>5, HoldersCount
  <2> QED BY <1>4, <2>3, <2>4, <2>5, <2>6
<1>5. CASE Evaluate(c) /\ TakeFrom(Redis, Key(c), call[c].stamp)
  <2>1. \/ Proceed(c, Grants(Redis, Key(c), call[c].stamp))
        \/ Goto(c, "local") /\ served' = served
    BY <1>5 DEF Evaluate
  <2> QED BY <1>4, <1>5, <2>1 DEF HInv, Stores
<1>6. CASE Evaluate(c) /\ UNCHANGED <<bucket, granted, served, late>> /\ Goto(c, "local")
  BY <1>3, <1>6, HoldersShrink
<1>7. CASE TakeLocal(c)
  <2>1. ProcessOf[c] \in Stores
    BY LimiterAssumption DEF Stores
  <2> QED BY <1>4, <1>7, <2>1 DEF TakeLocal, HInv
<1> QED BY <1>5, <1>6, <1>7 DEF Evaluate

\* A call returns True only after every bucket it needs has given it a token,
\* whatever is refused, lost or expires on the way: a retried round, a change
\* of backend in the middle of one and a reply that is lost count no token twice.
THEOREM ServedByItsBuckets == Spec => []ServedFromEveryBucket
<1>1. Init => HInv
  <2> SUFFICES ASSUME Init, NEW k \in Keys
               PROVE  served[k] + Cardinality(Holders(k)) <= Cardinality(Tokens(k))
    BY DEF HInv
  <2>1. \A c \in Callers : ~Holds(c, k)
    BY RestHoldsNothing DEF Init, Resting
  <2>2. Holders(k) = {} /\ served[k] = 0
    BY <2>1 DEF Holders, Init
  <2>3. Cardinality(Tokens(k)) \in Nat
    BY InitHolds, TokensFinite
  <2> QED BY <2>2, <2>3, FS_EmptySet
<1>2. IInv /\ HInv /\ [Next]_limiterVars => HInv'
  <2> SUFFICES ASSUME IInv, HInv, [Next]_limiterVars PROVE HInv'
    OBVIOUS
  <2>1. ASSUME UNCHANGED <<granted, served, call>> PROVE HInv'
    BY <2>1, HoldersShrink DEF Holds
  <2>2. ASSUME NEW c \in Callers, Begin(c) \/ CallStep(c) PROVE HInv'
    BY <2>2, OtherStepsHold, TakeStepsHold DEF CallStep
  <2> QED BY <2>1, <2>2 DEF Next, Tick, limiterVars
<1>3. IInv /\ HInv => ServedFromEveryBucket
  <2> SUFFICES ASSUME IInv, HInv, NEW k \in Keys PROVE served[k] <= Cardinality(Tokens(k))
    BY DEF ServedFromEveryBucket
  <2>1. /\ served[k] \in Nat /\ Cardinality(Holders(k)) \in Nat
        /\ Cardinality(Tokens(k)) \in Nat
    BY TokensFinite, HoldersFinite DEF IInv, TypeOK
  <2> QED BY <2>1 DEF HInv
<1> QED BY <1>1, <1>2, <1>3, InitHolds, StepHolds, PTL DEF Spec

-----------------------------------------------------------------------------
(* A domain that has answered 429 keeps a reduced rate until its key        *)
(* expires: a command or a script leaves a multiplier alone, or halves one. *)

\* Halving gives half of the full rate at most.
LEMMA HalvedIsReduced == \A m \in Floor .. Unit : Halved(m) <= Halved(Unit)
  BY DEF Halved, Larger, Floor, Unit

\* The multiplier of a bucket after a report is half of one.
LEMMA HalvedBucketReduced ==
  ASSUME NEW b \in Bucket
  PROVE  \E m \in Floor .. Unit : HalvedBucket(b).mult = Halved(m)
<1>1. CASE b.tokens = None
  BY <1>1 DEF HalvedBucket, Floor, Unit
<1>2. CASE b.tokens # None
  <2>1. HalvedBucket(b) = [b EXCEPT !.mult = Halved(b.mult)]
    BY <1>2 DEF HalvedBucket
  <2>2. HalvedBucket(b).mult = Halved(b.mult) /\ b.mult \in Floor .. Unit
    BY <2>1 DEF Bucket
  <2> QED BY <2>2
<1> QED BY <1>1, <1>2

\* The bucket a step leaves: one with the multiplier it had; none, when the key
\* expired; or one whose multiplier is half of one that was read.
LEMMA BucketAfter ==
  ASSUME IInv, [Next]_limiterVars, NEW s \in Stores, NEW k \in Keys
  PROVE  \/ bucket'[s][k].mult = bucket[s][k].mult
         \/ bucket'[s][k] = NoBucket
         \/ \E m \in Floor .. Unit : bucket'[s][k].mult = Halved(m)
<1>0. bucket \in [Stores -> [Keys -> Bucket]] /\ bucket[s][k] \in Bucket
  BY DEF IInv, TypeOK
<1>1. CASE bucket' = bucket
  BY <1>1
<1>2. CASE Tick
  <2>1. bucket'[s][k] = bucket[s][k] \/ bucket'[s][k] = NoBucket
    BY <1>0, <1>2 DEF Tick, Stores
  <2> QED BY <2>1
<1>3. ASSUME NEW u \in Stores, NEW j, NEW t \in Nat, TakeFrom(u, j, t), j \in Keys
      PROVE  bucket'[s][k].mult = bucket[s][k].mult
  <2>1. PICK w : /\ bucket' = [bucket EXCEPT ![u][j] = w]
                 /\ \E x : w = Taken(Refilled(bucket[u][j], j, t), x)
    BY <1>3 DEF TakeFrom
  <2>2. PICK x : w = Taken(Refilled(bucket[u][j], j, t), x)
    BY <2>1
  <2>3. PICK b \in Bucket : b = bucket[u][j]
    BY <1>0, <1>3
  <2>4. PICK r : /\ r = Refilled(b, j, t) /\ r.mult = b.mult /\ r.tokens \in Nat
    <3>1. Larger(0, t - b.last) \in Nat /\ b.mult \in Nat
      BY DEF Bucket, Larger, Floor, Unit
    <3>2. PICK y \in Nat : y = Rate[j]
      BY <1>3, Capacities
    <3>3. Larger(0, t - b.last) * Rate[j] * b.mult \in Nat
      <4>1. Larger(0, t - b.last) * y \in Nat
        BY <3>1, <3>2
      <4>2. (Larger(0, t - b.last) * y) * b.mult \in Nat
        BY <3>1, <4>1
      <4> QED BY <3>2, <4>2
    <3>4. PICK z \in Nat : z = IF b.tokens = None THEN Capacity(j)
              ELSE Smaller(Capacity(j),
                           b.tokens + Larger(0, t - b.last) * Rate[j] * b.mult)
      <4>1. PICK a \in Nat : a = Larger(0, t - b.last) * Rate[j] * b.mult
        BY <3>3
      <4>2. PICK C \in Nat : C = Capacity(j)
        BY <1>3, Capacities
      <4>3. (IF b.tokens = None THEN C ELSE Smaller(C, b.tokens + a)) \in Nat
        BY DEF Bucket, Smaller, None
      <4> QED BY <4>1, <4>2, <4>3, Zenon
    <3>5. Refilled(b, j, t) = [b EXCEPT !.tokens = z, !.last = t]
      BY <3>4, Zenon DEF Refilled
    <3>6. [b EXCEPT !.tokens = z, !.last = t].mult = b.mult
          /\ [b EXCEPT !.tokens = z, !.last = t].tokens = z
      BY DEF Bucket
    <3> QED BY <3>4, <3>5, <3>6
  <2>5. w.mult = b.mult
    <3>1. CASE Covers(r)
      <4>1. w = [r EXCEPT !.tokens = r.tokens - Unit, !.expires = x]
        BY <2>2, <2>3, <2>4, <3>1 DEF Taken
      <4>2. PICK z : z = r.tokens - Unit
        OBVIOUS
      <4>3. z # None
        BY <2>4, <3>1, <4>2 DEF Covers, None, Unit
      <4>4. r = Refilled(b, j, t)
        BY <2>4
      <4>5. r = [b EXCEPT !.tokens = r.tokens, !.last = r.last]
        BY <2>4 DEF Refilled, Bucket
      <4> QED BY <2>4, <4>1, <4>2, <4>3, <4>5 DEF Bucket
    <3>2. CASE ~Covers(r)
      <4>1. w = r
        BY <2>2, <2>3, <2>4, <3>2 DEF Taken
      <4> QED BY <2>4, <4>1 DEF None
    <3> QED BY <3>1, <3>2
  <2>6. CASE u = s /\ j = k
    <3>1. bucket'[s][k] = w
      BY <1>0, <2>1, <2>6
    <3> QED BY <2>3, <2>5, <2>6, <3>1
  <2>7. CASE u # s \/ j # k
    <3>1. bucket'[s][k] = bucket[s][k]
      BY <1>0, <2>1, <2>7
    <3> QED BY <3>1
  <2> QED BY <2>6, <2>7
<1>4. ASSUME NEW c \in Callers, Evaluate(c) \/ TakeLocal(c), bucket' # bucket
      PROVE  bucket'[s][k].mult = bucket[s][k].mult
  <2>1. call[c].i \in DOMAIN BucketsOf[c] /\ call[c].stamp \in Nat /\ now \in Nat
    BY LimiterAssumption DEF IInv, TypeOK, Call
  <2>2. Key(c) \in Keys
    BY <2>1, LimiterAssumption, LenProperties DEF Key
  <2>3. Redis \in Stores /\ ProcessOf[c] \in Stores
    BY LimiterAssumption DEF Stores
  <2>4. \/ TakeFrom(Redis, Key(c), call[c].stamp)
        \/ TakeFrom(ProcessOf[c], Key(c), now)
    BY <1>4 DEF Evaluate, TakeLocal
  <2> QED BY <1>3, <2>1, <2>2, <2>3, <2>4
<1>5. ASSUME NEW c \in Callers
      PROVE  /\ Written(c) \in [Stores -> [Keys -> Bucket]]
             /\ \/ Written(c)[s][k] = bucket[s][k]
                \/ \E m \in Floor .. Unit : Written(c)[s][k].mult = Halved(m)
  <2>1. call[c] \in Call
    BY DEF IInv, TypeOK
  <2>2. call[c].seen \in Floor .. Unit
    BY <2>1 DEF Call
  <2> QED BY <2>2, WrittenType
<1>6. ASSUME NEW c \in Callers, NEW bs \in [Stores -> [Keys -> Bucket]],
             HalveLocal(c, bs),
             \/ bs[s][k] = bucket[s][k]
             \/ \E m \in Floor .. Unit : bs[s][k].mult = Halved(m)
      PROVE  \/ bucket'[s][k].mult = bucket[s][k].mult
             \/ \E m \in Floor .. Unit : bucket'[s][k].mult = Halved(m)
  <2>1. PICK p \in Stores : p = ProcessOf[c]
    BY LimiterAssumption DEF Stores
  <2>2. PICK j \in Keys : j = DomainOf[c]
    BY LimiterAssumption
  <2>3. bucket' = [bs EXCEPT ![p][j] = HalvedBucket(bs[p][j])]
    BY <1>6, <2>1, <2>2 DEF HalveLocal
  <2>4. CASE p = s /\ j = k
    <3>1. bucket'[s][k] = HalvedBucket(bs[s][k]) /\ bs[s][k] \in Bucket
      BY <1>6, <2>3, <2>4
    <3> QED BY <3>1, HalvedBucketReduced
  <2>5. CASE ~(p = s /\ j = k)
    <3>1. bucket'[s][k] = bs[s][k]
      BY <1>6, <2>3, <2>5
    <3> QED BY <1>6, <3>1
  <2> QED BY <2>4, <2>5
<1>7. ASSUME NEW c \in Callers,
             WriteMultiplier(c) \/ WriteUnheard(c) \/ ReportLocal(c)
      PROVE  \/ bucket'[s][k].mult = bucket[s][k].mult
             \/ \E m \in Floor .. Unit : bucket'[s][k].mult = Halved(m)
  BY <1>0, <1>5, <1>6, <1>7 DEF WriteMultiplier, WriteUnheard, ReportLocal
<1>8. ASSUME NEW c \in Callers, \/ Begin(c) \/ Load(c) \/ SendFirst(c) \/ SendNext(c)
                                \/ GiveUp(c) \/ Wake(c) \/ Answered(c)
                                \/ ReadMultiplier(c)
      PROVE  bucket' = bucket
  BY <1>8 DEF Begin, Load, SendFirst, SendNext, Send, GiveUp, Wake, Answered, ReadMultiplier
<1>9. CASE UNCHANGED limiterVars
  BY <1>1, <1>9 DEF limiterVars
<1> QED BY <1>1, <1>2, <1>4, <1>7, <1>8, <1>9 DEF Next, CallStep

\* With any number of reports under way at once, with lost replies and changes
\* of backend, the rate of a domain that answered 429 stays at half or less of
\* the full one until its key expires: report_429 and the script write nothing
\* but halves and what they have read.
THEOREM ReducedStaysReduced == Spec => ReducedUntilExpiry
<1>1. ASSUME IInv, [Next]_limiterVars, NEW s \in Stores, NEW k \in Keys,
             bucket[s][k].mult <= Halved(Unit)
      PROVE  bucket'[s][k].mult <= Halved(Unit) \/ bucket'[s][k] = NoBucket
  BY <1>1, BucketAfter, HalvedIsReduced
<1>2. IInv /\ [Next]_limiterVars =>
        [\A s \in Stores, k \in Keys :
           bucket[s][k].mult <= Halved(Unit) =>
             bucket'[s][k].mult <= Halved(Unit) \/ bucket'[s][k] = NoBucket]_limiterVars
  BY <1>1
<1> QED BY <1>2, InitHolds, StepHolds, PTL DEF Spec, ReducedUntilExpiry
=============================================================================
