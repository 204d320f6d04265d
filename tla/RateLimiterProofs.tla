------------------------- MODULE RateLimiterProofs --------------------------
(***************************************************************************)
(* The token bucket keeps its promise for every capacity, rate, interval   *)
(* and window.                                                             *)
(***************************************************************************)
EXTENDS RateLimiter, TLAPS

(* Small facts about products, stated once: the solver treats products of  *)
(* variables only syntactically.                                           *)
LEMMA SplitProduct ==
    ASSUME NEW r \in Nat, NEW w \in Nat, NEW s \in Nat, s <= w
    PROVE  /\ r * (w - s) \in Nat /\ r * s \in Nat /\ r * w \in Nat
           /\ r * (w - s) + r * s = r * w
OBVIOUS

LEMMA NextProduct ==
    ASSUME NEW n \in Nat, NEW u \in Nat
    PROVE  /\ n * u \in Nat
           /\ (n + 1) * u = n * u + u
OBVIOUS

LEMMA MonotoneProduct ==
    ASSUME NEW r \in Nat, NEW a \in Nat, NEW b \in Nat, a <= b
    PROVE  r * a <= r * b
OBVIOUS

LEMMA ProductInNat ==
    ASSUME NEW r \in Nat, NEW a \in Nat
    PROVE  r * a \in Nat
OBVIOUS

(* A window and the time since the last refill age by a tick each, or the  *)
(* latter stays behind: the earned part does not shrink.                   *)
LEMMA Aging ==
    ASSUME NEW r \in Nat, NEW w \in Nat, NEW s \in Nat, NEW t \in Nat,
           s <= w, t <= s + 1
    PROVE  /\ t <= w + 1
           /\ r * (w - s) \in Nat /\ r * ((w + 1) - t) \in Nat
           /\ r * (w - s) <= r * ((w + 1) - t)
<1>1. t <= w + 1 /\ w - s \in Nat /\ (w + 1) - t \in Nat /\ w - s <= (w + 1) - t
  OBVIOUS
<1>2. QED
  BY <1>1, MonotoneProduct, ProductInNat

LEMMA BumpInRange ==
    ASSUME NEW n \in Counter
    PROVE  Bump(n) \in Counter
BY CounterAssumption DEF Bump, Counter

LEMMA FullInNat == Full \in Nat
BY BucketAssumption DEF Full

(***************************************************************************)
(* The inductive invariant.  The bound on a window is not inductive: it    *)
(* forgets what is still in the bucket.  With the tokens added, the earned *)
(* part counts up to the last refill only; before the first refill of the  *)
(* window nothing has been allowed in it.                                  *)
(***************************************************************************)
Covered(allowed, left, age, since) ==
    IF since > age
       THEN allowed = 0
       ELSE allowed * TokenUnit + left <= Full + RefillPerTick * (age - since)

BucketInv ==
    /\ BucketTypeOK
    /\ Covered(windowAllowed, tokens, windowAge, sinceRefill)

(* The invariant's arithmetic, one lemma per thing that can happen to a    *)
(* window: it starts, it ages, the bucket is refilled, a token is taken.   *)
LEMMA CoveredAtStart ==
    ASSUME NEW left \in 0 .. Full, NEW since \in Nat
    PROVE  Covered(0, left, 0, since)
<1>1. CASE since > 0
  BY <1>1 DEF Covered
<1>2. CASE since = 0
  <2>1. 0 * TokenUnit = 0 /\ RefillPerTick * (0 - 0) = 0
    BY BucketAssumption
  <2>2. QED
    BY <1>2, <2>1, FullInNat DEF Covered
<1>3. QED
  BY <1>1, <1>2

LEMMA CoveredAges ==
    ASSUME NEW allowed \in Nat, NEW left \in 0 .. Full, NEW age \in Nat,
           NEW since \in Nat, NEW later \in Nat, later <= since + 1,
           Covered(allowed, left, age, since)
    PROVE  Covered(allowed, left, age + 1, later)
<1> USE BucketAssumption, FullInNat
<1>1. allowed * TokenUnit \in Nat
  BY ProductInNat
<1>2. CASE later > age + 1
  BY <1>2 DEF Covered
<1>3. CASE later <= age + 1 /\ since > age
  <2>1. (age + 1) - later \in Nat
    BY <1>3
  <2>2. RefillPerTick * ((age + 1) - later) \in Nat
    BY <2>1, ProductInNat
  <2>3. allowed = 0 /\ allowed * TokenUnit = 0
    BY <1>3 DEF Covered
  <2>4. QED
    BY <1>3, <2>2, <2>3 DEF Covered
<1>4. CASE since <= age
  <2>1. /\ later <= age + 1
        /\ RefillPerTick * (age - since) \in Nat
        /\ RefillPerTick * ((age + 1) - later) \in Nat
        /\ RefillPerTick * (age - since) <= RefillPerTick * ((age + 1) - later)
    BY <1>4, Aging
  <2>2. allowed * TokenUnit + left <= Full + RefillPerTick * (age - since)
    BY <1>4 DEF Covered
  <2>3. QED
    BY <1>1, <2>1, <2>2 DEF Covered
<1>5. QED
  BY <1>2, <1>3, <1>4

LEMMA CoveredRefill ==
    ASSUME NEW allowed \in Nat, NEW left \in 0 .. Full, NEW age \in Nat,
           NEW since \in Nat, Covered(allowed, left, age, since)
    PROVE  LET refilled == AtMost(Full, left + RefillPerTick * since)
           IN  /\ refilled \in 0 .. Full
               /\ allowed * TokenUnit + refilled <= Full + RefillPerTick * age
<1> DEFINE refilled == AtMost(Full, left + RefillPerTick * since)
<1> USE BucketAssumption, FullInNat
<1>1. /\ RefillPerTick * since \in Nat /\ RefillPerTick * age \in Nat
      /\ allowed * TokenUnit \in Nat
  BY ProductInNat
<1>2. /\ refilled \in Nat /\ refilled <= Full
      /\ refilled <= left + RefillPerTick * since
  BY <1>1 DEF AtMost
<1>3. allowed * TokenUnit + refilled <= Full + RefillPerTick * age
  <2>1. CASE since > age
    BY <1>1, <1>2, <2>1 DEF Covered
  <2>2. CASE since <= age
    <3>1. /\ RefillPerTick * (age - since) \in Nat
          /\ RefillPerTick * (age - since) + RefillPerTick * since = RefillPerTick * age
      BY <2>2, SplitProduct
    <3>2. allowed * TokenUnit + left <= Full + RefillPerTick * (age - since)
      BY <2>2 DEF Covered
    <3>3. QED
      BY <1>1, <1>2, <3>1, <3>2
  <2>3. QED
    BY <2>1, <2>2
<1>4. QED
  BY <1>2, <1>3

LEMMA CoveredNow ==
    ASSUME NEW allowed \in Nat, NEW left \in Nat, NEW age \in Nat,
           allowed * TokenUnit + left <= Full + RefillPerTick * age
    PROVE  Covered(allowed, left, age, 0)
<1>1. age - 0 = age
  OBVIOUS
<1>2. QED
  BY <1>1 DEF Covered

LEMMA InitInv == BucketInit => BucketInv
<1> SUFFICES ASSUME BucketInit PROVE BucketInv
  OBVIOUS
<1>1. /\ Full \in 0 .. Full /\ 0 \in Counter
      /\ 0 \in 0 .. MaxIdle /\ 0 \in 0 .. RefillInterval /\ 0 \in 0 .. MaxWindow
  BY FullInNat, CounterAssumption, BucketAssumption DEF Counter
<1>2. BucketTypeOK
  BY <1>1 DEF BucketInit, BucketTypeOK
<1>3. QED
  BY <1>1, <1>2, CoveredAtStart DEF BucketInit, BucketInv

(* Taking a token or finding none, as try_acquire and acquire both do. *)
LEMMA UseInv ==
    ASSUME BucketInv, Take \/ Miss
    PROVE  /\ tokens' \in 0 .. Full /\ windowAllowed' \in Nat
           /\ totalAllowed' \in Counter
           /\ sinceRefill' = 0 /\ UNCHANGED windowAge
           /\ Covered(windowAllowed, tokens, windowAge, sinceRefill)'
<1>1. /\ windowAllowed \in Nat /\ windowAge \in Nat /\ totalAllowed \in Counter
      /\ tokens \in 0 .. Full /\ sinceRefill \in Nat
      /\ Covered(windowAllowed, tokens, windowAge, sinceRefill)
  BY BucketAssumption DEF BucketInv, BucketTypeOK
<1>2. /\ Refilled \in 0 .. Full
      /\ windowAllowed * TokenUnit + Refilled <= Full + RefillPerTick * windowAge
  BY <1>1, CoveredRefill DEF Refilled
<1>3. CASE Take
  <2>1. /\ tokens' = Refilled - TokenUnit /\ Refilled >= TokenUnit
        /\ windowAllowed' = windowAllowed + 1 /\ sinceRefill' = 0
        /\ windowAge' = windowAge /\ totalAllowed' = Bump(totalAllowed)
    BY <1>3 DEF Take
  <2>2. (windowAllowed + 1) * TokenUnit = windowAllowed * TokenUnit + TokenUnit
        /\ windowAllowed * TokenUnit \in Nat /\ RefillPerTick * windowAge \in Nat
    BY <1>1, NextProduct, ProductInNat, BucketAssumption
  <2>3. (windowAllowed + 1) * TokenUnit + (Refilled - TokenUnit)
          <= Full + RefillPerTick * windowAge
    BY <1>2, <2>1, <2>2, BucketAssumption, FullInNat
  <2>4. Refilled - TokenUnit \in 0 .. Full /\ windowAllowed + 1 \in Nat
    BY <1>1, <1>2, <2>1, BucketAssumption, FullInNat
  <2>5. Covered(windowAllowed + 1, Refilled - TokenUnit, windowAge, 0)
    BY <1>1, <2>3, <2>4, CoveredNow, FullInNat
  <2>6. QED
    BY <1>1, <2>1, <2>4, <2>5, BumpInRange
<1>4. CASE Miss
  <2>1. /\ tokens' = Refilled /\ sinceRefill' = 0
        /\ UNCHANGED << totalAllowed, windowAge, windowAllowed >>
    BY <1>4 DEF Miss
  <2>2. Covered(windowAllowed, Refilled, windowAge, 0)
    BY <1>1, <1>2, CoveredNow, FullInNat
  <2>3. QED
    BY <1>1, <1>2, <2>1, <2>2
<1>5. QED
  BY <1>3, <1>4

LEMMA TickInv == ASSUME BucketInv, Tick PROVE BucketInv'
<1>1. BucketTypeOK'
  BY BucketAssumption DEF BucketInv, BucketTypeOK, Tick, AtMost
<1>2. /\ tokens \in 0 .. Full /\ windowAllowed \in Nat /\ windowAge \in Nat
      /\ sinceRefill \in Nat /\ sinceRefill' \in Nat
      /\ Covered(windowAllowed, tokens, windowAge, sinceRefill)
  BY <1>1, BucketAssumption DEF BucketInv, BucketTypeOK
<1>3. sinceRefill' <= sinceRefill + 1 /\ UNCHANGED tokens
  BY <1>2, BucketAssumption DEF Tick, AtMost
<1>4. CASE windowAge' = 0 /\ windowAllowed' = 0
  <2>1. Covered(0, tokens, 0, sinceRefill')
    BY <1>2, CoveredAtStart
  <2>2. QED
    BY <1>1, <1>3, <1>4, <2>1 DEF BucketInv
<1>5. CASE windowAge' = windowAge + 1 /\ windowAllowed' = windowAllowed
  <2>1. Covered(windowAllowed, tokens, windowAge + 1, sinceRefill')
    BY <1>2, <1>3, CoveredAges
  <2>2. QED
    BY <1>1, <1>3, <1>5, <2>1 DEF BucketInv
<1>6. QED
  BY <1>4, <1>5 DEF Tick

LEMMA StepInv == BucketInv /\ [BucketNext]_bucketVars => BucketInv'
<1> SUFFICES ASSUME BucketInv, [BucketNext]_bucketVars PROVE BucketInv'
  OBVIOUS
<1> USE BucketAssumption
<1>0. BucketTypeOK /\ 0 \in 0 .. RefillInterval /\ 0 \in 0 .. MaxIdle /\ 0 \in 0 .. MaxWindow
      /\ RefillInterval \in 0 .. RefillInterval
  BY DEF BucketInv
<1>1. CASE TryAcquire
  <2>1. (Take \/ Miss) /\ UNCHANGED << sleeping, sleepLeft >>
        /\ totalDenied' \in Counter
    BY <1>0, <1>1, BumpInRange DEF TryAcquire, Take, BucketTypeOK
  <2>2. QED
    BY <1>0, <2>1, UseInv DEF BucketInv, BucketTypeOK
<1>2. CASE Acquire \/ Wake
  <2>1. (Take \/ Miss) /\ totalDenied' = totalDenied /\ sleeping' \in BOOLEAN
        /\ sleepLeft' \in {0, RefillInterval}
    BY <1>2 DEF Acquire, Wake, AcquireTurn, Take
  <2>2. QED
    BY <1>0, <2>1, UseInv DEF BucketInv, BucketTypeOK
<1>3. CASE DropAcquire
  BY <1>0, <1>3 DEF DropAcquire, BucketInv, BucketTypeOK
<1>4. CASE Tick
  BY <1>4, TickInv
<1>5. CASE StartWindow
  <2>1. BucketTypeOK'
    BY <1>0, <1>5 DEF StartWindow, BucketTypeOK
  <2>2. Covered(0, tokens, 0, sinceRefill)
    BY <1>0, CoveredAtStart DEF BucketTypeOK
  <2>3. QED
    BY <1>5, <2>1, <2>2 DEF StartWindow, BucketInv
<1>6. CASE UNCHANGED bucketVars
  BY <1>6 DEF bucketVars, BucketInv, BucketTypeOK
<1>7. QED
  BY <1>1, <1>2, <1>3, <1>4, <1>5, <1>6 DEF BucketNext

LEMMA Invariance == BucketSpec => []BucketInv
BY InitInv, StepInv, PTL DEF BucketSpec

(***************************************************************************)
(* The bucket holds between nothing and its capacity.                      *)
(***************************************************************************)
THEOREM TypeCorrect == BucketSpec => []BucketTypeOK
BY Invariance, PTL DEF BucketInv

(***************************************************************************)
(* INV-012: no window, wherever it starts, sees more requests allowed than *)
(* a full bucket and the refill of the window pay for.                     *)
(***************************************************************************)
THEOREM TokenBucket == BucketSpec => []WindowBound
<1>1. ASSUME BucketInv PROVE WindowBound
  <2>1. /\ windowAllowed \in Nat /\ windowAge \in Nat /\ sinceRefill \in Nat
        /\ tokens \in 0 .. Full
        /\ Covered(windowAllowed, tokens, windowAge, sinceRefill)
    BY <1>1, BucketAssumption DEF BucketInv, BucketTypeOK
  <2>2. /\ Refilled \in 0 .. Full
        /\ windowAllowed * TokenUnit + Refilled <= Full + RefillPerTick * windowAge
    BY <2>1, CoveredRefill DEF Refilled
  <2>3. windowAllowed * TokenUnit \in Nat /\ RefillPerTick * windowAge \in Nat
    BY <2>1, ProductInNat, BucketAssumption
  <2>4. QED
    BY <2>2, <2>3, FullInNat DEF WindowBound
<1>2. QED
  BY <1>1, Invariance, PTL
=============================================================================
