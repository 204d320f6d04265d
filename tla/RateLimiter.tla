---------------------------- MODULE RateLimiter -----------------------------
(***************************************************************************)
(* The token bucket of crates/resilience.  Tokens are f64 in the code; here*)
(* a token is TokenUnit units and a tick refills RefillPerTick of them, so *)
(* fractions of a token stay exact.  Both acquire methods take &mut self:  *)
(* acquire keeps the borrow while it sleeps, so nobody else uses the       *)
(* bucket until it returns or its future is dropped.                       *)
(*                                                                         *)
(* Times are ages, so that runs need no bound on the clock.  The age of    *)
(* last_refill saturates at MaxIdle, by which an idle bucket is full.      *)
(***************************************************************************)
EXTENDS Naturals, Metrics

CONSTANTS Capacity,        (* config.capacity, in tokens                   *)
          TokenUnit,       (* units in a token                             *)
          RefillPerTick,   (* config.refill_rate, in units                 *)
          RefillInterval,  (* config.refill_interval_ms, in ticks          *)
          MaxIdle,         (* bound: age of last_refill                    *)
          MaxWindow        (* bound: length of an observed window          *)

ASSUME BucketAssumption ==
    /\ Capacity \in Nat /\ RefillPerTick \in Nat /\ RefillInterval \in Nat
    /\ MaxIdle \in Nat /\ MaxWindow \in Nat
    /\ TokenUnit \in Nat \ {0}

(* MaxIdle is long enough to fill the bucket: saturating there is exact. *)
ASSUME IdleAssumption ==
    RefillPerTick = 0 \/ RefillPerTick * MaxIdle >= Capacity * TokenUnit

VARIABLES tokens,          (* in units                                     *)
          sinceRefill,     (* age of last_refill                           *)
          totalAllowed, totalDenied,
          sleeping,        (* an acquire is in its sleep ...               *)
          sleepLeft,       (* ... for so many ticks                        *)
          windowAge,       (* history: age of the observed window          *)
          windowAllowed    (* history: requests allowed in it              *)

bucketVars == << tokens, sinceRefill, totalAllowed, totalDenied, sleeping, sleepLeft,
           windowAge, windowAllowed >>

Full == Capacity * TokenUnit

AtMost(limit, n) == IF n <= limit THEN n ELSE limit

BucketInit ==
    /\ tokens = Full
    /\ sinceRefill = 0
    /\ totalAllowed = 0 /\ totalDenied = 0
    /\ sleeping = FALSE /\ sleepLeft = 0
    /\ windowAge = 0 /\ windowAllowed = 0

(* Mutants: a bucket without a brim, and whole tokens only, up or down. *)
RefilledOverflowing == tokens + RefillPerTick * sinceRefill
RefilledUp ==
    AtMost(Full, TokenUnit * ((RefilledOverflowing + TokenUnit - 1) \div TokenUnit))
RefilledDown ==
    AtMost(Full, TokenUnit * (RefilledOverflowing \div TokenUnit))

(* What refill() leaves in the bucket. *)
Refilled == AtMost(Full, tokens + RefillPerTick * sinceRefill)

Take ==
    /\ Refilled >= TokenUnit
    /\ tokens' = Refilled - TokenUnit
    /\ sinceRefill' = 0
    /\ totalAllowed' = Bump(totalAllowed)
    /\ windowAllowed' = windowAllowed + 1
    /\ UNCHANGED << totalDenied, windowAge >>

Miss ==
    /\ Refilled < TokenUnit
    /\ tokens' = Refilled
    /\ sinceRefill' = 0
    /\ UNCHANGED << totalAllowed, windowAge, windowAllowed >>

TryAcquire ==
    /\ ~sleeping
    /\ \/ Take
       \/ Miss /\ totalDenied' = Bump(totalDenied)
    /\ UNCHANGED << sleeping, sleepLeft >>

(* One turn of acquire's loop: at the call, and whenever the sleep ends. *)
AcquireTurn ==
    \/ /\ Take
       /\ sleeping' = FALSE /\ sleepLeft' = 0
    \/ /\ Miss
       /\ sleeping' = TRUE /\ sleepLeft' = RefillInterval
       /\ UNCHANGED totalDenied

Acquire == ~sleeping /\ AcquireTurn

Wake == sleeping /\ sleepLeft = 0 /\ AcquireTurn

DropAcquire ==
    /\ sleeping
    /\ sleeping' = FALSE /\ sleepLeft' = 0
    /\ UNCHANGED << tokens, sinceRefill, totalAllowed, totalDenied,
                    windowAge, windowAllowed >>

Tick ==
    /\ sinceRefill' = AtMost(MaxIdle, sinceRefill + 1)
    /\ sleepLeft' = IF sleepLeft > 0 THEN sleepLeft - 1 ELSE 0
    /\ \/ /\ windowAge < MaxWindow
          /\ windowAge' = windowAge + 1
          /\ UNCHANGED windowAllowed
       \/ windowAge' = 0 /\ windowAllowed' = 0
    /\ UNCHANGED << tokens, totalAllowed, totalDenied, sleeping >>

(* History only: an observer starts a new window at any moment. *)
StartWindow ==
    /\ windowAge' = 0 /\ windowAllowed' = 0
    /\ UNCHANGED << tokens, sinceRefill, totalAllowed, totalDenied,
                    sleeping, sleepLeft >>

BucketNext == TryAcquire \/ Acquire \/ Wake \/ DropAcquire \/ Tick \/ StartWindow

BucketSpec == BucketInit /\ [][BucketNext]_bucketVars

-----------------------------------------------------------------------------

BucketTypeOK ==
    /\ tokens \in 0 .. Full
    /\ sinceRefill \in 0 .. MaxIdle
    /\ totalAllowed \in Counter /\ totalDenied \in Counter
    /\ sleeping \in BOOLEAN
    /\ sleepLeft \in 0 .. RefillInterval
    /\ windowAge \in 0 .. MaxWindow
    /\ windowAllowed \in Nat

(***************************************************************************)
(* INV-012, the token bucket: in a window of any length that starts at any *)
(* moment, requests are allowed for at most a full bucket plus what the    *)
(* refill rate earned during the window - bursts after idle periods and    *)
(* acquires that slept included.                                           *)
(***************************************************************************)
WindowBound ==
    windowAllowed * TokenUnit <= Full + RefillPerTick * windowAge

(***************************************************************************)
(* acquire returns, unless its caller drops it: the fraction of a token a  *)
(* short sleep earns is never lost, even when it is far below one token.   *)
(***************************************************************************)
AcquireReturns == sleeping ~> ~sleeping
=============================================================================
