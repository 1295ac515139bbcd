----------------------------- MODULE TokenBucket -----------------------------
(***************************************************************************)
(* ss_kit.security.TokenBucket and RateLimiter._new_bucket, as functions   *)
(* of a bucket and a time.  Tokens and rates are counted in parts of a     *)
(* token, Unit parts to one, so that fractional rates are integers here.   *)
(***************************************************************************)
EXTENDS Integers

CONSTANT Unit

ASSUME UnitAssumption == Unit \in Nat \ {0}

AtLeast(a, b) == IF a >= b THEN a ELSE b
AtMost(a, b) == IF a <= b THEN a ELSE b

Bucket == [capacity : Nat, refill : Nat, tokens : Nat, last : Nat]

Elapsed(b, now) == AtLeast(0, now - b.last)

\* A burst of 0 means one second's worth, and one token always fits.
Capacity(perSecond, burst) == AtLeast(Unit, IF burst > 0 THEN burst ELSE perSecond)

NewBucket(rate, now) ==
    [capacity |-> Capacity(rate[1], rate[2]), refill |-> AtLeast(0, rate[1]),
     tokens |-> Capacity(rate[1], rate[2]), last |-> now]

\* The tokens allow() finds after refilling for the time since the last call.
Refilled(b, elapsed) == AtMost(b.capacity, b.tokens + elapsed * b.refill)

Allows(tokens) == tokens >= Unit

\* Mutant: a refused call keeps the old timestamp, so its refill counts twice.
TakeKeepingTime(b, tokens, now) ==
    IF Allows(tokens) THEN [b EXCEPT !.tokens = tokens - Unit, !.last = now]
                      ELSE [b EXCEPT !.tokens = tokens]

\* Mutant: a refused call discards the refill it found.
TakeDiscarding(b, tokens, now) ==
    IF Allows(tokens) THEN [b EXCEPT !.tokens = tokens - Unit, !.last = now]
                      ELSE [b EXCEPT !.last = now]

\* Mutant: a token is taken whether there is one or not.
TakeAlways(b, tokens, now) == [b EXCEPT !.tokens = tokens - Unit, !.last = now]

\* The bucket after allow() has refilled it to `tokens` and taken one if it can.
Take(b, tokens, now) ==
    [b EXCEPT !.tokens = IF Allows(tokens) THEN tokens - Unit ELSE tokens,
              !.last = now]

=============================================================================
