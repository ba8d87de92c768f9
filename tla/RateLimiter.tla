----------------------------- MODULE RateLimiter -----------------------------
(***************************************************************************)
(* The limit RateLimitMiddleware sets and the decision of redis_rate, the  *)
(* library that takes it: the generic cell rate algorithm over one value   *)
(* per bucket, its theoretical arrival time.  The library runs it as one   *)
(* script inside Redis, so a decision is atomic however many API processes *)
(* there are.  Time is counted in ticks.                                   *)
(***************************************************************************)
EXTENDS Naturals

CONSTANTS
    Period,         \* ticks in a minute
    TicksPerSecond,
    DefaultRpm      \* RATE_LIMIT_DEFAULT_RPM

ASSUME LimiterAssumption ==
    /\ Period \in Nat \ {0}
    /\ TicksPerSecond \in Nat \ {0}
    /\ DefaultRpm \in 1..Period

Later(s, t) == IF s > t THEN s ELSE t

\* A key without a limit of its own has the default.
EffectiveRpm(rpm) == IF rpm > 0 THEN rpm ELSE DefaultRpm

Interval(rpm) == Period \div rpm

NewTat(tat, now, rpm) == Later(tat, now) + Interval(rpm)

\* Mutant: the limit is compared one request too late.
AllowsOneMore(tat, now, rpm) == NewTat(tat, now, rpm) <= now + Period + Interval(rpm)

\* PerMinute(rpm) allows a burst of a whole minute's requests.
Allows(tat, now, rpm) == NewTat(tat, now, rpm) <= now + Period

\* The time until the request would be allowed, if no other came.
RetryAfter(tat, now, rpm) == NewTat(tat, now, rpm) - (now + Period)

\* Mutant: the time is left to the lower limit.
OneSecond(tat, now, rpm) == 1

\* The Retry-After header: whole seconds, rounded down, but never zero.
RetryAfterSeconds(tat, now, rpm) ==
    Later(RetryAfter(tat, now, rpm) \div TicksPerSecond, 1)
===============================================================================
