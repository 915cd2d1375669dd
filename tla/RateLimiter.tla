---------------------------- MODULE RateLimiter ----------------------------
(***************************************************************************)
(* The token buckets that guard submitOrder, one per symbol                *)
(* (src/include/utils/rate_limiter.h).                                     *)
(*                                                                         *)
(* Both mutexes are held for the whole of a call, clock reading included,  *)
(* so a call is one action.  Time is counted in ticks and the bucket in    *)
(* fractions of a token, TicksPerSecond to the token: a tick then refills  *)
(* tokensPerSec of them, a whole number.                                   *)
(***************************************************************************)
EXTENDS Integers, Sequences

CONSTANTS
    Symbols,
    TicksPerSecond,     \* resolution of the clock
    DefaultRate,        \* 100 orders per second in the code
    DefaultBurst,       \* 200 orders in the code
    Rates, Bursts,      \* what addSymbol may be called with
    MaxTime,            \* bound: ticks
    MaxRequests         \* bound: orders per symbol

ASSUME RateAssumption ==
    /\ TicksPerSecond \in Nat \ {0}
    /\ {DefaultRate, DefaultBurst} \subseteq Nat
    /\ Rates \subseteq Nat /\ Bursts \subseteq Nat
    /\ MaxTime \in Nat /\ MaxRequests \in Nat

VARIABLES
    now,            \* steady_clock
    limiters,       \* the RateLimiter of each symbol, if it has one
    accepted,       \* per symbol, the times at which orders were accepted
    rejected        \* per symbol, the count of rejections

vars == <<now, limiters, accepted, rejected>>

Limiter == [maxBurst : Nat, tokensPerSec : Nat, tokens : Nat, lastRefill : Nat]

NoLimiter == << >>

\* One token.
Token == TicksPerSecond

\* The constructor: the bucket is full.
NewLimiter(burst, rate) ==
    [maxBurst |-> burst, tokensPerSec |-> rate, tokens |-> burst * Token,
     lastRefill |-> now]

TypeOK == /\ now \in Nat
          /\ limiters \in [Symbols -> {NoLimiter} \cup Limiter]
          /\ accepted \in [Symbols -> Seq(Nat)]
          /\ rejected \in [Symbols -> Nat]

Init == /\ now = 0
        /\ limiters = [s \in Symbols |-> NoLimiter]
        /\ accepted = [s \in Symbols |-> << >>]
        /\ rejected = [s \in Symbols |-> 0]

Smaller(a, b) == IF a < b THEN a ELSE b

\* Mutant of Refilled: the bucket overflows.
RefilledUncapped(l) ==
    [l EXCEPT !.tokens = l.tokens + (now - l.lastRefill) * l.tokensPerSec,
              !.lastRefill = now]

\* Mutant of Refilled: whole tokens only.
RefilledWhole(l) ==
    LET fresh == ((now - l.lastRefill) * l.tokensPerSec) \div Token
    IN  [l EXCEPT !.tokens = Smaller(l.maxBurst * Token, l.tokens + fresh * Token),
                  !.lastRefill = now]

\* refillTokens.
Refilled(l) ==
    [l EXCEPT !.tokens = Smaller(l.maxBurst * Token,
                                 l.tokens + (now - l.lastRefill) * l.tokensPerSec),
              !.lastRefill = now]

\* addSymbol: no effect on a symbol that has a limiter already.
AddSymbol(s, rate, burst) ==
    /\ limiters[s] = NoLimiter
    /\ limiters' = [limiters EXCEPT ![s] = NewLimiter(burst, rate)]
    /\ UNCHANGED <<now, accepted, rejected>>

\* The limiter tryAcceptOrder finds, or makes with the default limit.
LimiterOf(s) == IF limiters[s] = NoLimiter THEN NewLimiter(DefaultBurst, DefaultRate)
                ELSE limiters[s]

\* tryAcceptOrder and tryConsume, with a token left.
Accept(s) ==
    LET l == Refilled(LimiterOf(s)) IN
    /\ l.tokens >= Token
    /\ limiters' = [limiters EXCEPT ![s] = [l EXCEPT !.tokens = @ - Token]]
    /\ accepted' = [accepted EXCEPT ![s] = Append(@, now)]
    /\ UNCHANGED <<now, rejected>>

\* The same without: submitOrder throws.
Reject(s) ==
    LET l == Refilled(LimiterOf(s)) IN
    /\ l.tokens < Token
    /\ limiters' = [limiters EXCEPT ![s] = l]
    /\ rejected' = [rejected EXCEPT ![s] = @ + 1]
    /\ UNCHANGED <<now, accepted>>

TryAcceptOrder(s) ==
    /\ Len(accepted[s]) + rejected[s] < MaxRequests
    /\ Accept(s) \/ Reject(s)

\* Time passes.
Tick == /\ now < MaxTime
        /\ now' = now + 1
        /\ UNCHANGED <<limiters, accepted, rejected>>

Next == \/ \E s \in Symbols, r \in Rates, b \in Bursts : AddSymbol(s, r, b)
        \/ \E s \in Symbols : TryAcceptOrder(s)
        \/ Tick

Spec == Init /\ [][Next]_vars

----------------------------------------------------------------------------
(* Properties *)

\* What the limit l allows between two times: a full bucket and its refill.
Allowance(l, from, to) == l.maxBurst * Token + l.tokensPerSec * (to - from)

\* In no stretch of time, wherever it begins and ends, does a symbol get more
\* orders through than one burst and the rate over that time, although tokens
\* are only added up at the moments of the requests.
WindowBound ==
    \A s \in Symbols : \A i, j \in DOMAIN accepted[s] :
        i <= j => (j - i + 1) * Token
                    <= Allowance(limiters[s], accepted[s][i], accepted[s][j])

\* An order is rejected only if accepting it would break that bound: the
\* limiter is no stricter than its limit, and loses nothing to the capping
\* and the fractions.
RejectsOnlyExcess ==
    [][\A s \in Symbols : rejected'[s] > rejected[s] =>
        \/ limiters'[s].maxBurst = 0
        \/ \E i \in DOMAIN accepted[s] :
              (Len(accepted[s]) - i + 2) * Token
                > Allowance(limiters'[s], accepted[s][i], now)]_vars

=============================================================================
