-------------------------- MODULE RateLimiterProofs --------------------------
(***************************************************************************)
(* The bound of the rate limiter, for every limit, every clock and every   *)
(* stretch of time.                                                        *)
(*                                                                         *)
(* WindowBound speaks of two past moments and says nothing of the bucket,  *)
(* so it is not inductive.  The strengthening is an account that starts at *)
(* any accepted order: the orders accepted since and the tokens still in   *)
(* the bucket never exceed one burst and the refill since then.  That the  *)
(* limiter is no stricter (RejectsOnlyExcess) takes one account that is    *)
(* exact, from the last time on at which the bucket was full.              *)
(***************************************************************************)
EXTENDS RateLimiter, TLAPS, SequenceTheorems

\* What is known of the limiter l of a symbol whose orders were accepted at
\* the times `times'.
Account(l, times) ==
    /\ l \in Limiter /\ times \in Seq(Nat)
    /\ l.lastRefill <= now
    /\ l.tokens <= l.maxBurst * Token
    /\ \A i \in DOMAIN times : times[i] <= l.lastRefill
    /\ \A i \in DOMAIN times :
          (Len(times) - i + 1) * Token + l.tokens
              <= Allowance(l, times[i], l.lastRefill)
    /\ \A i, j \in DOMAIN times :
          i <= j => (j - i + 1) * Token <= Allowance(l, times[i], times[j])

BucketInv ==
    /\ TypeOK
    /\ \A s \in Symbols :
          IF limiters[s] = NoLimiter THEN accepted[s] = << >>
          ELSE Account(limiters[s], accepted[s])

----------------------------------------------------------------------------
(* Arithmetic *)

LEMMA Distributes ==
  ASSUME NEW r \in Int, NEW x \in Int, NEW y \in Int
  PROVE  /\ r * (x + y) = r * x + r * y
         /\ (x + y) * r = x * r + y * r
  OBVIOUS

LEMMA ProductNat ==
  ASSUME NEW x \in Nat, NEW y \in Nat
  PROVE  x * y \in Nat
  OBVIOUS

LEMMA ProductInt ==
  ASSUME NEW x \in Int, NEW y \in Int
  PROVE  x * y \in Int
  OBVIOUS

LEMMA AllowanceInt ==
  ASSUME NEW l \in Limiter, NEW from \in Int, NEW to \in Int
  PROVE  Allowance(l, from, to) \in Int
<1>1. l.maxBurst \in Int /\ l.tokensPerSec \in Int  BY DEF Limiter
<1>2. Token \in Int  BY RateAssumption DEF Token
<1>3. l.maxBurst * Token \in Int  BY <1>1, <1>2, ProductInt
<1>4. l.tokensPerSec * (to - from) \in Int
  <2>1. to - from \in Int  OBVIOUS
  <2> QED  BY <1>1, <2>1, ProductInt
<1> QED  BY <1>3, <1>4 DEF Allowance

\* A limiter is a record: it is not the empty sequence.
LEMMA LimiterIsOne ==
  ASSUME NEW l \in Limiter
  PROVE  l # NoLimiter
<1>1. "tokens" \in DOMAIN l  BY DEF Limiter
<1>2. DOMAIN NoLimiter = {}  BY DEF NoLimiter
<1> QED  BY <1>1, <1>2

\* While time passes the allowance grows by the refill.
LEMMA AllowanceGrows ==
  ASSUME NEW l \in Limiter, NEW from \in Nat, now \in Nat, l.lastRefill <= now
  PROVE  Allowance(l, from, now) = Allowance(l, from, l.lastRefill)
                                   + (now - l.lastRefill) * l.tokensPerSec
<1> DEFINE fresh == (now - l.lastRefill) * l.tokensPerSec
<1>1. /\ l.maxBurst \in Nat /\ l.tokensPerSec \in Nat /\ l.lastRefill \in Nat
      /\ Token \in Nat /\ l.maxBurst * Token \in Nat
  BY RateAssumption, ProductNat DEF Limiter, Token
<1>2. fresh \in Nat
  <2>1. now - l.lastRefill \in Nat  BY <1>1
  <2> QED  BY <1>1, <2>1, ProductNat
<1>3. now - from = (l.lastRefill - from) + (now - l.lastRefill)
  BY <1>1
<1>4. l.tokensPerSec * (now - from)
         = l.tokensPerSec * (l.lastRefill - from) + l.tokensPerSec * (now - l.lastRefill)
  BY <1>1, <1>3, Distributes, SMTT(30)
<1>5. l.tokensPerSec * (now - l.lastRefill) = fresh
  BY <1>1
<1>6. l.tokensPerSec * (now - from) = l.tokensPerSec * (l.lastRefill - from) + fresh
  BY <1>4, <1>5
<1>7. l.tokensPerSec * (l.lastRefill - from) \in Int
  <2>1. l.lastRefill - from \in Int  BY <1>1
  <2>2. l.tokensPerSec \in Int  BY <1>1
  <2> QED  BY <2>1, <2>2, ProductInt
<1>8. \A a, b, c \in Int : a + (b + c) = (a + b) + c
  OBVIOUS
<1>9. l.maxBurst * Token \in Int /\ fresh \in Int
  <2> HIDE DEF fresh
  <2> QED  BY <1>1, <1>2
<1>10. Allowance(l, from, now) = Allowance(l, from, l.lastRefill) + fresh
  <2> HIDE DEF fresh
  <2> QED  BY <1>6, <1>7, <1>8, <1>9 DEF Allowance
<1> QED  BY <1>10

\* The smaller of two numbers.
LEMMA SmallerBounds ==
  ASSUME NEW x \in Nat, NEW y \in Nat
  PROVE  Smaller(x, y) \in Nat /\ Smaller(x, y) <= x /\ Smaller(x, y) <= y
  BY DEF Smaller

----------------------------------------------------------------------------
(* The account of one limiter *)

LEMMA RefillKeeps ==
  ASSUME now \in Nat, NEW l, NEW times, Account(l, times)
  PROVE  /\ Account(Refilled(l), times)
         /\ Refilled(l).lastRefill = now
<1> DEFINE m == Refilled(l)
           fresh == (now - l.lastRefill) * l.tokensPerSec
<1>1. /\ l \in Limiter /\ times \in Seq(Nat) /\ l.lastRefill <= now
      /\ l.maxBurst \in Nat /\ l.tokensPerSec \in Nat /\ l.tokens \in Nat
      /\ l.lastRefill \in Nat /\ Token \in Nat
  BY RateAssumption DEF Account, Limiter, Token
<1>2. fresh \in Nat /\ l.maxBurst * Token \in Nat
  <2>1. now - l.lastRefill \in Nat  BY <1>1
  <2> QED  BY <1>1, <2>1, ProductNat
<1>3. /\ Smaller(l.maxBurst * Token, l.tokens + fresh) \in Nat
      /\ Smaller(l.maxBurst * Token, l.tokens + fresh) <= l.maxBurst * Token
      /\ Smaller(l.maxBurst * Token, l.tokens + fresh) <= l.tokens + fresh
  <2>1. l.tokens + fresh \in Nat  BY <1>1, <1>2
  <2> HIDE DEF fresh
  <2> QED  BY <1>2, <2>1, SmallerBounds
<1>4. /\ m \in Limiter /\ m.lastRefill = now /\ m.maxBurst = l.maxBurst
      /\ m.tokensPerSec = l.tokensPerSec
      /\ m.tokens = Smaller(l.maxBurst * Token, l.tokens + fresh)
  BY <1>1, <1>3 DEF Refilled, Limiter
<1> HIDE DEF m
<1>5. /\ m.tokens \in Nat /\ m.tokens <= m.maxBurst * Token
      /\ m.tokens <= l.tokens + fresh
  BY <1>3, <1>4
<1>6. ASSUME NEW i \in DOMAIN times
      PROVE  times[i] <= m.lastRefill
  BY <1>1, <1>4, <1>6 DEF Account
<1>7. ASSUME NEW i \in DOMAIN times, NEW to \in Int
      PROVE  Allowance(m, times[i], to) = Allowance(l, times[i], to)
  BY <1>4 DEF Allowance
<1>8. ASSUME NEW i \in DOMAIN times
      PROVE  (Len(times) - i + 1) * Token + m.tokens
                 <= Allowance(m, times[i], m.lastRefill)
  <2>1. times[i] \in Nat /\ i \in Nat /\ Len(times) \in Nat
    BY <1>1
  <2>2. (Len(times) - i + 1) * Token + l.tokens <= Allowance(l, times[i], l.lastRefill)
    BY DEF Account
  <2>3. Allowance(l, times[i], now) = Allowance(l, times[i], l.lastRefill) + fresh
    BY <1>1, <2>1, AllowanceGrows
  <2>4. (Len(times) - i + 1) * Token \in Int
    <3>1. Len(times) - i + 1 \in Int  BY <2>1
    <3>2. Token \in Int  BY <1>1
    <3> QED  BY <3>1, <3>2, ProductInt
  <2>5. Allowance(l, times[i], l.lastRefill) \in Int
    BY <1>1, <2>1, AllowanceInt
  <2>6. Allowance(m, times[i], m.lastRefill)
            = Allowance(l, times[i], l.lastRefill) + fresh
    <3>1. now \in Int  OBVIOUS
    <3> QED  BY <1>4, <1>7, <2>3, <3>1
  <2> HIDE DEF fresh
  <2>7. \A a, d \in Int, b, c, f \in Nat :
            a + b <= d /\ c <= b + f => a + c <= d + f
    OBVIOUS
  <2> QED  BY <1>1, <1>2, <1>5, <2>2, <2>4, <2>5, <2>6, <2>7, Zenon
<1>9. ASSUME NEW i \in DOMAIN times, NEW j \in DOMAIN times, i <= j
      PROVE  (j - i + 1) * Token <= Allowance(m, times[i], times[j])
  BY <1>1, <1>7, <1>9 DEF Account
<1>10. m.lastRefill <= now
  BY <1>1, <1>4
<1>11. Account(m, times)
  BY <1>1, <1>4, <1>5, <1>6, <1>8, <1>9, <1>10 DEF Account
<1> QED  BY <1>4, <1>11 DEF m

\* Taking one token for an order accepted now.
LEMMA ConsumeKeeps ==
  ASSUME now \in Nat, NEW l, NEW times, Account(l, times), l.lastRefill = now,
         l.tokens >= Token
  PROVE  Account([l EXCEPT !.tokens = @ - Token], Append(times, now))
<1> DEFINE m == [l EXCEPT !.tokens = @ - Token]
           longer == Append(times, now)
           n == Len(times)
<1>1. /\ l \in Limiter /\ times \in Seq(Nat)
      /\ l.maxBurst \in Nat /\ l.tokensPerSec \in Nat /\ l.tokens \in Nat
      /\ Token \in Nat /\ n \in Nat
      /\ l.tokens <= l.maxBurst * Token /\ l.maxBurst * Token \in Nat
  BY RateAssumption, ProductNat DEF Account, Limiter, Token
<1>2. /\ m \in Limiter /\ m.lastRefill = now /\ m.maxBurst = l.maxBurst
      /\ m.tokensPerSec = l.tokensPerSec /\ m.tokens = l.tokens - Token
      /\ m.tokens \in Nat
  <2>1. l.tokens - Token \in Nat
    BY <1>1
  <2>2. l \in Limiter
    BY <1>1
  <2> QED  BY <2>1, <2>2 DEF Limiter
<1>3. /\ longer \in Seq(Nat) /\ Len(longer) = n + 1 /\ DOMAIN longer = 1 .. n + 1
      /\ longer[n + 1] = now
      /\ \A i \in DOMAIN times : i \in 1 .. n /\ longer[i] = times[i]
      /\ DOMAIN times = 1 .. n
  BY <1>1, SMTT(30)
<1> HIDE DEF m, longer, n
<1>old. \A i \in DOMAIN longer : i # n + 1 => i \in DOMAIN times /\ i \in Nat
  <2>1. n \in Nat /\ DOMAIN longer = 1 .. n + 1 /\ DOMAIN times = 1 .. n
    BY <1>1, <1>3
  <2> QED  BY ONLY <2>1
<1>4. \A i \in DOMAIN longer : longer[i] \in Nat /\ longer[i] <= now
  <2> SUFFICES ASSUME NEW i \in DOMAIN longer
               PROVE  longer[i] \in Nat /\ longer[i] <= now
    OBVIOUS
  <2>1. CASE i = n + 1
    BY <1>3, <2>1
  <2>2. CASE i # n + 1
    <3>1. i \in DOMAIN times
      BY ONLY <1>old, <2>2, i \in DOMAIN longer
    <3>2. times[i] \in Nat /\ times[i] <= now
      BY <1>1, <3>1, SMTT(30) DEF Account
    <3> QED  BY <1>3, <3>1, <3>2
  <2> QED  BY <2>1, <2>2
<1>5. \A from, to \in Int : Allowance(m, from, to) = Allowance(l, from, to)
  BY <1>2 DEF Allowance
<1>6. Allowance(l, now, now) = l.maxBurst * Token
  BY <1>1 DEF Allowance
<1>7. \A i \in DOMAIN longer :
          ((n + 1) - i + 1) * Token + m.tokens <= Allowance(l, longer[i], now)
  <2> SUFFICES ASSUME NEW i \in DOMAIN longer
               PROVE  ((n + 1) - i + 1) * Token + m.tokens <= Allowance(l, longer[i], now)
    OBVIOUS
  <2>1. CASE i = n + 1
    <3>1. ((n + 1) - i + 1) * Token = Token
      BY <1>1, <2>1
    <3> QED  BY <1>1, <1>2, <1>3, <1>6, <2>1, <3>1, SMTT(30)
  <2>2. CASE i # n + 1
    <3>1. i \in DOMAIN times /\ i \in Nat
      BY ONLY <1>old, <2>2, i \in DOMAIN longer
    <3>old. times[i] \in Nat
      BY ONLY <3>1, <1>1
    <3>2. (n - i + 1) * Token + l.tokens <= Allowance(l, times[i], now)
      BY <3>1, <3>old DEF Account, n
    <3>3. ((n + 1) - i + 1) * Token = (n - i + 1) * Token + Token
      <4>1. (n + 1) - i + 1 = (n - i + 1) + 1
        BY <1>1, <3>1
      <4>2. ((n - i + 1) + 1) * Token = (n - i + 1) * Token + 1 * Token
        BY <1>1, <3>1, Distributes
      <4> QED  BY <1>1, <4>1, <4>2
    <3>4. (n - i + 1) * Token \in Int
      <4>1. n - i + 1 \in Int  BY <1>1, <3>1
      <4>2. Token \in Int  BY <1>1
      <4> QED  BY <4>1, <4>2, ProductInt
    <3>5. Allowance(l, times[i], now) \in Int
      BY <1>1, <3>1, <3>old, AllowanceInt
    <3>6. (n - i + 1) * Token + Token + (l.tokens - Token)
              <= Allowance(l, times[i], now)
      <4>1. \A a, b, c, d \in Int : a + b <= d => a + c + (b - c) <= d
        OBVIOUS
      <4>2. l.tokens \in Int /\ Token \in Int  BY <1>1
      <4> QED  BY <3>2, <3>4, <3>5, <4>1, <4>2
    <3>7. longer[i] = times[i]
      BY <1>3, <3>1
    <3> QED  BY <1>2, <3>3, <3>6, <3>7
  <2> QED  BY <2>1, <2>2
<1>8. \A i, j \in DOMAIN longer :
          i <= j => (j - i + 1) * Token <= Allowance(l, longer[i], longer[j])
  <2> SUFFICES ASSUME NEW i \in DOMAIN longer, NEW j \in DOMAIN longer, i <= j
               PROVE  (j - i + 1) * Token <= Allowance(l, longer[i], longer[j])
    OBVIOUS
  <2>1. CASE j = n + 1
    <3>1. ((n + 1) - i + 1) * Token + m.tokens <= Allowance(l, longer[i], now)
      BY <1>7
    <3>2. i \in Int /\ longer[i] \in Nat
      BY <1>3, <1>4
    <3>3. ((n + 1) - i + 1) * Token \in Int
      <4>1. (n + 1) - i + 1 \in Int  BY <1>1, <3>2
      <4>2. Token \in Int  BY <1>1
      <4> QED  BY <4>1, <4>2, ProductInt
    <3>4. Allowance(l, longer[i], now) \in Int
      BY <1>1, <3>2, AllowanceInt
    <3>5. ((n + 1) - i + 1) * Token <= Allowance(l, longer[i], now)
      <4>1. \A a, d \in Int, b \in Nat : a + b <= d => a <= d
        OBVIOUS
      <4> QED  BY <1>2, <3>1, <3>3, <3>4, <4>1
    <3> QED  BY <1>3, <2>1, <3>5
  <2>2. CASE j # n + 1
    <3>1. i # n + 1
      <4>1. n \in Nat /\ DOMAIN longer = 1 .. n + 1  BY <1>1, <1>3
      <4> QED  BY ONLY <4>1, <2>2, i <= j, i \in DOMAIN longer, j \in DOMAIN longer
    <3>2. i \in DOMAIN times /\ j \in DOMAIN times
      BY ONLY <1>old, <2>2, <3>1, i \in DOMAIN longer, j \in DOMAIN longer
    <3> QED  BY <1>3, <3>2 DEF Account
  <2> QED  BY <2>1, <2>2
<1>9. m.tokens <= m.maxBurst * Token
  BY <1>1, <1>2
<1>10. Account(m, longer)
  BY <1>2, <1>3, <1>4, <1>5, <1>7, <1>8, <1>9 DEF Account
<1> QED  BY <1>10 DEF m, longer

----------------------------------------------------------------------------
(* The limiters of all symbols *)

\* The account survives the passing of time.
LEMMA TimeKeeps ==
  ASSUME BucketInv, Tick
  PROVE  BucketInv'
<1>1. /\ now \in Nat /\ now' = now + 1
      /\ limiters' = limiters /\ accepted' = accepted /\ rejected' = rejected
  BY DEF BucketInv, TypeOK, Tick
<1>2. TypeOK'
  BY <1>1 DEF BucketInv, TypeOK
<1>3. ASSUME NEW s \in Symbols, limiters[s] # NoLimiter
      PROVE  Account(limiters[s], accepted[s])'
  <2>1. Account(limiters[s], accepted[s])
    BY <1>3 DEF BucketInv
  <2>2. limiters[s].lastRefill \in Nat
    BY <2>1 DEF Account, Limiter
  <2>3. limiters[s].lastRefill <= now'
    <3>1. limiters[s].lastRefill <= now  BY <2>1 DEF Account
    <3> QED  BY <1>1, <2>2, <3>1
  <2> QED  BY <1>1, <2>1, <2>3 DEF Account, Allowance
<1>4. \A s \in Symbols : limiters[s] = NoLimiter => accepted[s] = << >>
  BY DEF BucketInv
<1> QED  BY <1>1, <1>2, <1>3, <1>4 DEF BucketInv

\* A new limiter, with no order accepted yet.
LEMMA NewLimiterAccounts ==
  ASSUME now \in Nat, NEW burst \in Nat, NEW rate \in Nat
  PROVE  Account(NewLimiter(burst, rate), << >>)
<1> DEFINE l == NewLimiter(burst, rate)
<1>1. burst * Token \in Nat
  BY RateAssumption, ProductNat DEF Token
<1>2. /\ l \in Limiter /\ l.lastRefill = now
      /\ l.tokens = burst * Token /\ l.maxBurst = burst
  BY <1>1 DEF NewLimiter, Limiter
<1>3. << >> \in Seq(Nat) /\ DOMAIN << >> = {}
  OBVIOUS
<1> HIDE DEF l
<1>4. l.lastRefill <= now /\ l.tokens <= l.maxBurst * Token
  BY <1>1, <1>2
<1>5. Account(l, << >>)
  BY <1>2, <1>3, <1>4 DEF Account
<1> QED  BY <1>5 DEF l

\* The limiter tryAcceptOrder uses is in account, old or new.
LEMMA LimiterOfAccounts ==
  ASSUME BucketInv, NEW s \in Symbols
  PROVE  Account(LimiterOf(s), accepted[s])
<1>1. now \in Nat
  BY DEF BucketInv, TypeOK
<1>2. CASE limiters[s] = NoLimiter
  <2>1. accepted[s] = << >> /\ LimiterOf(s) = NewLimiter(DefaultBurst, DefaultRate)
    BY <1>2 DEF BucketInv, LimiterOf
  <2>2. DefaultBurst \in Nat /\ DefaultRate \in Nat
    BY RateAssumption
  <2> QED  BY <1>1, <2>1, <2>2, NewLimiterAccounts
<1>3. CASE limiters[s] # NoLimiter
  BY <1>3 DEF BucketInv, LimiterOf
<1> QED  BY <1>2, <1>3

\* One symbol's limiter and its orders change, and stay in account.
LEMMA SymbolKeeps ==
  ASSUME BucketInv, NEW s \in Symbols, NEW l, NEW times, NEW k \in Nat,
         Account(l, times), now' = now,
         limiters' = [limiters EXCEPT ![s] = l],
         accepted' = [accepted EXCEPT ![s] = times],
         rejected' = [rejected EXCEPT ![s] = k]
  PROVE  BucketInv'
<1>1. l \in Limiter /\ times \in Seq(Nat)
  BY DEF Account
<1>2. TypeOK'
  BY <1>1 DEF BucketInv, TypeOK
<1>3. ASSUME NEW t \in Symbols
      PROVE  IF limiters'[t] = NoLimiter THEN accepted'[t] = << >>
             ELSE Account(limiters'[t], accepted'[t])
  <2>1. CASE t = s
    <3>1. limiters'[t] = l /\ accepted'[t] = times
      BY <2>1 DEF BucketInv, TypeOK
    <3> QED  BY <1>1, <3>1, LimiterIsOne
  <2>2. CASE t # s
    <3>1. limiters'[t] = limiters[t] /\ accepted'[t] = accepted[t]
      BY <2>2 DEF BucketInv, TypeOK
    <3> QED  BY <3>1 DEF BucketInv
  <2> QED  BY <2>1, <2>2
<1>4. ASSUME NEW t \in Symbols, Account(limiters'[t], accepted'[t])
      PROVE  Account(limiters[t], accepted[t])'
  BY <1>4 DEF Account, Allowance
<1> QED  BY <1>2, <1>3, <1>4 DEF BucketInv

LEMMA AddSymbolKeeps ==
  ASSUME BucketInv, NEW s \in Symbols, NEW r \in Rates, NEW b \in Bursts,
         AddSymbol(s, r, b)
  PROVE  BucketInv'
<1>1. now \in Nat /\ r \in Nat /\ b \in Nat
  BY RateAssumption DEF BucketInv, TypeOK
<1>2. Account(NewLimiter(b, r), accepted[s])
  <2>1. accepted[s] = << >>  BY DEF AddSymbol, BucketInv
  <2> QED  BY <1>1, <2>1, NewLimiterAccounts
<1>3. /\ now' = now /\ limiters' = [limiters EXCEPT ![s] = NewLimiter(b, r)]
      /\ accepted' = [accepted EXCEPT ![s] = accepted[s]]
      /\ rejected' = [rejected EXCEPT ![s] = rejected[s]]
      /\ rejected[s] \in Nat
  BY DEF AddSymbol, BucketInv, TypeOK
<1> QED  BY <1>2, <1>3, SymbolKeeps

LEMMA AcceptKeeps ==
  ASSUME BucketInv, NEW s \in Symbols, Accept(s)
  PROVE  BucketInv'
<1> DEFINE l == Refilled(LimiterOf(s))
           m == [l EXCEPT !.tokens = @ - Token]
<1>1. now \in Nat
  BY DEF BucketInv, TypeOK
<1>2. Account(l, accepted[s]) /\ l.lastRefill = now
  BY <1>1, LimiterOfAccounts, RefillKeeps
<1>3. /\ l.tokens >= Token /\ now' = now
      /\ limiters' = [limiters EXCEPT ![s] = m]
      /\ accepted' = [accepted EXCEPT ![s] = Append(accepted[s], now)]
      /\ rejected' = [rejected EXCEPT ![s] = rejected[s]]
      /\ rejected[s] \in Nat
  BY DEF Accept, BucketInv, TypeOK
<1> HIDE DEF l
<1>4. Account(m, Append(accepted[s], now))
  BY <1>1, <1>2, <1>3, ConsumeKeeps
<1> HIDE DEF m
<1> QED  BY <1>3, <1>4, SymbolKeeps

LEMMA RejectKeeps ==
  ASSUME BucketInv, NEW s \in Symbols, Reject(s)
  PROVE  BucketInv'
<1> DEFINE l == Refilled(LimiterOf(s))
<1>1. now \in Nat
  BY DEF BucketInv, TypeOK
<1>2. Account(l, accepted[s])
  BY <1>1, LimiterOfAccounts, RefillKeeps
<1>3. /\ now' = now
      /\ limiters' = [limiters EXCEPT ![s] = l]
      /\ accepted' = [accepted EXCEPT ![s] = accepted[s]]
      /\ rejected' = [rejected EXCEPT ![s] = rejected[s] + 1]
      /\ rejected[s] + 1 \in Nat
  BY DEF Reject, BucketInv, TypeOK
<1> HIDE DEF l
<1> QED  BY <1>2, <1>3, SymbolKeeps

\* Every step keeps every limiter in account.
LEMMA BucketInvariant == Spec => []BucketInv
<1>1. Init => BucketInv
  <2>1. ASSUME Init PROVE BucketInv
    <3>1. now = 0 /\ TypeOK
      BY <2>1 DEF Init, TypeOK, NoLimiter
    <3>2. \A s \in Symbols : limiters[s] = NoLimiter /\ accepted[s] = << >>
      BY <2>1 DEF Init
    <3> QED  BY <3>1, <3>2 DEF BucketInv
  <2> QED  BY <2>1
<1>2. BucketInv /\ [Next]_vars => BucketInv'
  <2> SUFFICES ASSUME BucketInv, [Next]_vars PROVE BucketInv'
    OBVIOUS
  <2>1. ASSUME NEW s \in Symbols, NEW r \in Rates, NEW b \in Bursts,
               AddSymbol(s, r, b)
        PROVE  BucketInv'
    BY <2>1, AddSymbolKeeps
  <2>2. ASSUME NEW s \in Symbols, TryAcceptOrder(s)
        PROVE  BucketInv'
    BY <2>2, AcceptKeeps, RejectKeeps DEF TryAcceptOrder
  <2>3. CASE Tick
    BY <2>3, TimeKeeps
  <2>4. CASE UNCHANGED vars
    BY <2>4 DEF vars, BucketInv, TypeOK, Account, Allowance
  <2> QED  BY <2>1, <2>2, <2>3, <2>4 DEF Next
<1> QED  BY <1>1, <1>2, PTL DEF Spec

\* The token counts stay whole, between nothing and the burst, and the times
\* and counters are what they are declared to be.
THEOREM TypeCorrect == Spec => []TypeOK
<1>1. BucketInv => TypeOK  BY DEF BucketInv
<1> QED  BY <1>1, BucketInvariant, PTL

\* The bound tryAcceptOrder puts on the orders of a symbol: between any two
\* accepted orders, however far apart, there are no more than one burst and
\* what the rate gives over that time.
THEOREM RateBound == Spec => []WindowBound
<1>1. BucketInv => WindowBound
  <2> SUFFICES ASSUME BucketInv, NEW s \in Symbols,
                      NEW i \in DOMAIN accepted[s], NEW j \in DOMAIN accepted[s],
                      i <= j
               PROVE  (j - i + 1) * Token
                        <= Allowance(limiters[s], accepted[s][i], accepted[s][j])
    BY DEF WindowBound
  <2>1. limiters[s] # NoLimiter
    <3>1. DOMAIN << >> = {}  OBVIOUS
    <3> QED  BY <3>1 DEF BucketInv
  <2>2. Account(limiters[s], accepted[s])
    BY <2>1 DEF BucketInv
  <2> QED  BY <2>2 DEF Account
<1> QED  BY <1>1, BucketInvariant, PTL

----------------------------------------------------------------------------
(* Nothing is lost *)

\* What l refuses is too much: the bucket is full, or since some accepted order
\* what it allows is exactly the orders accepted and the tokens left.
Exact(l, times) ==
    \/ l.tokens = l.maxBurst * Token
    \/ \E i \in DOMAIN times :
          (Len(times) - i + 1) * Token + l.tokens = Allowance(l, times[i], l.lastRefill)

\* The inductive invariant behind RejectsOnlyExcess.
ExactInv == \A s \in Symbols : limiters[s] # NoLimiter => Exact(limiters[s], accepted[s])

\* Only the cap makes tokens disappear, and leaves a full bucket.
LEMMA RefillExact ==
  ASSUME now \in Nat, NEW l, NEW times, Account(l, times), Exact(l, times)
  PROVE  Exact(Refilled(l), times)
<1> DEFINE m == Refilled(l)
           fresh == (now - l.lastRefill) * l.tokensPerSec
<1>1. /\ l \in Limiter /\ times \in Seq(Nat) /\ l.lastRefill <= now
      /\ l.tokens \in Nat /\ l.lastRefill \in Nat /\ l.tokensPerSec \in Nat
      /\ l.maxBurst * Token \in Nat /\ Token \in Nat
  BY RateAssumption, ProductNat DEF Account, Limiter, Token
<1>2. fresh \in Nat
  <2>1. now - l.lastRefill \in Nat  BY <1>1
  <2> QED  BY <1>1, <2>1, ProductNat
<1>3. /\ m.lastRefill = now /\ m.maxBurst = l.maxBurst
      /\ m.tokensPerSec = l.tokensPerSec
      /\ m.tokens = Smaller(l.maxBurst * Token, l.tokens + fresh)
  BY <1>1 DEF Refilled, Limiter
<1> HIDE DEF m
<1>4. CASE l.tokens + fresh >= l.maxBurst * Token
  <2>1. Smaller(l.maxBurst * Token, l.tokens + fresh) = l.maxBurst * Token
    <3> HIDE DEF fresh
    <3> QED  BY <1>1, <1>2, <1>4 DEF Smaller
  <2> QED  BY <1>3, <2>1 DEF Exact, m
<1>5. CASE l.tokens + fresh < l.maxBurst * Token
  <2>1. m.tokens = l.tokens + fresh /\ l.tokens # l.maxBurst * Token
    <3> HIDE DEF fresh
    <3> QED  BY <1>1, <1>2, <1>3, <1>5 DEF Smaller
  <2>2. PICK i \in DOMAIN times :
           (Len(times) - i + 1) * Token + l.tokens = Allowance(l, times[i], l.lastRefill)
    BY <2>1 DEF Exact
  <2>3. times[i] \in Nat /\ i \in Nat /\ Len(times) \in Nat
    BY <1>1
  <2>4. Allowance(m, times[i], now) = Allowance(l, times[i], l.lastRefill) + fresh
    <3>1. Allowance(m, times[i], now) = Allowance(l, times[i], now)
      BY <1>3 DEF Allowance
    <3> QED  BY <1>1, <2>3, <3>1, AllowanceGrows
  <2>5. (Len(times) - i + 1) * Token \in Int
    <3>1. Len(times) - i + 1 \in Int /\ Token \in Int  BY <1>1, <2>3
    <3> QED  BY <3>1, ProductInt
  <2> HIDE DEF fresh
  <2>6. \A a, d \in Int, b, f \in Nat : a + b = d => a + (b + f) = d + f
    OBVIOUS
  <2>7. Allowance(l, times[i], l.lastRefill) \in Int
    BY <1>1, <2>3, AllowanceInt
  <2>8. (Len(times) - i + 1) * Token + m.tokens = Allowance(m, times[i], now)
    <3> DEFINE room == (Len(times) - i + 1) * Token
               allowed == Allowance(l, times[i], l.lastRefill)
    <3>1. room \in Int /\ allowed \in Int /\ l.tokens \in Nat /\ room + l.tokens = allowed
      BY <1>1, <2>2, <2>5, <2>7
    <3>2. m.tokens = l.tokens + fresh /\ Allowance(m, times[i], now) = allowed + fresh
      BY <2>1, <2>4
    <3> HIDE DEF room, allowed
    <3>3. room + (l.tokens + fresh) = allowed + fresh
      BY ONLY <1>2, <2>6, <3>1
    <3>4. room + m.tokens = Allowance(m, times[i], now)
      BY ONLY <3>2, <3>3
    <3> QED  BY <3>4 DEF room
  <2> QED  BY <1>3, <2>8 DEF Exact, m
<1> QED
  <2> HIDE DEF fresh
  <2> QED  BY <1>1, <1>2, <1>4, <1>5

\* A token taken is an order more: from a full bucket, the first since it was.
LEMMA ConsumeExact ==
  ASSUME now \in Nat, NEW l, NEW times, Account(l, times), Exact(l, times),
         l.lastRefill = now, l.tokens >= Token
  PROVE  Exact([l EXCEPT !.tokens = @ - Token], Append(times, now))
<1> DEFINE m == [l EXCEPT !.tokens = @ - Token]
           longer == Append(times, now)
           n == Len(times)
<1>1. /\ l \in Limiter /\ times \in Seq(Nat) /\ n \in Nat
      /\ l.tokens \in Nat /\ l.tokensPerSec \in Nat
      /\ l.maxBurst * Token \in Nat /\ Token \in Nat
  BY RateAssumption, ProductNat DEF Account, Limiter, Token
<1>2. /\ m.lastRefill = now /\ m.maxBurst = l.maxBurst
      /\ m.tokensPerSec = l.tokensPerSec /\ m.tokens = l.tokens - Token
  <2>1. l \in Limiter  BY <1>1
  <2> QED  BY <2>1 DEF Limiter
<1>3. /\ Len(longer) = n + 1 /\ DOMAIN longer = 1 .. n + 1 /\ longer[n + 1] = now
      /\ \A i \in DOMAIN times : i \in 1 .. n /\ longer[i] = times[i]
  BY <1>1, SMTT(30)
<1> HIDE DEF m, longer, n
<1>4. ASSUME l.tokens = l.maxBurst * Token PROVE Exact(m, longer)
  <2>1. n + 1 \in DOMAIN longer
    BY <1>1, <1>3
  <2>2. Allowance(m, longer[n + 1], m.lastRefill) = l.maxBurst * Token
    <3>1. now - now = 0  OBVIOUS
    <3>2. l.tokensPerSec * 0 = 0  BY <1>1
    <3> QED  BY <1>1, <1>2, <1>3, <3>1, <3>2 DEF Allowance
  <2>3. (Len(longer) - (n + 1) + 1) * Token = Token
    <3>1. Len(longer) - (n + 1) + 1 = 1  BY <1>1, <1>3
    <3>2. 1 * Token = Token  BY <1>1
    <3> QED  BY <3>1, <3>2
  <2>4. Token + m.tokens = l.maxBurst * Token
    BY <1>1, <1>2, <1>4
  <2>5. (Len(longer) - (n + 1) + 1) * Token + m.tokens
            = Allowance(m, longer[n + 1], m.lastRefill)
    BY <2>2, <2>3, <2>4
  <2> QED  BY <2>1, <2>5 DEF Exact
<1>5. ASSUME l.tokens # l.maxBurst * Token PROVE Exact(m, longer)
  <2>1. PICK i \in DOMAIN times :
           (n - i + 1) * Token + l.tokens = Allowance(l, times[i], now)
    BY <1>5 DEF Exact, n
  <2>2. i \in 1 .. n /\ i \in DOMAIN longer /\ longer[i] = times[i] /\ i \in Nat
    BY <1>1, <1>3
  <2>3. (Len(longer) - i + 1) * Token = (n - i + 1) * Token + Token
    <3>1. Len(longer) - i + 1 = (n - i + 1) + 1 /\ n - i + 1 \in Int /\ Token \in Int
      BY <1>1, <1>3, <2>2
    <3>2. ((n - i + 1) + 1) * Token = (n - i + 1) * Token + 1 * Token
      <4>1. \A a, k \in Int : (a + 1) * k = a * k + 1 * k
        BY Distributes
      <4> QED  BY ONLY <3>1, <4>1
    <3>3. 1 * Token = Token  BY <1>1
    <3> QED  BY <3>1, <3>2, <3>3
  <2>4. (n - i + 1) * Token \in Int
    <3>1. n - i + 1 \in Int /\ Token \in Int  BY <1>1, <2>2
    <3> QED  BY <3>1, ProductInt
  <2>5. \A a \in Int, b, c \in Nat : (a + c) + (b - c) = a + b
    OBVIOUS
  <2>6. (Len(longer) - i + 1) * Token + m.tokens = (n - i + 1) * Token + l.tokens
    <3> DEFINE x == (n - i + 1) * Token
    <3>1. x \in Int /\ (Len(longer) - i + 1) * Token = x + Token
      BY <2>3, <2>4
    <3> HIDE DEF x
    <3>2. (x + Token) + m.tokens = x + l.tokens
      BY <1>1, <1>2, <2>5, <3>1
    <3> QED  BY <3>1, <3>2 DEF x
  <2>7. Allowance(m, longer[i], m.lastRefill) = Allowance(l, times[i], now)
    BY <1>2, <2>2 DEF Allowance
  <2> QED  BY <2>1, <2>2, <2>6, <2>7 DEF Exact
<1> QED  BY <1>4, <1>5 DEF m, longer

\* What tryAcceptOrder looks at, after the refill, is exact.
LEMMA LimiterOfExact ==
  ASSUME BucketInv, ExactInv, NEW s \in Symbols
  PROVE  Exact(Refilled(LimiterOf(s)), accepted[s])
<1>1. now \in Nat /\ Account(LimiterOf(s), accepted[s])
  BY LimiterOfAccounts DEF BucketInv, TypeOK
<1>2. Exact(LimiterOf(s), accepted[s])
  BY DEF ExactInv, LimiterOf, NewLimiter, Exact
<1> QED  BY <1>1, <1>2, RefillExact

\* Every step leaves every limiter exact.
LEMMA ExactStep ==
  ASSUME BucketInv, ExactInv, [Next]_vars
  PROVE  ExactInv'
<1>0. limiters \in [Symbols -> {NoLimiter} \cup Limiter] /\ accepted \in [Symbols -> Seq(Nat)]
  BY DEF BucketInv, TypeOK
<1>1. ASSUME NEW s \in Symbols, NEW l, NEW times, Exact(l, times),
             limiters' = [limiters EXCEPT ![s] = l],
             accepted' = [accepted EXCEPT ![s] = times]
      PROVE  ExactInv'
  <2> SUFFICES ASSUME NEW q \in Symbols, limiters'[q] # NoLimiter
               PROVE  Exact(limiters'[q], accepted'[q])
    BY DEF ExactInv, Exact, Allowance
  <2>1. CASE q = s
    BY <1>0, <1>1, <2>1
  <2>2. CASE q # s
    BY <1>0, <1>1, <2>2 DEF ExactInv
  <2> QED  BY <2>1, <2>2
<1>2. ASSUME NEW s \in Symbols, NEW r \in Rates, NEW b \in Bursts, AddSymbol(s, r, b)
      PROVE  ExactInv'
  <2>1. Exact(NewLimiter(b, r), accepted[s])
    BY DEF NewLimiter, Exact
  <2>2. /\ limiters' = [limiters EXCEPT ![s] = NewLimiter(b, r)]
        /\ accepted' = [accepted EXCEPT ![s] = accepted[s]]
    BY <1>0, <1>2 DEF AddSymbol
  <2> QED  BY <1>1, <2>1, <2>2
<1>3. ASSUME NEW s \in Symbols, Accept(s)
      PROVE  ExactInv'
  <2> DEFINE l == Refilled(LimiterOf(s))
  <2>1. now \in Nat /\ Account(l, accepted[s]) /\ l.lastRefill = now
    BY LimiterOfAccounts, RefillKeeps DEF BucketInv, TypeOK
  <2>2. Exact(l, accepted[s])
    BY LimiterOfExact
  <2>3. /\ l.tokens >= Token
        /\ limiters' = [limiters EXCEPT ![s] = [l EXCEPT !.tokens = @ - Token]]
        /\ accepted' = [accepted EXCEPT ![s] = Append(accepted[s], now)]
    BY <1>0, <1>3 DEF Accept
  <2> HIDE DEF l
  <2>4. Exact([l EXCEPT !.tokens = @ - Token], Append(accepted[s], now))
    BY <2>1, <2>2, <2>3, ConsumeExact
  <2> QED  BY <1>1, <2>3, <2>4
<1>4. ASSUME NEW s \in Symbols, Reject(s)
      PROVE  ExactInv'
  <2> DEFINE l == Refilled(LimiterOf(s))
  <2>1. Exact(l, accepted[s])
    BY LimiterOfExact
  <2>2. /\ limiters' = [limiters EXCEPT ![s] = l]
        /\ accepted' = [accepted EXCEPT ![s] = accepted[s]]
    BY <1>0, <1>4 DEF Reject
  <2> HIDE DEF l
  <2> QED  BY <1>1, <2>1, <2>2
<1>5. CASE Tick \/ UNCHANGED vars
  BY <1>5 DEF Tick, vars, ExactInv, Exact, Allowance
<1> QED  BY <1>2, <1>3, <1>4, <1>5 DEF Next, TryAcceptOrder

\* A rejection of an exact limiter: one order more would break its bound.
LEMMA RejectionIsExcess ==
  ASSUME BucketInv, ExactInv, NEW s \in Symbols, Reject(s)
  PROVE  \/ limiters'[s].maxBurst = 0
         \/ \E i \in DOMAIN accepted[s] :
               (Len(accepted[s]) - i + 2) * Token
                 > Allowance(limiters'[s], accepted[s][i], now)
<1> DEFINE l == Refilled(LimiterOf(s))
           times == accepted[s]
           n == Len(times)
<1>1. /\ now \in Nat /\ Account(l, times) /\ l.lastRefill = now /\ Exact(l, times)
      /\ limiters \in [Symbols -> {NoLimiter} \cup Limiter]
  BY LimiterOfAccounts, LimiterOfExact, RefillKeeps DEF BucketInv, TypeOK
<1>2. limiters'[s] = l /\ l.tokens < Token
  BY <1>1 DEF Reject
<1> HIDE DEF l
<1>3. /\ l \in Limiter /\ times \in Seq(Nat) /\ n \in Nat
      /\ l.tokens \in Nat /\ l.maxBurst \in Nat /\ Token \in Nat
  BY <1>1, RateAssumption DEF Account, Limiter, Token
<1>4. CASE l.tokens = l.maxBurst * Token
  <2>1. ASSUME l.maxBurst # 0 PROVE FALSE
    <3>1. PICK k \in Nat : l.maxBurst = k + 1
      <4>1. l.maxBurst - 1 \in Nat /\ l.maxBurst = (l.maxBurst - 1) + 1
        BY <1>3, <2>1
      <4> QED  BY <4>1
    <3>2. (k + 1) * Token = k * Token + 1 * Token
      BY <1>3, Distributes
    <3>3. k * Token \in Nat /\ 1 * Token = Token
      BY <1>3, ProductNat
    <3> QED  BY <1>2, <1>3, <1>4, <3>1, <3>2, <3>3
  <2> QED  BY <1>2, <2>1
<1>5. CASE l.tokens # l.maxBurst * Token
  <2>1. PICK i \in DOMAIN times :
           (n - i + 1) * Token + l.tokens = Allowance(l, times[i], now)
    BY <1>1, <1>5 DEF Exact
  <2>2. i \in Nat
    BY <1>3
  <2>3. (n - i + 2) * Token = (n - i + 1) * Token + Token
    <3>1. n - i + 2 = (n - i + 1) + 1 /\ n - i + 1 \in Int /\ Token \in Int
      BY <1>3, <2>2
    <3>2. \A a, k \in Int : (a + 1) * k = a * k + 1 * k
      BY Distributes
    <3>3. 1 * Token = Token  BY <1>3
    <3> QED  BY ONLY <3>1, <3>2, <3>3
  <2>4. (n - i + 1) * Token \in Int
    <3>1. n - i + 1 \in Int /\ Token \in Int  BY <1>3, <2>2
    <3> QED  BY <3>1, ProductInt
  <2>5. \A a \in Int, b, c \in Nat : b < c => a + c > a + b
    OBVIOUS
  <2>6. (n - i + 2) * Token > Allowance(l, times[i], now)
    BY <1>2, <1>3, <2>1, <2>3, <2>4, <2>5
  <2> QED  BY <1>2, <2>6
<1> QED  BY <1>4, <1>5

\* tryAcceptOrder rejects only an order that would break the bound of RateBound:
\* neither the cap nor the fractions of tokens lose anything.
THEOREM NothingLost == Spec => RejectsOnlyExcess
<1> DEFINE OnlyExcess == \A s \in Symbols : rejected'[s] > rejected[s] =>
                            \/ limiters'[s].maxBurst = 0
                            \/ \E i \in DOMAIN accepted[s] :
                                  (Len(accepted[s]) - i + 2) * Token
                                    > Allowance(limiters'[s], accepted[s][i], now)
<1>1. Init => ExactInv
  BY DEF Init, ExactInv
<1>2. BucketInv /\ ExactInv /\ [Next]_vars => ExactInv'
  BY ExactStep
<1>3. BucketInv /\ ExactInv /\ [Next]_vars => [OnlyExcess]_vars
  <2> SUFFICES ASSUME BucketInv, ExactInv, Next, NEW s \in Symbols,
                      rejected'[s] > rejected[s]
               PROVE  \/ limiters'[s].maxBurst = 0
                      \/ \E i \in DOMAIN accepted[s] :
                            (Len(accepted[s]) - i + 2) * Token
                              > Allowance(limiters'[s], accepted[s][i], now)
    OBVIOUS
  <2>1. rejected \in [Symbols -> Nat] /\ rejected'[s] # rejected[s]
    BY DEF BucketInv, TypeOK
  <2>2. PICK q \in Symbols : Reject(q)
    BY <2>1 DEF Next, AddSymbol, TryAcceptOrder, Accept, Tick
  <2>3. q = s
    BY <2>1, <2>2 DEF Reject
  <2> QED  BY <2>2, <2>3, RejectionIsExcess
<1>4. RejectsOnlyExcess <=> [][OnlyExcess]_vars
  BY DEF RejectsOnlyExcess
<1> QED  BY <1>1, <1>2, <1>3, <1>4, BucketInvariant, PTL DEF Spec

=============================================================================
