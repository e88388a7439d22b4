------------------------ MODULE ReconnectLoopProofs -------------------------
(***************************************************************************)
(* The reconnect loop keeps its delay between the first and the longest     *)
(* one and its retry count inside a u32, for every configuration: zero      *)
(* delays, a maximum below the first delay, limited and unlimited retries.  *)
(* The delay follows the retries, BackoffFollowsRetries: a recursion over   *)
(* an interval has a value, LeastNumber and RecursionExists, so the powers  *)
(* of the envelope obey their equations, and a failed attempt multiplies    *)
(* what the envelope multiplies.                                            *)
(***************************************************************************)
EXTENDS ReconnectLoop, NaturalsInduction, WellFoundedInduction, TLAPS

\* Duration::min / max of two numbers.
LEMMA OfTwo ==
    ASSUME NEW a \in Int, NEW b \in Int
    PROVE  /\ Min({a, b}) \in {a, b} /\ Min({a, b}) <= a /\ Min({a, b}) <= b
           /\ Max({a, b}) \in {a, b} /\ Max({a, b}) >= a /\ Max({a, b}) >= b
<1>1. \E x \in {a, b} : \A y \in {a, b} : x <= y
  OBVIOUS
<1>2. \E x \in {a, b} : \A y \in {a, b} : x >= y
  OBVIOUS
<1>3. Min({a, b}) \in {a, b} /\ \A y \in {a, b} : Min({a, b}) <= y
  BY <1>1 DEF Min
<1>4. Max({a, b}) \in {a, b} /\ \A y \in {a, b} : Max({a, b}) >= y
  BY <1>2 DEF Max
<1> QED BY <1>3, <1>4

\* normalized(): the first delay is positive and the longest is no shorter.
LEMMA DelayFacts ==
    FirstDelay \in Nat \ {0} /\ LongestDelay \in Nat /\ FirstDelay <= LongestDelay
<1>1. FirstDelay \in Nat \ {0}
  BY ReconnectAssumption DEF FirstDelay
<1>2. MaxDelay \in Nat
  BY ReconnectAssumption
<1> QED BY <1>1, <1>2, OfTwo DEF LongestDelay

\* next_backoff_delay never shrinks the delay and never passes the maximum.
LEMMA NextDelayBounds ==
    ASSUME NEW d \in FirstDelay..LongestDelay, NEW n \in NextDelays(d)
    PROVE  n \in d..LongestDelay
<1>1. d \in Nat /\ LongestDelay \in Nat /\ d <= LongestDelay
  BY DelayFacts
<1>2. PICK j \in 0..d : n = Min({2 * d + j, LongestDelay})
  BY DEF NextDelays
<1> DEFINE b == 2 * d + j
<1>3. b \in Int /\ d <= b
  BY <1>1
<1>4. n = Min({b, LongestDelay})
  BY <1>2
<1> HIDE DEF b
<1>5. LongestDelay \in Int
  BY <1>1
<1>6. Min({b, LongestDelay}) \in {b, LongestDelay} /\ Min({b, LongestDelay}) <= LongestDelay
  BY <1>3, <1>5, OfTwo
<1> QED BY <1>1, <1>3, <1>4, <1>6

LEMMA LoopTypeInit == LoopInit => LoopTypeOK
<1>1. 0 \in 0..MaxU32 /\ FirstDelay \in FirstDelay..LongestDelay
  BY DelayFacts, ReconnectAssumption
<1> QED BY <1>1 DEF LoopInit, LoopTypeOK

LEMMA LoopTypeStep == LoopTypeOK /\ [LoopNext]_loopVars => LoopTypeOK'
<1> SUFFICES ASSUME LoopTypeOK, [LoopNext]_loopVars PROVE LoopTypeOK'
  OBVIOUS
<1>1. CASE Configure BY <1>1 DEF Configure, LoopTypeOK
<1>2. CASE Opened BY <1>2 DEF Opened, LoopTypeOK
<1>3. CASE GracePasses BY <1>3 DEF GracePasses, LoopTypeOK
<1>4. CASE Wake BY <1>4 DEF Wake, LoopTypeOK
<1>5. ASSUME NEW kind, AttemptFails(kind) PROVE LoopTypeOK'
  <2>1. CASE FatalFailure(kind)
    BY <2>1 DEF FatalFailure, LoopTypeOK
  <2>2. CASE FailureAfterGrace(kind)
    <3>1. 0 \in 0..MaxU32 /\ FirstDelay \in FirstDelay..LongestDelay
      BY DelayFacts, ReconnectAssumption
    <3> QED BY <2>2, <3>1 DEF FailureAfterGrace, LoopTypeOK
  <2>3. CASE QuickFailure(kind)
    <3>1. retries \in Nat /\ MaxU32 \in Nat
      BY ReconnectAssumption DEF LoopTypeOK
    <3>2. NextRetry(retries) \in 0..MaxU32
      <4>1. /\ Min({retries + 1, MaxU32}) \in {retries + 1, MaxU32}
            /\ Min({retries + 1, MaxU32}) <= MaxU32
        BY <3>1, OfTwo
      <4> QED BY <3>1, <4>1 DEF NextRetry
    <3>3. delay' \in FirstDelay..LongestDelay
      <4>1. CASE delay' = delay BY <4>1 DEF LoopTypeOK
      <4>2. CASE delay' \in NextDelays(delay)
        <5>1. delay \in FirstDelay..LongestDelay BY DEF LoopTypeOK
        <5>2. delay' \in delay..LongestDelay BY <4>2, <5>1, NextDelayBounds
        <5> QED BY <5>1, <5>2, DelayFacts
      <4> QED BY <2>3, <4>1, <4>2 DEF QuickFailure
    <3> QED BY <2>3, <3>2, <3>3 DEF QuickFailure, LoopTypeOK
  <2> QED BY <1>5, <2>1, <2>2, <2>3 DEF AttemptFails
<1>6. CASE UNCHANGED loopVars BY <1>6 DEF loopVars, LoopTypeOK
<1> QED BY <1>1, <1>2, <1>3, <1>4, <1>5, <1>6 DEF LoopNext

\* live-recovery.md "Reconnect attempts use bounded backoff": whatever mix of
\* failures, the delay stays within the configured bounds.
THEOREM LoopTypeCorrect == LoopSpec => []LoopTypeOK
BY LoopTypeInit, LoopTypeStep, PTL DEF LoopSpec

-----------------------------------------------------------------------------
\* A set of numbers has a least one.
LEMMA LeastNumber ==
    ASSUME NEW S \in SUBSET Nat, S # {}
    PROVE  \E x \in S : \A y \in S : x <= y
<1>1. \E x \in S : \A y \in S : ~(<<y, x>> \in OpToRel(<, Nat))
  BY NatLessThanWellFounded, WFMin, Zenon
<1>2. ASSUME NEW x \in Nat, NEW y \in Nat
      PROVE  <<y, x>> \in OpToRel(<, Nat) <=> y < x
  BY DEF OpToRel
<1>3. PICK x \in S : \A y \in S : ~(<<y, x>> \in OpToRel(<, Nat))
  BY <1>1
<1>4. ASSUME NEW y \in S PROVE x <= y
  <2>1. x \in Nat /\ y \in Nat OBVIOUS
  <2>2. ~(y < x) BY <2>1, <1>2, <1>3
  <2> QED BY <2>1, <2>2
<1> QED BY <1>4

\* A recursion over an interval that starts with a value and goes on by steps
\* defines a function.
Solves(g, a, n, first, step) ==
    g[a] = first /\ \A k \in a..n : k # a => g[k] = step[<<k, g[k - 1]>>]

LEMMA RecursionExists ==
    ASSUME NEW a \in Nat, NEW n \in Nat, a <= n, NEW V, NEW first \in V,
           NEW step \in [Nat \X V -> V]
    PROVE  \E g \in [a..n -> V] : Solves(g, a, n, first, step)
<1> DEFINE S == {m \in a..n : ~ \E g \in [a..m -> V] : Solves(g, a, m, first, step)}
<1> SUFFICES ASSUME n \in S PROVE FALSE
  OBVIOUS
<1>1. S \in SUBSET Nat
  OBVIOUS
<1> HIDE DEF S
<1>2. PICK m \in S : \A y \in S : m <= y
  BY <1>1, LeastNumber
<1>3. m \in a..n /\ ~ \E g \in [a..m -> V] : Solves(g, a, m, first, step)
  BY <1>2 DEF S
<1>4. CASE m = a
  <2> DEFINE g == [k \in a..m |-> first]
  <2>1. g \in [a..m -> V] /\ Solves(g, a, m, first, step)
    BY <1>3, <1>4 DEF Solves
  <2> QED BY <1>3, <2>1
<1>5. CASE m # a
  <2>1. m - 1 \in a..n /\ m - 1 \notin S
    BY <1>2, <1>3, <1>5
  <2>2. PICK g \in [a..(m - 1) -> V] : Solves(g, a, m - 1, first, step)
    BY <2>1 DEF S
  <2> DEFINE h == [k \in a..m |-> IF k = m THEN step[<<m, g[m - 1]>>] ELSE g[k]]
  <2>3. h \in [a..m -> V]
    <3>1. g[m - 1] \in V /\ m \in Nat
      BY <1>3, <2>1
    <3>2. step[<<m, g[m - 1]>>] \in V
      BY <3>1
    <3>3. ASSUME NEW k \in a..m, k # m PROVE g[k] \in V
      <4>1. k \in a..(m - 1)
        BY <1>3, <3>3
      <4> QED BY <4>1
    <3> QED BY <3>2, <3>3
  <2>4. h[a] = first
    BY <1>3, <1>5, <2>2 DEF Solves
  <2>5. ASSUME NEW k \in a..m, k # a PROVE h[k] = step[<<k, h[k - 1]>>]
    <3>1. k \in a..m /\ k - 1 \in a..m /\ k - 1 # m
      BY <1>3, <2>5
    <3>2. h[k - 1] = g[k - 1]
      BY <3>1
    <3>3. CASE k = m
      BY <3>1, <3>2, <3>3
    <3>4. CASE k # m
      <4>1. k \in a..(m - 1)
        BY <1>3, <3>4
      <4> QED BY <2>2, <2>5, <3>1, <3>2, <3>4, <4>1 DEF Solves
    <3> QED BY <3>3, <3>4
  <2> HIDE DEF h
  <2>6. Solves(h, a, m, first, step)
    BY <2>4, <2>5 DEF Solves
  <2> QED BY <1>3, <2>3, <2>6
<1> QED BY <1>4, <1>5

\* The powers of a base.
LEMMA PowerFacts ==
    ASSUME NEW b \in Nat
    PROVE  /\ Power(b, 0) = 1
           /\ \A n \in 0..MaxU32 : Power(b, n) \in Nat
           /\ \A n \in 0..MaxU32 : n < MaxU32 => Power(b, n + 1) = b * Power(b, n)
<1> DEFINE Is(g) == g = [k \in 0..MaxU32 |-> IF k = 0 THEN 1 ELSE b * g[k - 1]]
           power == CHOOSE g : Is(g)
           step == [p \in Nat \X Nat |-> b * p[2]]
<1>0. MaxU32 \in Nat
  BY ReconnectAssumption
<1>1. PICK g \in [0..MaxU32 -> Nat] : Solves(g, 0, MaxU32, 1, step)
  <2>1. step \in [Nat \X Nat -> Nat] /\ 0 \in Nat /\ 0 <= MaxU32 /\ 1 \in Nat
    BY <1>0
  <2> HIDE DEF step, Is, power
  <2> QED BY <1>0, <2>1, RecursionExists
<1>2. \A k \in 1..MaxU32 : g[k] = b * g[k - 1]
  <2> SUFFICES ASSUME NEW k \in 1..MaxU32 PROVE g[k] = b * g[k - 1]
    OBVIOUS
  <2>1. k \in Nat /\ g[k - 1] \in Nat /\ k \in 0..MaxU32 /\ k # 0
    BY <1>0
  <2>2. step[<<k, g[k - 1]>>] = b * g[k - 1]
    BY <2>1
  <2> HIDE DEF step
  <2> QED BY <1>1, <2>1, <2>2 DEF Solves
<1>3. Is(g)
  <2> DEFINE h == [k \in 0..MaxU32 |-> IF k = 0 THEN 1 ELSE b * g[k - 1]]
  <2>1. \A k \in 0..MaxU32 : g[k] = h[k]
    BY <1>0, <1>1, <1>2 DEF Solves
  <2>2. DOMAIN g = DOMAIN h
    OBVIOUS
  <2> QED BY <2>1, <2>2
<1>4. Is(power)
  <2> HIDE DEF Is
  <2> QED BY <1>3
<1>5. \A n : Power(b, n) = power[n]
  BY DEF Power
<1> HIDE DEF power, step
<1>6. power[0] = 1 /\ \A k \in 1..MaxU32 : power[k] = b * power[k - 1]
  BY <1>0, <1>4
<1>7. \A n \in 0..MaxU32 : power[n] \in Nat
  <2> DEFINE S == {n \in 0..MaxU32 : power[n] \notin Nat}
  <2> SUFFICES ASSUME S # {} PROVE FALSE
    OBVIOUS
  <2>1. S \in SUBSET Nat
    OBVIOUS
  <2> HIDE DEF S
  <2>2. PICK n \in S : \A y \in S : n <= y
    BY <2>1, LeastNumber
  <2>3. n \in 0..MaxU32 /\ power[n] \notin Nat /\ n # 0
    BY <1>6, <2>2 DEF S
  <2>4. n - 1 \in 0..MaxU32 /\ n - 1 \notin S
    BY <1>0, <2>2, <2>3
  <2>5. power[n - 1] \in Nat
    BY <2>4 DEF S
  <2>6. power[n] = b * power[n - 1]
    BY <1>0, <1>6, <2>3
  <2> QED BY <2>3, <2>5, <2>6
<1>8. ASSUME NEW n \in 0..MaxU32, n < MaxU32 PROVE power[n + 1] = b * power[n]
  <2>1. n + 1 \in 1..MaxU32 /\ (n + 1) - 1 = n
    BY <1>0, <1>8
  <2> QED BY <1>6, <2>1
<1> QED BY <1>5, <1>6, <1>7, <1>8

\* A delay cut at the longest one.
Cut(v) == Min({v, LongestDelay})

LEMMA CutFacts ==
    ASSUME NEW v \in Nat
    PROVE  /\ Cut(v) \in Nat /\ Cut(v) <= v /\ Cut(v) <= LongestDelay
           /\ Cut(v) \in {v, LongestDelay}
<1>1. v \in Int /\ LongestDelay \in Nat
  BY DelayFacts
<1>2. /\ Min({v, LongestDelay}) \in {v, LongestDelay} /\ Min({v, LongestDelay}) <= v
      /\ Min({v, LongestDelay}) <= LongestDelay
  BY <1>1, OfTwo
<1> QED BY <1>1, <1>2 DEF Cut

\* One more quick failure: the delay is at least doubled, at most tripled, and cut.
LEMMA EnvelopeGrows ==
    ASSUME NEW x \in Nat, NEW y \in Nat, NEW d \in Nat, NEW n \in NextDelays(d),
           d >= Cut(x), d <= Cut(y)
    PROVE  n >= Cut(2 * x) /\ n <= Cut(3 * y)
<1>1. PICK j \in 0..d : n = Cut(2 * d + j)
  BY DEF NextDelays, Cut
<1>2. PICK a \in Nat, b \in Nat, c \in Nat : a = 2 * x /\ b = 3 * y /\ c = 2 * d + j
  OBVIOUS
<1>3. LongestDelay \in Nat /\ n = Cut(c)
  BY <1>1, <1>2, DelayFacts
<1>4. n >= Cut(a) /\ n <= Cut(b)
  <2>1. /\ Cut(x) \in Nat /\ Cut(x) <= x /\ Cut(x) <= LongestDelay
        /\ Cut(x) \in {x, LongestDelay}
        /\ Cut(y) \in Nat /\ Cut(y) <= y /\ Cut(y) <= LongestDelay
    BY CutFacts
  <2>2. /\ Cut(a) \in Nat /\ Cut(a) <= a /\ Cut(a) <= LongestDelay
        /\ Cut(b) \in Nat /\ Cut(b) \in {b, LongestDelay}
        /\ Cut(c) \in Nat /\ Cut(c) <= c /\ Cut(c) <= LongestDelay
        /\ Cut(c) \in {c, LongestDelay}
    BY CutFacts
  <2> QED BY <1>2, <1>3, <2>1, <2>2
<1> QED BY <1>2, <1>4

LEMMA BackoffStep ==
    ASSUME LoopTypeOK, LoopTypeOK', BackoffEnvelope, [LoopNext]_loopVars
    PROVE  BackoffEnvelope'
<1>1. /\ FirstDelay \in Nat \ {0} /\ LongestDelay \in Nat /\ FirstDelay <= LongestDelay
      /\ MaxU32 \in Nat
  BY DelayFacts, ReconnectAssumption
<1>2. ASSUME UNCHANGED <<retries, delay>>, loop # "gave_up" PROVE BackoffEnvelope'
  BY <1>2 DEF BackoffEnvelope
<1>3. CASE Configure BY <1>2, <1>3 DEF Configure
<1>4. CASE Opened BY <1>2, <1>4 DEF Opened
<1>5. CASE GracePasses BY <1>2, <1>5 DEF GracePasses
<1>6. CASE Wake BY <1>2, <1>6 DEF Wake
<1>7. ASSUME NEW kind, AttemptFails(kind) PROVE BackoffEnvelope'
  <2>1. loop # "gave_up"
    BY <1>7 DEF AttemptFails
  <2>2. CASE FatalFailure(kind)
    BY <1>2, <2>1, <2>2 DEF FatalFailure
  <2>3. CASE FailureAfterGrace(kind)
    <3>1. retries' = 0 /\ delay' = FirstDelay
      BY <2>3 DEF FailureAfterGrace
    <3>2. Power(2, 0) = 1 /\ Power(3, 0) = 1
      BY PowerFacts
    <3>3. FirstDelay * 1 = FirstDelay
      BY <1>1
    <3>4. Min({FirstDelay, LongestDelay}) = FirstDelay
      BY <1>1, OfTwo
    <3>5. delay' >= FirstDelay /\ delay' <= FirstDelay
      BY <1>1, <3>1
    <3> QED BY <3>1, <3>2, <3>3, <3>4, <3>5 DEF BackoffEnvelope
  <2>4. CASE QuickFailure(kind)
    <3> SUFFICES ASSUME loop' # "gave_up", retries' < MaxU32
                 PROVE  /\ delay' >= Min({FirstDelay * Power(2, retries'), LongestDelay})
                        /\ delay' <= Min({FirstDelay * Power(3, retries'), LongestDelay})
      BY DEF BackoffEnvelope
    <3>1. delay' \in NextDelays(delay) /\ retries' = NextRetry(retries)
      BY <2>4 DEF QuickFailure
    <3>2. retries \in 0..MaxU32 /\ delay \in Nat
      BY <1>1 DEF LoopTypeOK
    <3>3. retries' = retries + 1 /\ retries < MaxU32
      <4>1. Min({retries + 1, MaxU32}) \in {retries + 1, MaxU32}
            /\ Min({retries + 1, MaxU32}) <= MaxU32
        BY <1>1, <3>2, OfTwo
      <4> QED BY <1>1, <3>1, <3>2, <4>1 DEF NextRetry
    <3>4. /\ Power(2, retries) \in Nat /\ Power(2, retries + 1) = 2 * Power(2, retries)
          /\ Power(3, retries) \in Nat /\ Power(3, retries + 1) = 3 * Power(3, retries)
      BY <3>2, <3>3, PowerFacts
    <3>5. PICK p \in Nat, q \in Nat, x \in Nat, y \in Nat :
             /\ p = Power(2, retries) /\ q = Power(3, retries)
             /\ x = FirstDelay * p /\ y = FirstDelay * q
      BY <1>1, <3>4
    <3>6. FirstDelay * (2 * p) = 2 * x /\ FirstDelay * (3 * q) = 3 * y
      BY <1>1, <3>5
    <3>7. delay >= Cut(x) /\ delay <= Cut(y)
      BY <2>1, <3>3, <3>5 DEF BackoffEnvelope, Cut
    <3>8. delay' >= Cut(2 * x) /\ delay' <= Cut(3 * y)
      BY <3>1, <3>2, <3>7, EnvelopeGrows
    <3>9. /\ FirstDelay * Power(2, retries') = 2 * x
          /\ FirstDelay * Power(3, retries') = 3 * y
      BY <3>3, <3>4, <3>5, <3>6
    <3> QED BY <3>8, <3>9 DEF Cut
  <2> QED BY <1>7, <2>2, <2>3, <2>4 DEF AttemptFails
<1>8. CASE UNCHANGED loopVars BY <1>8 DEF loopVars, BackoffEnvelope
<1> QED BY <1>3, <1>4, <1>5, <1>6, <1>7, <1>8 DEF LoopNext

(***************************************************************************)
(* The delay is what the retry count says, up to the jitter: after r quick  *)
(* failures in a row between 2^r and 3^r times the first delay, cut at the  *)
(* longest one, and a reset takes both back together.                       *)
(***************************************************************************)
THEOREM BackoffFollowsRetries == LoopSpec => []BackoffEnvelope
<1>1. LoopInit => BackoffEnvelope
  <2> SUFFICES ASSUME LoopInit PROVE BackoffEnvelope
    OBVIOUS
  <2>1. /\ FirstDelay \in Nat \ {0} /\ LongestDelay \in Nat /\ FirstDelay <= LongestDelay
        /\ retries = 0 /\ delay = FirstDelay
    BY DelayFacts DEF LoopInit
  <2>2. Power(2, 0) = 1 /\ Power(3, 0) = 1 /\ FirstDelay * 1 = FirstDelay
    BY <2>1, PowerFacts
  <2>3. Min({FirstDelay, LongestDelay}) = FirstDelay /\ FirstDelay <= FirstDelay
    BY <2>1, OfTwo
  <2> QED BY <2>1, <2>2, <2>3 DEF BackoffEnvelope
<1>2. LoopTypeOK /\ LoopTypeOK' /\ BackoffEnvelope /\ [LoopNext]_loopVars => BackoffEnvelope'
  BY BackoffStep
<1> QED BY <1>1, <1>2, LoopTypeCorrect, PTL DEF LoopSpec
=============================================================================
