---------------------------- MODULE TaTimeProofs ----------------------------
(***************************************************************************)
(* Proofs about TaTime and Cancellation, for every number of milliseconds  *)
(* in a second, every width of the seconds and every set of TAs and of     *)
(* timeouts.                                                               *)
(*                                                                         *)
(* The arithmetic of times is shown first: the macros of utee_defines.h    *)
(* compare, add and subtract what a time means, Millis, modulo the span of *)
(* the clock (Comparison, Addition, Subtraction).  The persistent time is  *)
(* then right because the offset that is kept is the difference at the     *)
(* time it was set, whatever its sign (OffsetsRight), and a wait ends when *)
(* it is due because its time does not wrap (ElapsedRight).                *)
(***************************************************************************)
EXTENDS MCTaTime, TLAPS

\* Products of natural numbers.
LEMMA ProductNat == ASSUME NEW a \in Nat, NEW b \in Nat PROVE a * b \in Nat
  OBVIOUS

\* A greater multiple of m is greater by m at least.
LEMMA NextMultiple ==
    ASSUME NEW a \in Int, NEW b \in Int, NEW m \in Nat, a < b
    PROVE  a * m + m <= b * m
  <1>1. PICK k \in Nat : b = a + 1 + k
    OBVIOUS
  <1>2. b * m = a * m + m + k * m
    BY <1>1
  <1>3. k * m \in Nat
    BY <1>1, ProductNat
  <1>4. PICK p \in Int : p = a * m
    OBVIOUS
  <1> QED BY <1>2, <1>3, <1>4

\* Quotient and remainder.
LEMMA Division ==
    ASSUME NEW n \in Nat, NEW m \in Nat \ {0}
    PROVE  /\ n \div m \in Nat /\ n % m \in 0..(m - 1)
           /\ n = (n \div m) * m + (n % m)
  OBVIOUS

\* The remainder is the only one.
LEMMA ModOf ==
    ASSUME NEW x \in Int, NEW q \in Int, NEW m \in Nat \ {0}, 
           NEW r \in 0..(m - 1), x = q * m + r
    PROVE  x % m = r
  OBVIOUS

\* A time is less than the span of the clock.
LEMMA MillisRange ==
    ASSUME NEW t \in Time PROVE Millis(t) \in 0..(Span - 1) /\ Span \in Nat \ {0}
  <1> USE TaTimeAssumption
  <1>1. t.s \in 0..(SecMod - 1) /\ t.ms \in 0..(Base - 1)
    BY DEF Time, Secs
  <1>2. t.s * Base + Base <= SecMod * Base
    BY <1>1, NextMultiple
  <1>3. t.s * Base \in Nat /\ SecMod * Base \in Nat
    BY <1>1, ProductNat
  <1> QED BY <1>1, <1>2, <1>3 DEF Millis, Span

\* tee_time_get_sys_time() gives the time that the system counter stands for.
LEMMA SysTimeRight ==
    ASSUME now \in 0..(Span - 1) PROVE SysTime \in Time /\ Millis(SysTime) = now
  <1> USE TaTimeAssumption
  <1>1. Span \in Nat
    BY ProductNat DEF Span
  <1>2. PICK q, r : q = now \div Base /\ r = now % Base
    OBVIOUS
  <1>3. q \in Nat /\ r \in 0..(Base - 1) /\ now = q * Base + r
    <2>1. now \in Nat
      BY <1>1
    <2> QED BY <2>1, <1>2, Division
  <1>4. q < SecMod
    <2> SUFFICES ASSUME q >= SecMod PROVE FALSE
      BY <1>3
    <2>1. q * Base >= SecMod * Base
      <3>1. CASE q = SecMod
        BY <3>1, <1>3
      <3>2. CASE q # SecMod
        <4>1. SecMod * Base + Base <= q * Base
          BY <3>2, <1>3, NextMultiple
        <4>2. SecMod * Base \in Nat /\ q * Base \in Nat
          BY <1>3, ProductNat
        <4> QED BY <4>1, <4>2
      <3> QED BY <3>1, <3>2
    <2>2. SecMod * Base \in Nat /\ q * Base \in Nat
      BY <1>3, ProductNat
    <2> QED BY <2>1, <2>2, <1>3 DEF Span
  <1> QED BY <1>2, <1>3, <1>4 DEF SysTime, Time, Millis, Secs

\* TEE_TIME_LT and TEE_TIME_LE compare what the times mean.
LEMMA Comparison ==
    ASSUME NEW t \in Time, NEW u \in Time
    PROVE  /\ TimeLt(t, u) <=> Millis(t) < Millis(u)
           /\ TimeLe(t, u) <=> Millis(t) <= Millis(u)
  <1> USE TaTimeAssumption
  <1>1. /\ t.s \in 0..(SecMod - 1) /\ t.ms \in 0..(Base - 1)
        /\ u.s \in 0..(SecMod - 1) /\ u.ms \in 0..(Base - 1)
    BY DEF Time, Secs
  <1>2. t.s * Base \in Nat /\ u.s * Base \in Nat
    BY <1>1, ProductNat
  <1>3. t.s < u.s => t.s * Base + Base <= u.s * Base
    BY <1>1, NextMultiple
  <1>4. u.s < t.s => u.s * Base + Base <= t.s * Base
    BY <1>1, NextMultiple
  <1>5. CASE t.s = u.s
    BY <1>1, <1>2, <1>5 DEF TimeLt, TimeLe, Millis
  <1>6. CASE t.s # u.s
    <2>1. PICK p, q : p = t.s * Base /\ q = u.s * Base
      OBVIOUS
    <2>2. p \in Nat /\ q \in Nat /\ Millis(t) = p + t.ms /\ Millis(u) = q + u.ms
      BY <2>1, <1>2 DEF Millis
    <2>3. CASE t.s < u.s
      <3>1. p + Base <= q
        BY <2>1, <2>3, <1>3
      <3>2. Millis(t) < Millis(u)
        BY <1>1, <2>2, <3>1
      <3>3. Millis(t) \in Int /\ Millis(u) \in Int
        BY <1>1, <2>2
      <3>4. t.s < u.s /\ t.s <= u.s /\ t.s # u.s
        BY <1>1, <2>3
      <3>5. TimeLt(t, u) /\ TimeLe(t, u)
        BY <3>4 DEF TimeLt, TimeLe
      <3>6. Millis(t) < Millis(u) /\ Millis(t) <= Millis(u)
        BY <3>2, <3>3
      <3> QED BY <3>5, <3>6
    <2>4. CASE u.s < t.s
      <3>1. q + Base <= p
        BY <2>1, <2>4, <1>4
      <3>2. Millis(u) < Millis(t)
        BY <1>1, <2>2, <3>1
      <3>3. Millis(t) \in Int /\ Millis(u) \in Int
        BY <1>1, <2>2
      <3>4. ~(t.s < u.s) /\ ~(t.s <= u.s) /\ t.s # u.s
        BY <1>1, <2>4
      <3>5. ~TimeLt(t, u) /\ ~TimeLe(t, u)
        BY <3>4 DEF TimeLt, TimeLe
      <3>6. ~(Millis(t) < Millis(u)) /\ ~(Millis(t) <= Millis(u))
        BY <3>2, <3>3
      <3> QED BY <3>5, <3>6
    <2> QED BY <1>1, <1>6, <2>3, <2>4
  <1> QED BY <1>5, <1>6

\* A whole number of seconds modulo SecMod, in milliseconds.
LEMMA SecondsWrap ==
    ASSUME NEW s \in Int, NEW m \in Nat \ {0}, s >= 0 - m, s < m + m
    PROVE  /\ 0 <= s /\ s < m => s % m = s
           /\ s >= m => s % m = s - m
           /\ s < 0 => s % m = s + m
  <1>1. ASSUME 0 <= s, s < m PROVE s % m = s
    <2>1. s = 0 * m + s /\ s \in 0..(m - 1)
      BY <1>1
    <2> QED BY <2>1, ModOf
  <1>2. ASSUME s >= m PROVE s % m = s - m
    <2>1. s = 1 * m + (s - m) /\ s - m \in 0..(m - 1)
      BY <1>2
    <2> QED BY <2>1, ModOf
  <1>3. ASSUME s < 0 PROVE s % m = s + m
    <2>1. s = (0 - 1) * m + (s + m) /\ s + m \in 0..(m - 1)
      BY <1>3
    <2> QED BY <2>1, ModOf
  <1> QED BY <1>1, <1>2, <1>3

\* TEE_TIME_ADD adds what the times mean, modulo the span of the clock.
LEMMA Addition ==
    ASSUME NEW t \in Time, NEW u \in Time
    PROVE  /\ TimeAdd(t, u) \in Time
           /\ Millis(TimeAdd(t, u)) = Millis(t) + Millis(u)
              \/ Millis(TimeAdd(t, u)) = Millis(t) + Millis(u) - Span
  <1> USE TaTimeAssumption
  <1>1. PICK ts, tm, us, um : ts = t.s /\ tm = t.ms /\ us = u.s /\ um = u.ms
    OBVIOUS
  <1>2. /\ ts \in 0..(SecMod - 1) /\ tm \in 0..(Base - 1)
        /\ us \in 0..(SecMod - 1) /\ um \in 0..(Base - 1)
    BY <1>1 DEF Time, Secs
  <1>3. PICK c \in {0, 1} : IF tm + um >= Base THEN c = 1 ELSE c = 0
    OBVIOUS
  <1>4. PICK x, s : x = ts + us + c /\ s = x % SecMod
    OBVIOUS
  <1>5. x \in Int /\ x >= 0 /\ x < SecMod + SecMod
    BY <1>2, <1>4
  <1>6. s \in 0..(SecMod - 1) /\ (s = x \/ s = x - SecMod)
    <2>1. x < SecMod => s = x
      BY <1>4, <1>5, SecondsWrap
    <2>2. x >= SecMod => s = x - SecMod
      BY <1>4, <1>5, SecondsWrap
    <2> QED BY <1>5, <2>1, <2>2
  <1>7. TimeAdd(t, u) = [s |-> s, ms |-> tm + um - c * Base]
    <2>1. CASE tm + um >= Base
      <3>1. c = 1
        BY <2>1, <1>3
      <3>2. t.ms + u.ms >= Base
        BY <2>1, <1>1
      <3>3. TimeAdd(t, u) = [s |-> (t.s + u.s + 1) % SecMod, ms |-> t.ms + u.ms - 1 * Base]
        BY <3>2, <1>1, <1>2 DEF TimeAdd
      <3> QED BY <3>1, <3>3, <1>1, <1>4
    <2>2. CASE ~(tm + um >= Base)
      <3>1. c = 0
        BY <2>2, <1>3
      <3>2. ~(t.ms + u.ms >= Base)
        BY <2>2, <1>1
      <3>3. TimeAdd(t, u) = [s |-> (t.s + u.s + 0) % SecMod, ms |-> t.ms + u.ms - 0 * Base]
        BY <3>2, <1>1, <1>2 DEF TimeAdd
      <3> QED BY <3>1, <3>3, <1>1, <1>4
    <2> QED BY <2>1, <2>2
  <1>8. tm + um - c * Base \in 0..(Base - 1)
    BY <1>2, <1>3
  <1>9. PICK p, q, d : p = ts * Base /\ q = us * Base /\ d = c * Base
    OBVIOUS
  <1>10. p \in Int /\ q \in Int /\ d \in Int /\ Span \in Int
    BY <1>2, <1>9 DEF Span
  <1>11. s * Base = p + q + d \/ s * Base = p + q + d - Span
    <2>1. x * Base = p + q + d
      BY <1>2, <1>4, <1>9
    <2>2. (x - SecMod) * Base = x * Base - Span
      BY <1>5 DEF Span
    <2>3. CASE s = x
      BY <2>1, <2>3
    <2>4. CASE s = x - SecMod
      BY <1>5, <1>10, <2>1, <2>2, <2>4
    <2> QED BY <1>6, <2>3, <2>4
  <1>12. Millis(TimeAdd(t, u)) = s * Base + (tm + um - d)
    BY <1>7, <1>9 DEF Millis
  <1>13. Millis(t) = p + tm /\ Millis(u) = q + um
    BY <1>1, <1>9 DEF Millis
  <1>14. TimeAdd(t, u) \in Time
    BY <1>6, <1>7, <1>8 DEF Time, Secs
  <1> QED BY <1>2, <1>10, <1>11, <1>12, <1>13, <1>14

\* TEE_TIME_SUB subtracts what the times mean, if the result is not negative.
LEMMA Subtraction ==
    ASSUME NEW t \in Time, NEW u \in Time, Millis(u) <= Millis(t)
    PROVE  /\ TimeSub(t, u) \in Time
           /\ Millis(TimeSub(t, u)) = Millis(t) - Millis(u)
  <1> USE TaTimeAssumption
  <1>1. PICK ts, tm, us, um : ts = t.s /\ tm = t.ms /\ us = u.s /\ um = u.ms
    OBVIOUS
  <1>2. /\ ts \in 0..(SecMod - 1) /\ tm \in 0..(Base - 1)
        /\ us \in 0..(SecMod - 1) /\ um \in 0..(Base - 1)
    BY <1>1 DEF Time, Secs
  <1>3. PICK b \in {0, 1} : IF tm < um THEN b = 1 ELSE b = 0
    OBVIOUS
  <1>4. PICK x, s : x = ts - us - b /\ s = x % SecMod
    OBVIOUS
  <1>5. PICK p, q, d : p = ts * Base /\ q = us * Base /\ d = b * Base
    OBVIOUS
  <1>6. p \in Int /\ q \in Int /\ d \in Int
    BY <1>2, <1>5
  <1>7. Millis(t) = p + tm /\ Millis(u) = q + um
    BY <1>1, <1>5 DEF Millis
  <1>8. x \in 0..(SecMod - 1)
    <2>1. ts >= us
      <3> SUFFICES ASSUME ts < us PROVE FALSE
        BY <1>2
      <3>1. p + Base <= q
        BY <1>2, <1>5, NextMultiple
      <3> QED BY <1>2, <1>6, <1>7, <3>1
    <2>2. tm < um => ts # us
      BY <1>2, <1>5, <1>6, <1>7
    <2> QED BY <1>2, <1>3, <1>4, <2>1, <2>2
  <1>9. s = x
    BY <1>4, <1>8, SecondsWrap
  <1>10. TimeSub(t, u) = [s |-> s, ms |-> tm + b * Base - um]
    <2>1. CASE tm < um
      BY <2>1, <1>1, <1>3, <1>4 DEF TimeSub
    <2>2. CASE ~(tm < um)
      BY <2>2, <1>1, <1>3, <1>4 DEF TimeSub
    <2> QED BY <2>1, <2>2
  <1>11. tm + b * Base - um \in 0..(Base - 1)
    BY <1>2, <1>3
  <1>12. s * Base = p - q - d
    BY <1>2, <1>4, <1>5, <1>9
  <1>13. Millis(TimeSub(t, u)) = s * Base + (tm + d - um)
    BY <1>5, <1>10 DEF Millis
  <1>14. TimeSub(t, u) \in Time
    BY <1>8, <1>9, <1>10, <1>11 DEF Time, Secs
  <1> QED BY <1>2, <1>6, <1>7, <1>12, <1>13, <1>14
-----------------------------------------------------------------------------
\* The offset of a TA is the difference between the time that it set and the
\* system time when it did, in the direction of the sign.
OffsetsRight ==
    \A a \in DOMAIN offs :
        /\ set[a].at <= now
        /\ IF offs[a].positive
           THEN Millis(offs[a].offs) = Millis(set[a].time) - set[a].at
           ELSE Millis(offs[a].offs) = set[a].at - Millis(set[a].time)

\* The inductive invariant of the persistent time.
TimeInv == TypeOK /\ OffsetsRight /\ KeepsPace /\ WrapIsReported

\* The clock has a value.
LEMMA SpanPositive == Span \in Nat \ {0}
  <1>1. [s |-> 0, ms |-> 0] \in Time
    BY TaTimeAssumption DEF Time, Secs
  <1> QED BY <1>1, MillisRange

\* No TA has set its time.
LEMMA InitTime == Init => TimeInv
  BY DEF Init, TimeInv, TypeOK, OffsetsRight, KeepsPace, WrapIsReported

\* The clock moves on: offsets do not change.
LEMMA TickTime == ASSUME TimeInv, Tick PROVE TimeInv'
  <1> USE DEF TimeInv
  <1>1. TypeOK'
    BY SpanPositive DEF Tick, TypeOK
  <1>2. OffsetsRight'
    <2> SUFFICES ASSUME NEW a \in DOMAIN offs
                 PROVE  /\ set[a].at <= now'
                        /\ IF offs[a].positive
                           THEN Millis(offs[a].offs) = Millis(set[a].time) - set[a].at
                           ELSE Millis(offs[a].offs) = set[a].at - Millis(set[a].time)
      BY DEF Tick, OffsetsRight, Millis
    <2>1. set[a].at \in 0..(Span - 1) /\ now \in 0..(Span - 1)
      BY DEF TypeOK
    <2>2. set[a].at <= now
      BY DEF OffsetsRight
    <2>3. set[a].at <= now'
      BY <2>1, <2>2, SpanPositive DEF Tick
    <2> QED BY <2>3 DEF OffsetsRight
  <1>3. (KeepsPace /\ WrapIsReported)'
    BY DEF Tick, KeepsPace, WrapIsReported
  <1> QED BY <1>1, <1>2, <1>3

\* The offset that tee_time_set_ta_time() keeps, for either sign.
LEMMA SetTime ==
    ASSUME TimeInv, NEW a \in TAs, NEW t \in Time, SetTaTime(a, t)
    PROVE  TimeInv'
  <1> USE DEF TimeInv
  <1>1. PICK y : y = SysTime
    OBVIOUS
  <1>2. now \in 0..(Span - 1) /\ y \in Time /\ Millis(y) = now
    BY <1>1, SysTimeRight DEF TypeOK
  <1>3. PICK o : o = IF TimeLt(y, t)
                     THEN [offs |-> TimeSub(t, y), positive |-> TRUE]
                     ELSE [offs |-> TimeSub(y, t), positive |-> FALSE]
    OBVIOUS
  <1>4. Millis(t) \in 0..(Span - 1)
    BY MillisRange
  <1>5. /\ o \in [offs : Time, positive : BOOLEAN]
        /\ IF o.positive THEN Millis(o.offs) = Millis(t) - now
                         ELSE Millis(o.offs) = now - Millis(t)
    <2>1. CASE TimeLt(y, t)
      <3>1. Millis(y) < Millis(t)
        BY <2>1, <1>2, Comparison
      <3>2. Millis(y) <= Millis(t)
        BY <3>1, <1>2, <1>4, SpanPositive
      <3>3. TimeSub(t, y) \in Time /\ Millis(TimeSub(t, y)) = Millis(t) - now
        BY <1>2, <3>2, Subtraction
      <3> QED BY <3>3, <2>1, <1>3
    <2>2. CASE ~TimeLt(y, t)
      <3>1. ~(Millis(y) < Millis(t))
        BY <2>2, <1>2, Comparison
      <3>2. Millis(t) <= Millis(y)
        BY <3>1, <1>2, <1>4, SpanPositive
      <3>3. TimeSub(y, t) \in Time /\ Millis(TimeSub(y, t)) = now - Millis(t)
        BY <1>2, <3>2, Subtraction
      <3> QED BY <3>3, <2>2, <1>3
    <2> QED BY <2>1, <2>2
  <1>6. PICK w : w = [time |-> t, at |-> now]
    OBVIOUS
  <1>7. /\ offs' = Put(offs, a, o) /\ set' = Put(set, a, w)
        /\ got' = {} /\ now' = now
    BY <1>1, <1>3, <1>6 DEF SetTaTime, SetOffs
  <1>8. /\ DOMAIN offs' = DOMAIN offs \cup {a}
        /\ offs'[a] = o
        /\ \A b \in DOMAIN offs : b # a => offs'[b] = offs[b]
    BY <1>7 DEF Put
  <1>9. /\ DOMAIN set' = DOMAIN set \cup {a}
        /\ set'[a] = w
        /\ \A b \in DOMAIN set : b # a => set'[b] = set[b]
    BY <1>7 DEF Put
  <1>10. w \in [time : Time, at : 0..(Span - 1)] /\ w.time = t /\ w.at = now
    BY <1>2, <1>6
  <1>11. TypeOK'
    <2>1. \A b \in DOMAIN offs' : offs'[b] \in [offs : Time, positive : BOOLEAN]
      BY <1>5, <1>8 DEF TypeOK
    <2>2. \A b \in DOMAIN set' : set'[b] \in [time : Time, at : 0..(Span - 1)]
      BY <1>9, <1>10 DEF TypeOK
    <2> QED BY <2>1, <2>2, <1>2, <1>7, <1>8, <1>9 DEF TypeOK
  <1>12. OffsetsRight'
    <2> SUFFICES ASSUME NEW b \in DOMAIN offs'
                 PROVE  /\ set'[b].at <= now'
                        /\ IF offs'[b].positive
                           THEN Millis(offs'[b].offs) = Millis(set'[b].time) - set'[b].at
                           ELSE Millis(offs'[b].offs) = set'[b].at - Millis(set'[b].time)
      BY DEF OffsetsRight, Millis
    <2>1. CASE b = a
      BY <2>1, <1>2, <1>5, <1>7, <1>8, <1>9, <1>10, SpanPositive
    <2>2. CASE b # a
      <3>1. b \in DOMAIN offs /\ b \in DOMAIN set
        BY <2>2, <1>8 DEF TypeOK
      <3>2. offs'[b] = offs[b] /\ set'[b] = set[b]
        BY <2>2, <3>1, <1>8, <1>9
      <3> QED BY <3>1, <3>2, <1>7 DEF OffsetsRight
    <2> QED BY <2>1, <2>2
  <1>13. (KeepsPace /\ WrapIsReported)'
    BY <1>7 DEF KeepsPace, WrapIsReported
  <1> QED BY <1>11, <1>12, <1>13

\* The answer of tee_time_get_ta_time(): a positive offset may wrap, which is
\* reported; a negative one never does, for the system time has not gone back.
LEMMA GetTime == ASSUME TimeInv, NEW a \in TAs, GetTaTime(a) PROVE TimeInv'
  <1> USE DEF TimeInv
  <1>1. PICK y : y = SysTime
    OBVIOUS
  <1>2. now \in 0..(Span - 1) /\ y \in Time /\ Millis(y) = now
    BY <1>1, SysTimeRight DEF TypeOK
  <1>3. a \in DOMAIN offs /\ a \in DOMAIN set
    BY DEF GetTaTime, TypeOK
  <1>4. PICK o, w : o = offs[a] /\ w = set[a]
    OBVIOUS
  <1>5. /\ o \in [offs : Time, positive : BOOLEAN]
        /\ w \in [time : Time, at : 0..(Span - 1)]
    BY <1>3, <1>4 DEF TypeOK
  <1>6. /\ w.at <= now
        /\ IF o.positive THEN Millis(o.offs) = Millis(w.time) - w.at
                         ELSE Millis(o.offs) = w.at - Millis(w.time)
    BY <1>3, <1>4 DEF OffsetsRight
  <1>7. PICK m, k, d : m = Millis(w.time) /\ k = w.at /\ d = Millis(o.offs)
    OBVIOUS
  <1>8. /\ m \in 0..(Span - 1) /\ k \in 0..(Span - 1) /\ d \in 0..(Span - 1)
        /\ k <= now
        /\ IF o.positive THEN d = m - k ELSE d = k - m
    BY <1>5, <1>6, <1>7, MillisRange
  <1>9. PICK t2 : t2 = IF o.positive THEN TimeAdd(y, o.offs) ELSE TimeSub(y, o.offs)
    OBVIOUS
  <1>10. PICK x \in Int : x = m + now - k
    BY <1>2, <1>8, SpanPositive
  <1>11. /\ t2 \in Time /\ x >= 0 /\ x < Span + Span
         /\ Millis(t2) = x \/ Millis(t2) = x - Span
         /\ ~o.positive => x < Span
    <2>1. CASE o.positive
      <3>1. /\ TimeAdd(y, o.offs) \in Time
            /\ Millis(TimeAdd(y, o.offs)) = now + d
               \/ Millis(TimeAdd(y, o.offs)) = now + d - Span
        BY <1>2, <1>5, <1>7, Addition
      <3>2. d = m - k
        BY <2>1, <1>8
      <3> QED BY <2>1, <3>1, <3>2, <1>2, <1>8, <1>9, <1>10, SpanPositive
    <2>2. CASE ~o.positive
      <3>1. d = k - m
        BY <2>2, <1>8
      <3>2. Millis(o.offs) <= Millis(y)
        BY <3>1, <1>2, <1>7, <1>8, SpanPositive
      <3>3. /\ TimeSub(y, o.offs) \in Time
            /\ Millis(TimeSub(y, o.offs)) = now - d
        BY <1>2, <1>5, <1>7, <3>2, Subtraction
      <3> QED BY <2>2, <3>1, <3>3, <1>2, <1>8, <1>9, <1>10, SpanPositive
    <2> QED BY <2>1, <2>2
  <1>12. Millis(t2) \in 0..(Span - 1)
    BY <1>11, MillisRange
  <1>13. Millis(t2) = x % Span
    <2>1. x < Span => x % Span = x
      BY <1>11, SpanPositive, SecondsWrap
    <2>2. x >= Span => x % Span = x - Span
      <3>1. x >= 0 - Span /\ x < Span + Span
        BY <1>11, SpanPositive
      <3> QED BY <3>1, SpanPositive, SecondsWrap
    <2>3. x < Span => Millis(t2) = x
      BY <1>11, <1>12, SpanPositive
    <2>4. x >= Span => Millis(t2) = x - Span
      BY <1>11, <1>12, SpanPositive
    <2> QED BY <2>1, <2>2, <2>3, <2>4, SpanPositive
  <1>14. x >= Span => Wrapped(y, o, t2)
    <2> SUFFICES ASSUME x >= Span PROVE Wrapped(y, o, t2)
      OBVIOUS
    <2>1. o.positive /\ d = m - k
      BY <1>8, <1>11, SpanPositive
    <2>2. Millis(t2) = now + d - Span
      BY <1>2, <1>8, <1>10, <1>11, <1>12, <2>1, SpanPositive
    <2>3. Millis(t2) < Millis(y)
      BY <1>2, <1>8, <2>2, SpanPositive
    <2>4. TimeLt(t2, y)
      BY <1>2, <1>11, <2>3, Comparison
    <2> QED BY <2>1, <2>4 DEF Wrapped
  <1>15. PICK g : g = [ta |-> a, at |-> now, time |-> t2,
                       res |-> IF Wrapped(y, o, t2) THEN "overflow" ELSE "success"]
    OBVIOUS
  <1>16. got' = {g} /\ now' = now /\ offs' = offs /\ set' = set
    BY <1>1, <1>4, <1>9, <1>15 DEF GetTaTime
  <1>17. g \in [ta : TAs, at : 0..(Span - 1), time : Time, res : {"success", "overflow"}]
    BY <1>2, <1>11, <1>15
  <1>18. TypeOK'
    BY <1>16, <1>17 DEF TypeOK
  <1>19. OffsetsRight'
    BY <1>16 DEF OffsetsRight, Millis
  <1>20. Shown(g)' = x
    BY <1>4, <1>7, <1>10, <1>15, <1>16 DEF Shown, Millis
  <1>21. KeepsPace'
    <2>1. Millis(g.time) = x % Span
      BY <1>13, <1>15
    <2> QED BY <2>1, <1>16, <1>20 DEF KeepsPace, Millis
  <1>22. WrapIsReported'
    <2>1. x >= Span => g.res = "overflow"
      BY <1>14, <1>15
    <2> QED BY <2>1, <1>16, <1>20 DEF WrapIsReported
  <1> QED BY <1>18, <1>19, <1>21, <1>22

\* Every step of the persistent time keeps the invariant.
LEMMA NextTime == ASSUME TimeInv, [Next]_vars PROVE TimeInv'
  <1>1. CASE UNCHANGED vars
    BY <1>1 DEF vars, TimeInv, TypeOK, OffsetsRight, KeepsPace, WrapIsReported, Shown, Millis
  <1>2. CASE Tick
    BY <1>2, TickTime
  <1>3. ASSUME NEW a \in TAs, GetTaTime(a) PROVE TimeInv'
    BY <1>3, GetTime
  <1>4. ASSUME NEW a \in TAs, NEW t \in Time, SetTaTime(a, t) PROVE TimeInv'
    BY <1>4, SetTime
  <1> QED BY <1>1, <1>2, <1>3, <1>4 DEF Next
-----------------------------------------------------------------------------
\* A wait began in the past, the flag was set since the TA returned last, and a
\* session has a time to cancel only if the operation that runs, or the one that ran
\* last, has a timeout.
WaitOK ==
    /\ wait.base <= now
    /\ cancel => op.asked
    /\ time.s # SecMax => op.to # Infinite

\* The inductive invariant of operations and waits.
CancelInv == C!TypeOK /\ WaitOK

\* What set_invoke_timeout() computes is a time, and none without a timeout.
LEMMA CancelTimeType ==
    ASSUME now \in 0..Horizon, NEW to \in Timeouts \cup {Infinite}
    PROVE  /\ C!CancelTime(to) \in [s : C!Secs, ms : Nat]
           /\ to = Infinite => C!CancelTime(to) = C!Never
  <1> USE TaTimeAssumption, MCTaTimeAssumption
  <1>1. C!Never \in [s : C!Secs, ms : Nat]
    BY DEF C!Never, C!Secs
  <1>2. CASE to = Infinite
    BY <1>1, <1>2 DEF C!CancelTime
  <1>3. CASE to # Infinite
    <2>1. now \in Nat /\ to \in Nat
      BY <1>3
    <2>2. PICK q, r, qt, rt : /\ q = now \div Base /\ r = now % Base
                              /\ qt = to \div Base /\ rt = to % Base
      OBVIOUS
    <2>3. q \in Nat /\ r \in 0..(Base - 1) /\ qt \in Nat /\ rt \in 0..(Base - 1)
      BY <2>1, <2>2, Division
    <2>4. C!SysTime = [s |-> q, ms |-> r]
      BY <2>2 DEF C!SysTime
    <2>5. PICK s \in Nat, ms \in Nat : s = q + qt /\ ms = r + rt
      BY <2>3
    <2>6. PICK z : z = (q + 2) % (SecMax + 1)
      OBVIOUS
    <2>7. z \in 0..SecMax
      BY <2>3, <2>6, Division
    <2>8. CASE s > SecMax
      <3>1. C!CancelTime(to) = C!Never
        BY <1>3, <2>2, <2>4, <2>5, <2>8 DEF C!CancelTime
      <3> QED BY <1>1, <1>3, <3>1
    <2>9. CASE s <= SecMax /\ ms <= Base
      <3>1. C!CancelTime(to) = [s |-> s, ms |-> ms]
        BY <1>3, <2>2, <2>4, <2>5, <2>9 DEF C!CancelTime
      <3> QED BY <1>3, <2>5, <2>9, <3>1 DEF C!Secs
    <2>10. CASE s <= SecMax /\ ms > Base
      <3>1. C!CancelTime(to) = IF q + 1 > SecMax THEN C!Never ELSE [s |-> z, ms |-> ms - Base]
        BY <1>3, <2>2, <2>4, <2>5, <2>6, <2>10 DEF C!CancelTime
      <3> QED BY <1>1, <1>3, <2>5, <2>7, <2>10, <3>1 DEF C!Secs
    <2> QED BY <2>5, <2>8, <2>9, <2>10
  <1> QED BY <1>2, <1>3

\* No operation runs and none is cancelled.
LEMMA InitCancel == C!Init => CancelInv
  <1> SUFFICES ASSUME C!Init PROVE CancelInv
    OBVIOUS
  <1> USE TaTimeAssumption, MCTaTimeAssumption
  <1>1. (CHOOSE t \in Timeouts : TRUE) \in Timeouts
    OBVIOUS
  <1>2. time \in [s : C!Secs, ms : Nat] /\ time.s = SecMax
    BY DEF C!Init, C!Never, C!Secs
  <1>3. wait.base = 0 /\ now \in 0..Horizon
    BY DEF C!Init
  <1>4. WaitOK
    BY <1>2, <1>3 DEF WaitOK, C!Init
  <1>5. op \in [on : BOOLEAN, asked : BOOLEAN,
                start : 0..Horizon, to : Timeouts \cup {Infinite}]
    BY DEF C!Init
  <1>6. wait \in [pc : {"none", "check", "asleep", "done", "cancelled"},
                 base : 0..Horizon, to : Timeouts]
    BY <1>1 DEF C!Init
  <1> QED BY <1>2, <1>3, <1>4, <1>5, <1>6 DEF C!Init, CancelInv, C!TypeOK

\* Every step of an operation and of a wait keeps the invariant.
LEMMA NextCancel == ASSUME CancelInv, [C!Next]_(C!vars) PROVE CancelInv'
  <1> USE MCTaTimeAssumption DEF CancelInv
  <1>0. now \in 0..Horizon /\ wait.base \in 0..Horizon
    BY DEF C!TypeOK
  <1>1. CASE UNCHANGED C!vars
    BY <1>1 DEF C!vars, C!TypeOK, WaitOK
  <1>2. CASE C!Tick
    <2>1. C!TypeOK'
      BY <1>2 DEF C!Tick, C!TypeOK
    <2>2. WaitOK'
      BY <1>0, <1>2 DEF C!Tick, WaitOK
    <2> QED BY <2>1, <2>2
  <1>3. ASSUME NEW to \in Timeouts \cup {Infinite}, C!Enter(to) PROVE CancelInv'
    <2>1. PICK ct : ct = C!CancelTime(to)
      OBVIOUS
    <2>2. ct \in [s : C!Secs, ms : Nat] /\ (to = Infinite => ct.s = SecMax)
      BY <1>0, <2>1, CancelTimeType DEF C!Never
    <2>3. C!TypeOK'
      BY <1>3, <2>1, <2>2 DEF C!Enter, C!TypeOK
    <2>4. WaitOK'
      BY <1>3, <2>1, <2>2 DEF C!Enter, WaitOK
    <2> QED BY <2>3, <2>4
  <1>4. CASE C!Leave
    BY <1>4 DEF C!Leave, C!TypeOK, WaitOK
  <1>5. CASE C!CancelCommand
    BY <1>5 DEF C!CancelCommand, C!TypeOK, WaitOK
  <1>6. ASSUME NEW to \in Timeouts, C!Wait(to) PROVE CancelInv'
    <2>1. C!TypeOK'
      BY <1>6 DEF C!Wait, C!TypeOK
    <2>2. WaitOK'
      BY <1>0, <1>6 DEF C!Wait, WaitOK
    <2> QED BY <2>1, <2>2
  <1>7. CASE C!WaitCheck
    BY <1>7 DEF C!WaitCheck, C!TypeOK, WaitOK
  <1>8. CASE C!WaitReturn
    BY <1>8 DEF C!WaitReturn, C!TypeOK, WaitOK
  <1>9. ASSUME NEW m \in BOOLEAN, C!SetMask(m) PROVE CancelInv'
    BY <1>9 DEF C!SetMask, C!TypeOK, WaitOK
  <1> QED BY <1>1, <1>2, <1>3, <1>4, <1>5, <1>6, <1>7, <1>8, <1>9 DEF C!Next

\* mytime of syscall_wait() is the time that has passed: it does not wrap.
LEMMA ElapsedRight ==
    ASSUME now \in 0..Horizon, NEW b \in 0..Horizon, b <= now
    PROVE  C!Elapsed(b) = now - b
  <1> USE TaTimeAssumption, MCTaTimeAssumption
  <1>1. PICK n, q, r, qb, rb : /\ n = now
                               /\ q = n \div Base /\ r = n % Base
                               /\ qb = b \div Base /\ rb = b % Base
    OBVIOUS
  <1>2. n \in Nat /\ b \in Nat /\ n - b \in 0..SecMax
    BY <1>1
  <1>3. /\ q \in Nat /\ r \in 0..(Base - 1) /\ qb \in Nat /\ rb \in 0..(Base - 1)
        /\ n = q * Base + r /\ b = qb * Base + rb
    BY <1>1, <1>2, Division
  <1>4. (q - qb) * Base = q * Base - qb * Base
    BY <1>3
  <1>5. PICK p, pb : p = q * Base /\ pb = qb * Base
    OBVIOUS
  <1>6. p \in Int /\ pb \in Int
    BY <1>3, <1>5
  <1>7. (q - qb) * Base + r - rb = n - b
    BY <1>3, <1>4, <1>5, <1>6
  <1>8. PICK x \in Int : x = n - b
    BY <1>2
  <1>9. x % (SecMax + 1) = x
    <2>1. SecMax + 1 \in Nat \ {0} /\ x = 0 * (SecMax + 1) + x /\ x \in 0..((SecMax + 1) - 1)
      BY <1>2, <1>8
    <2> QED BY <2>1, ModOf
  <1>10. C!Elapsed(b) = ((q - qb) * Base + r - rb) % (SecMax + 1)
    BY <1>1 DEF C!Elapsed, C!SysTime
  <1> QED BY <1>1, <1>7, <1>8, <1>9, <1>10

\* A step of the wait ends it only when it is due or cancelled.
DueStep ==
    wait'.pc # wait.pc =>
        /\ wait'.pc = "done" => now - wait.base >= wait.to
        /\ wait'.pc = "cancelled" => ~mask /\ (op.asked \/ op.to # Infinite)

\* syscall_wait() ends only so, and no other step ends it.
LEMMA StepDue == ASSUME CancelInv, C!Next PROVE DueStep
  <1> USE DEF CancelInv
  <1>1. CASE C!WaitCheck
    <2>1. now \in 0..Horizon /\ wait.base \in 0..Horizon /\ wait.base <= now
      BY DEF C!TypeOK, WaitOK
    <2>2. PICK b : b = wait.base
      OBVIOUS
    <2>3. C!Elapsed(b) = now - b
      BY <2>1, <2>2, ElapsedRight
    <2>4. /\ wait'.pc = "done" => C!Elapsed(b) >= wait.to
          /\ wait'.pc = "cancelled" => C!IsCancelled
      BY <1>1, <2>2 DEF C!WaitCheck, C!TypeOK
    <2>5. C!IsCancelled => ~mask /\ (op.asked \/ op.to # Infinite)
      BY DEF C!IsCancelled, WaitOK
    <2> QED BY <2>2, <2>3, <2>4, <2>5 DEF DueStep
  <1>2. CASE C!Tick \/ C!CancelCommand
    BY <1>2 DEF C!Tick, C!CancelCommand, DueStep
  <1>3. CASE C!Leave
    BY <1>3 DEF C!Leave, C!TypeOK, DueStep
  <1>4. CASE C!WaitReturn
    BY <1>4 DEF C!WaitReturn, C!TypeOK, DueStep
  <1>5. ASSUME NEW to \in Timeouts \cup {Infinite}, C!Enter(to) PROVE DueStep
    BY <1>5 DEF C!Enter, DueStep
  <1>6. ASSUME NEW to \in Timeouts, C!Wait(to) PROVE DueStep
    BY <1>6 DEF C!Wait, DueStep
  <1>7. ASSUME NEW m \in BOOLEAN, C!SetMask(m) PROVE DueStep
    BY <1>7 DEF C!SetMask, DueStep
  <1> QED BY <1>1, <1>2, <1>3, <1>4, <1>5, <1>6, <1>7 DEF C!Next

-----------------------------------------------------------------------------
\* The variables of the run.
partVars == <<part, now, timeVars, cancelVars>>

\* The invariant of the part that runs.
PartInv ==
    /\ part \in {"time", "cancellation"}
    /\ part = "time" => TimeInv
    /\ part = "cancellation" => CancelInv

\* The invariant holds at the start ...
LEMMA PartInitInv == PartInit => PartInv
  BY InitTime, InitCancel DEF PartInit, PartInv

\* ... every step keeps it ...
LEMMA PartNextInv == ASSUME PartInv, [PartNext]_partVars PROVE PartInv'
  <1>1. part' = part
    BY DEF PartNext, partVars
  <1>2. CASE part = "time"
    <2>1. [Next]_vars
      BY <1>2 DEF PartNext, partVars, timeVars, vars
    <2>2. TimeInv'
      BY <1>2, <2>1, NextTime DEF PartInv
    <2> QED BY <1>1, <1>2, <2>2 DEF PartInv
  <1>3. CASE part = "cancellation"
    <2>1. [C!Next]_(C!vars)
      BY <1>3 DEF PartNext, partVars, cancelVars, C!vars
    <2>2. CancelInv'
      BY <1>3, <2>1, NextCancel DEF PartInv
    <2> QED BY <1>1, <1>3, <2>2 DEF PartInv
  <1> QED BY <1>2, <1>3 DEF PartInv

\* ... and it holds always.
LEMMA PartInvariance == PartSpec => []PartInv
  <1>1. PartInit => PartInv
    BY PartInitInv
  <1>2. PartInv /\ [PartNext]_partVars => PartInv'
    BY PartNextInv
  <1> QED BY <1>1, <1>2, PTL DEF PartSpec, partVars

\* tee_time_get_ta_time(): for every width of the seconds the persistent time of a
\* TA runs at the pace of the system time from where it was set, for either sign of
\* the offset and across carries, and a time that has wrapped is never reported as a
\* success; what set_invoke_timeout() computes is always a time.
THEOREM TimeIsRightAlways == PartSpec => []TimeIsRight
  <1>1. PartInv => TimeIsRight
    BY DEF PartInv, TimeIsRight, TimeInv, CancelInv
  <1> QED BY <1>1, PartInvariance, PTL

\* syscall_wait() is successful only after the time that was asked for, however
\* often normal world returns early, and is cancelled only where cancellation is
\* unmasked and a cancellation was asked for since the TA returned last, be it meant
\* for this operation or not, or the operation has a timeout.
THEOREM WaitIsDue == PartSpec => WaitsUntilDue
  <1>1. PartInv /\ [PartNext]_partVars => [DueStep]_(C!vars)
    <2> SUFFICES ASSUME PartInv, [PartNext]_partVars, C!vars' # C!vars PROVE DueStep
      OBVIOUS
    <2>1. CASE part = "time"
      BY <2>1 DEF PartNext, partVars, cancelVars, C!vars, DueStep
    <2>2. CASE part = "cancellation"
      <3>1. C!Next
        BY <2>2 DEF PartNext, partVars, cancelVars, C!vars
      <3> QED BY <2>2, <3>1, StepDue DEF PartInv
    <2> QED BY <2>1, <2>2 DEF PartInv
  <1> QED BY <1>1, PartInvariance, PTL
      DEF PartSpec, partVars, WaitsUntilDue, C!WaitsUntilDue, DueStep
=============================================================================
