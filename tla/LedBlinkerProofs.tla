------------------------- MODULE LedBlinkerProofs -------------------------
(***************************************************************************)
(* What holds of LedBlinker for every set of commands and every timeout:   *)
(* the type invariant, that the LEDs follow the state and the setting, and *)
(* that a fade of any length between any two levels is smooth.             *)
(***************************************************************************)
EXTENDS LedBlinker, SequenceTheorems, TLAPS

Fade == [start : 0 .. MaxAlpha, target : 0 .. MaxAlpha,
         remaining : 0 .. MaxMs, total : 0 .. MaxMs]
Fading(f) == f \in Fade /\ f.remaining <= f.total

----------------------------------------------------------------------------
(* The arithmetic of a fade *)

\* A part e of t of c, rounded down, is at most c.
LEMMA PartBounds ==
  ASSUME NEW c \in Nat, NEW t \in Nat \ {0}, NEW e \in 0 .. t
  PROVE  (c * e) \div t \in 0 .. c
<1>1. c * e \in Nat /\ c * e <= c * t
  OBVIOUS
<1> DEFINE q == (c * e) \div t
<1>2. q \in Int /\ t * q <= c * e /\ c * e < t * (q + 1)
  BY <1>1
<1> HIDE DEF q
<1>3. q >= 0
  <2> SUFFICES ASSUME q + 1 <= 0 PROVE FALSE
    BY <1>2
  <2>1. t * (q + 1) <= 0
    BY <1>2
  <2> QED
    BY <1>1, <1>2, <2>1
<1>4. q <= c
  <2> SUFFICES ASSUME q >= c + 1 PROVE FALSE
    BY <1>2
  <2>1. t * q >= t * (c + 1)
    BY <1>2
  <2>2. t * (c + 1) = c * t + t
    OBVIOUS
  <2> QED
    BY <1>1, <1>2, <2>1, <2>2
<1> QED
  BY <1>2, <1>3, <1>4 DEF q

\* More of it is not less.
LEMMA PartGrows ==
  ASSUME NEW c \in Nat, NEW t \in Nat \ {0}, NEW e \in 0 .. t, NEW d \in 0 .. t, e <= d
  PROVE  (c * e) \div t <= (c * d) \div t
<1>1. c * e \in Nat /\ c * d \in Nat /\ c * e <= c * d
  OBVIOUS
<1> DEFINE q == (c * e) \div t
           r == (c * d) \div t
<1>2. q \in Int /\ t * q <= c * e
  BY <1>1
<1>3. r \in Int /\ c * d < t * (r + 1)
  BY <1>1
<1> HIDE DEF q, r
<1>4. q <= r
  <2> SUFFICES ASSUME q >= r + 1 PROVE FALSE
    BY <1>2, <1>3
  <2>1. t * q >= t * (r + 1)
    BY <1>2, <1>3
  <2> QED
    BY <1>1, <1>2, <1>3, <2>1
<1> QED
  BY <1>4 DEF q, r

\* A fade is between its ends, and its level is the start moved by a part.
LEMMA LevelOfFade ==
  ASSUME NEW s \in 0 .. MaxAlpha, NEW g \in 0 .. MaxAlpha,
         NEW t \in Nat \ {0}, NEW e \in 0 .. t
  PROVE  interpolate(s, g, e, t) =
           IF s <= g THEN s + ((g - s) * e) \div t ELSE s - ((s - g) * e) \div t
<1>1. CASE s <= g
  <2>1. g - s \in Nat /\ (g - s) * e \in Nat
    BY <1>1 DEF MaxAlpha
  <2>2. ((g - s) * e) \div t \in 0 .. g - s
    BY <2>1, PartBounds
  <2> QED
    BY <1>1, <2>1, <2>2 DEF interpolate, Quotient, Min2, Max2, MaxAlpha
<1>2. CASE s > g
  <2>1. s - g \in Nat /\ (s - g) * e \in Nat /\ -((g - s) * e) = (s - g) * e
    BY <1>2 DEF MaxAlpha
  <2>2. ((s - g) * e) \div t \in 0 .. s - g
    BY <2>1, PartBounds
  <2>3. Quotient((g - s) * e, t) = -(((s - g) * e) \div t)
    <3>1. CASE (g - s) * e >= 0
      <4>1. (s - g) * e = 0 /\ (g - s) * e = 0
        BY <2>1, <3>1
      <4>2. 0 \div t = 0
        OBVIOUS
      <4> QED
        BY <3>1, <4>1, <4>2 DEF Quotient
    <3>2. CASE ~((g - s) * e >= 0)
      BY <2>1, <3>2 DEF Quotient
    <3> QED
      BY <3>1, <3>2
  <2> QED
    BY <1>2, <2>2, <2>3 DEF interpolate, Min2, Max2, MaxAlpha
<1> QED
  BY <1>1, <1>2 DEF MaxAlpha

LEMMA InterpolateAtStart ==
  ASSUME NEW s \in 0 .. MaxAlpha, NEW g \in 0 .. MaxAlpha, NEW t \in Nat \ {0}
  PROVE  interpolate(s, g, 0, t) = s
<1>1. (g - s) * 0 = 0 /\ 0 \div t = 0
  BY DEF MaxAlpha
<1> QED
  BY <1>1 DEF interpolate, Quotient, Min2, Max2, MaxAlpha

LEMMA CurrentInRange ==
  ASSUME NEW f, Fading(f)
  PROVE  Current(f) \in 0 .. MaxAlpha
<1> DEFINE s == f.start
           g == f.target
           t == f.total
           e == f.total - f.remaining
<1>0. Current(f) = interpolate(s, g, e, t)
  BY DEF Current
<1>1. s \in 0 .. MaxAlpha /\ g \in 0 .. MaxAlpha /\ t \in Nat /\ e \in 0 .. t
  BY DEF Fading, Fade
<1> HIDE DEF s, g, t, e
<1>2. CASE t = 0
  BY <1>0, <1>1, <1>2 DEF interpolate
<1>3. CASE t # 0
  <2>1. CASE s <= g
    <3>1. g - s \in Nat
      BY <1>1, <2>1 DEF MaxAlpha
    <3>2. ((g - s) * e) \div t \in 0 .. g - s
      BY <1>1, <1>3, <3>1, PartBounds
    <3>3. Current(f) = s + ((g - s) * e) \div t
      BY <1>0, <1>1, <1>3, <2>1, LevelOfFade
    <3>4. PICK p \in 0 .. g - s : Current(f) = s + p
      BY <3>2, <3>3
    <3> QED
      BY <1>1, <2>1, <3>1, <3>4 DEF MaxAlpha
  <2>2. CASE s > g
    <3>1. s - g \in Nat
      BY <1>1, <2>2 DEF MaxAlpha
    <3>2. ((s - g) * e) \div t \in 0 .. s - g
      BY <1>1, <1>3, <3>1, PartBounds
    <3>3. Current(f) = s - ((s - g) * e) \div t
      BY <1>0, <1>1, <1>3, <2>2, LevelOfFade
    <3>4. PICK p \in 0 .. s - g : Current(f) = s - p
      BY <3>2, <3>3
    <3> QED
      BY <1>1, <2>2, <3>1, <3>4 DEF MaxAlpha
  <2> QED
    BY <1>1, <2>1, <2>2 DEF MaxAlpha
<1> QED
  BY <1>2, <1>3

LEMMA MaxMsNat == MaxMs \in Nat
BY DEF MaxMs

LEMMA AdvanceTyped ==
  ASSUME NEW f, Fading(f)
  PROVE  /\ Fading(advance(f))
         /\ advance(f).start = f.start /\ advance(f).target = f.target
         /\ advance(f).total = f.total
         /\ advance(f).remaining = Max2(0, f.remaining - FrameMs)
<1> DEFINE m == Max2(0, f.remaining - FrameMs)
<1>1. m \in 0 .. MaxMs /\ m <= f.total
  <2>1. f.remaining \in 0 .. MaxMs /\ f.remaining <= f.total /\ f.total \in 0 .. MaxMs
    BY DEF Fading, Fade
  <2> QED
    BY <2>1, MaxMsNat DEF Max2, FrameMs
<1>2. advance(f) = [f EXCEPT !.remaining = m]
  BY DEF advance
<1> HIDE DEF m
<1>3. /\ [f EXCEPT !.remaining = m] \in Fade
      /\ [f EXCEPT !.remaining = m].start = f.start
      /\ [f EXCEPT !.remaining = m].target = f.target
      /\ [f EXCEPT !.remaining = m].total = f.total
      /\ [f EXCEPT !.remaining = m].remaining = m
  BY <1>1 DEF Fading, Fade
<1> QED
  BY <1>1, <1>2, <1>3 DEF Fading, m

\* A frame moves the level towards the target and not past it.
LEMMA AdvanceSmooth ==
  ASSUME NEW f, Fading(f)
  PROVE  Between(Current(f), Current(advance(f)), f.target)
<1> DEFINE s == f.start
           g == f.target
           t == f.total
           e == f.total - f.remaining
           d == f.total - Max2(0, f.remaining - FrameMs)
<1>1. /\ s \in 0 .. MaxAlpha /\ g \in 0 .. MaxAlpha /\ t \in Nat
      /\ e \in 0 .. t /\ d \in 0 .. t /\ e <= d
  BY DEF Fading, Fade, Max2, FrameMs
<1>0. /\ Current(f) = interpolate(s, g, e, t) /\ Current(advance(f)) = interpolate(s, g, d, t)
      /\ f.target = g
  BY AdvanceTyped DEF Current
<1> HIDE DEF s, g, e, d, t
<1>2. CASE t = 0
  BY <1>0, <1>1, <1>2 DEF interpolate, Between, MaxAlpha
<1>3. CASE t # 0
  <2>1. CASE s <= g
    <3>1. g - s \in Nat
      BY <1>1, <2>1 DEF MaxAlpha
    <3>2. /\ ((g - s) * e) \div t \in 0 .. g - s /\ ((g - s) * d) \div t \in 0 .. g - s
          /\ ((g - s) * e) \div t <= ((g - s) * d) \div t
      BY <1>1, <1>3, <3>1, PartBounds, PartGrows
    <3>3. /\ Current(f) = s + ((g - s) * e) \div t
          /\ Current(advance(f)) = s + ((g - s) * d) \div t
      BY <1>0, <1>1, <1>3, <2>1, LevelOfFade
    <3> QED
      BY <1>0, <1>1, <3>2, <3>3 DEF Between, MaxAlpha
  <2>2. CASE ~(s <= g)
    <3>1. s - g \in Nat
      BY <1>1, <2>2 DEF MaxAlpha
    <3>2. /\ ((s - g) * e) \div t \in 0 .. s - g /\ ((s - g) * d) \div t \in 0 .. s - g
          /\ ((s - g) * e) \div t <= ((s - g) * d) \div t
      BY <1>1, <1>3, <3>1, PartBounds, PartGrows
    <3>3. /\ Current(f) = s - ((s - g) * e) \div t
          /\ Current(advance(f)) = s - ((s - g) * d) \div t
      BY <1>0, <1>1, <1>3, <2>2, LevelOfFade
    <3> QED
      BY <1>0, <1>1, <3>2, <3>3 DEF Between, MaxAlpha
  <2> QED
    BY <2>1, <2>2
<1> QED
  BY <1>2, <1>3

\* A new fade begins where the last one was.
LEMMA SetTargetSmooth ==
  ASSUME NEW f, Fading(f), NEW c, c.alpha \in 0 .. MaxAlpha, c.ms \in 0 .. MaxMs
  PROVE  /\ Fading(set_target(f, c))
         /\ set_target(f, c).total > 0 => Current(set_target(f, c)) = Current(f)
<1>1. Current(f) \in 0 .. MaxAlpha
  BY CurrentInRange
<1>2. CASE c.ms \div FrameMs = 0
  <2>1. set_target(f, c)
          = [start |-> c.alpha, target |-> c.alpha, remaining |-> 0, total |-> 0]
    BY <1>2 DEF set_target
  <2> QED
    BY <2>1, MaxMsNat DEF Fading, Fade
<1>3. CASE c.ms \div FrameMs # 0
  <2> DEFINE new == [start |-> Current(f), target |-> c.alpha, remaining |-> c.ms, total |-> c.ms]
  <2>1. set_target(f, c) = new
    BY <1>3 DEF set_target
  <2>2. Fading(new)
    BY <1>1 DEF Fading, Fade
  <2>3. c.ms \in Nat \ {0}
    BY <1>3 DEF FrameMs
  <2>4. c.ms - c.ms = 0
    BY <2>3
  <2>5. Current(new) = interpolate(Current(f), c.alpha, 0, c.ms)
    BY <2>4 DEF Current
  <2>6. interpolate(Current(f), c.alpha, 0, c.ms) = Current(f)
    BY <1>1, <2>3, InterpolateAtStart
  <2>7. Current(new) = Current(f)
    BY <2>5, <2>6
  <2> QED
    BY <2>1, <2>2, <2>7
<1> QED
  BY <1>2, <1>3

----------------------------------------------------------------------------
(***************************************************************************)
(* What is on its way.  Of the events of a kind K, the last one on the     *)
(* queue, or if there is none the last one taken, is a right one.          *)
(***************************************************************************)
Settles(q, K, right, taken) ==
  /\ \A i \in 1 .. Len(q) :
       q[i] \in K /\ (\A j \in i + 1 .. Len(q) : q[j] \notin K) => q[i] \in right
  /\ (\A i \in 1 .. Len(q) : q[i] \notin K) => taken \in right

Settings == {SetBrightness(b) : b \in Brightnesses}
RightSettings == {SetBrightness(setting)}
RightPatterns == {SetPattern(state)} \union {SetPattern(p) : p \in {x \in {Alarm} : alarmed}}

BrightnessComes ==
  /\ i2c \in Settings => i2c \in RightSettings
  /\ i2c \notin Settings
       => Settles(queue, Settings, RightSettings, SetBrightness(brightness))
PatternComes ==
  /\ machine \in Patterns => machine \in RightPatterns
  /\ machine \notin Patterns
       => Settles(queue, Patterns, RightPatterns, SetPattern(pattern))

Inv == TypeOK /\ BrightnessComes /\ PatternComes

LEMMA SettlesOther ==
  ASSUME NEW S, NEW q \in Seq(S), NEW e \in S, NEW K, NEW right, NEW taken,
         e \notin K, Settles(q, K, right, taken)
  PROVE  Settles(Append(q, e), K, right, taken)
<1>1. /\ Len(q) \in Nat /\ Len(Append(q, e)) = Len(q) + 1
      /\ \A i \in 1 .. Len(q) : Append(q, e)[i] = q[i]
      /\ Append(q, e)[Len(q) + 1] = e
  OBVIOUS
<1> DEFINE r == Append(q, e)
<1> HIDE DEF r
<1>2. ASSUME NEW i \in 1 .. Len(r), r[i] \in K, \A j \in i + 1 .. Len(r) : r[j] \notin K
      PROVE  r[i] \in right
  <2>1. i \in 1 .. Len(q)
    BY <1>1, <1>2 DEF r
  <2>2. \A j \in i + 1 .. Len(q) : q[j] \notin K
    BY <1>1, <1>2, <2>1 DEF r
  <2> QED
    BY <1>1, <1>2, <2>1, <2>2 DEF r, Settles
<1>3. ASSUME \A i \in 1 .. Len(r) : r[i] \notin K
      PROVE  taken \in right
  <2>1. \A i \in 1 .. Len(q) : q[i] \notin K
    BY <1>1, <1>3 DEF r
  <2> QED
    BY <2>1 DEF Settles
<1> QED
  BY <1>2, <1>3 DEF Settles, r

LEMMA SettlesRight ==
  ASSUME NEW S, NEW q \in Seq(S), NEW e \in S, NEW K, NEW right, NEW taken,
         e \in K, e \in right
  PROVE  Settles(Append(q, e), K, right, taken)
<1>1. /\ Len(q) \in Nat /\ Len(Append(q, e)) = Len(q) + 1
      /\ Append(q, e)[Len(q) + 1] = e
  OBVIOUS
<1> DEFINE r == Append(q, e)
<1> HIDE DEF r
<1>2. ASSUME NEW i \in 1 .. Len(r), \A j \in i + 1 .. Len(r) : r[j] \notin K
      PROVE  r[i] \in right
  <2>1. i = Len(q) + 1
    BY <1>1, <1>2 DEF r
  <2> QED
    BY <1>1, <2>1 DEF r
<1>3. \E i \in 1 .. Len(r) : r[i] \in K
  BY <1>1 DEF r
<1> QED
  BY <1>2, <1>3 DEF Settles, r

LEMMA SettlesTail ==
  ASSUME NEW S, NEW q \in Seq(S), q # <<>>, NEW K, NEW right, NEW taken,
         Settles(q, K, right, taken)
  PROVE  /\ Head(q) \in K => Settles(Tail(q), K, right, Head(q))
         /\ Head(q) \notin K => Settles(Tail(q), K, right, taken)
<1>1. /\ Len(q) \in Nat \ {0} /\ Len(Tail(q)) = Len(q) - 1 /\ Head(q) = q[1]
      /\ \A i \in 1 .. Len(q) - 1 : Tail(q)[i] = q[i + 1]
  BY HeadTailProperties, LenProperties, EmptySeq
<1> DEFINE r == Tail(q)
<1> HIDE DEF r
<1>2. ASSUME NEW i \in 1 .. Len(r), r[i] \in K, \A j \in i + 1 .. Len(r) : r[j] \notin K
      PROVE  r[i] \in right
  <2>1. i + 1 \in 1 .. Len(q) /\ q[i + 1] = r[i]
    BY <1>1 DEF r
  <2>2. ASSUME NEW j \in (i + 1) + 1 .. Len(q) PROVE q[j] \notin K
    <3>1. j - 1 \in i + 1 .. Len(r) /\ (j - 1) + 1 = j
      BY <1>1 DEF r
    <3> QED
      BY <1>1, <1>2, <3>1 DEF r
  <2> QED
    BY <1>2, <2>1, <2>2 DEF Settles
<1>3. ASSUME \A i \in 1 .. Len(r) : r[i] \notin K
      PROVE  \A j \in 2 .. Len(q) : q[j] \notin K
  <2> TAKE j \in 2 .. Len(q)
  <2>1. j - 1 \in 1 .. Len(r) /\ (j - 1) + 1 = j
    BY <1>1 DEF r
  <2> QED
    BY <1>1, <1>3, <2>1 DEF r
<1>4. ASSUME \A i \in 1 .. Len(r) : r[i] \notin K, q[1] \in K
      PROVE  q[1] \in right
  <2>1. 1 \in 1 .. Len(q) /\ \A j \in 1 + 1 .. Len(q) : q[j] \notin K
    BY <1>1, <1>3, <1>4
  <2> QED
    BY <1>4, <2>1 DEF Settles
<1>5. ASSUME \A i \in 1 .. Len(r) : r[i] \notin K, q[1] \notin K
      PROVE  taken \in right
  <2>1. \A i \in 1 .. Len(q) : q[i] \notin K
    BY <1>1, <1>3, <1>5
  <2> QED
    BY <2>1 DEF Settles
<1> QED
  BY <1>1, <1>2, <1>4, <1>5 DEF Settles, r

LEMMA Kinds ==
  /\ Nothing \notin Patterns /\ Nothing \notin Settings /\ Settings \subseteq Requests
  /\ \A e \in Patterns : e.kind = "pattern" /\ e.pattern \in States \union {Alarm}
                           /\ e = SetPattern(e.pattern) /\ e \notin Requests
  /\ \A e \in Requests :
       \/ e \in Settings /\ e.kind = "brightness" /\ e.brightness \in Brightnesses
          /\ e = SetBrightness(e.brightness)
       \/ e \notin Settings /\ e.kind = "overrides"
          /\ e.alpha \in 0 .. MaxAlpha /\ e.ms \in 0 .. MaxMs
  /\ \A e \in Requests : e \notin Patterns
<1>1. \A e \in Patterns : e.kind = "pattern" /\ e.pattern \in States \union {Alarm}
                             /\ e = SetPattern(e.pattern)
  BY DEF Patterns, SetPattern
<1>2. \A e \in Settings : e.kind = "brightness" /\ e.brightness \in Brightnesses
                             /\ e = SetBrightness(e.brightness)
  BY DEF Settings, SetBrightness
<1>3. \A c \in Commands : /\ SetOverrides(c).kind = "overrides"
                           /\ SetOverrides(c).alpha = c.alpha /\ SetOverrides(c).ms = c.ms
                           /\ c.alpha \in 0 .. MaxAlpha /\ c.ms \in 0 .. MaxMs
  BY ConstantsAssumption DEF SetOverrides
<1>4. Nothing.kind = "nothing"
  BY DEF Nothing
<1>5. Requests = Settings \union {SetOverrides(c) : c \in Commands}
  BY DEF Requests, Settings
<1> QED
  BY <1>1, <1>2, <1>3, <1>4, <1>5

LEMMA InitInv == Init => Inv
<1> SUFFICES ASSUME Init PROVE Inv
  OBVIOUS
<1>1. TypeOK
  <2>1. Cleared \in Fade /\ Cleared.remaining <= Cleared.total
    BY MaxMsNat DEF Cleared, Fade, MaxAlpha
  <2>2. queue \in Seq(Patterns \union Requests) /\ Len(queue) <= Room
    BY ConstantsAssumption, EmptySeq DEF Init
  <2>3. age \in NotSet .. Timeout
    BY ConstantsAssumption DEF Init, NotSet
  <2> QED
    BY <2>1, <2>2, <2>3 DEF Init, TypeOK, Fade
<1>2. Len(queue) = 0
  BY EmptySeq DEF Init
<1>3. BrightnessComes
  BY <1>2, Kinds DEF Init, BrightnessComes, Settles, RightSettings
<1>4. PatternComes
  BY <1>2, Kinds DEF Init, PatternComes, Settles, RightPatterns
<1> QED
  BY <1>1, <1>3, <1>4 DEF Inv

\* What a sender does to what is on its way.
LEMMA MachineSendsInv ==
  ASSUME Inv, MachineSends
  PROVE  Inv'
<1>1. /\ queue \in Seq(Patterns \union Requests) /\ machine \in Patterns
      /\ queue' = Append(queue, machine) /\ Len(queue) < Room
  BY DEF Inv, TypeOK, MachineSends
<1>2. TypeOK'
  <2>1. /\ Append(queue, machine) \in Seq(Patterns \union Requests)
        /\ Len(Append(queue, machine)) <= Room
    BY <1>1, ConstantsAssumption, AppendProperties, LenProperties
  <2> QED
    BY <1>1, <2>1, Kinds DEF Inv, TypeOK, MachineSends, led, host
<1>3. BrightnessComes'
  <2>1. machine \notin Settings
    BY <1>1, Kinds
  <2>2. i2c \notin Settings
          => Settles(queue', Settings, RightSettings, SetBrightness(brightness))
    BY <1>1, <2>1, SettlesOther DEF Inv, BrightnessComes
  <2> QED
    BY <2>2 DEF Inv, BrightnessComes, RightSettings, MachineSends, led, host
<1>4. PatternComes'
  <2>1. machine \in RightPatterns
    BY <1>1 DEF Inv, PatternComes
  <2>2. Settles(queue', Patterns, RightPatterns, SetPattern(pattern))
    BY <1>1, <2>1, SettlesRight
  <2> QED
    BY <2>2, Kinds DEF PatternComes, RightPatterns, MachineSends, led
<1> QED
  BY <1>2, <1>3, <1>4 DEF Inv

LEMMA I2cSendsInv ==
  ASSUME Inv, I2cSends
  PROVE  Inv'
<1>1. /\ queue \in Seq(Patterns \union Requests) /\ i2c \in Requests
      /\ queue' = Append(queue, i2c) /\ Len(queue) < Room
  BY DEF Inv, TypeOK, I2cSends
<1>2. TypeOK'
  <2>1. /\ Append(queue, i2c) \in Seq(Patterns \union Requests)
        /\ Len(Append(queue, i2c)) <= Room
    BY <1>1, ConstantsAssumption, AppendProperties, LenProperties
  <2> QED
    BY <1>1, <2>1, Kinds DEF Inv, TypeOK, I2cSends, led, power
<1>3. BrightnessComes'
  <2>1. Settles(queue', Settings, RightSettings, SetBrightness(brightness))
    <3>1. CASE i2c \in Settings
      BY <1>1, <3>1, SettlesRight DEF Inv, BrightnessComes
    <3>2. CASE i2c \notin Settings
      BY <1>1, <3>2, SettlesOther DEF Inv, BrightnessComes
    <3> QED
      BY <3>1, <3>2
  <2> QED
    BY <2>1, Kinds DEF BrightnessComes, RightSettings, I2cSends, led
<1>4. PatternComes'
  <2>1. machine \notin Patterns
          => Settles(queue', Patterns, RightPatterns, SetPattern(pattern))
    BY <1>1, Kinds, SettlesOther DEF Inv, PatternComes
  <2> QED
    BY <2>1 DEF Inv, PatternComes, RightPatterns, I2cSends, led, power
<1> QED
  BY <1>2, <1>3, <1>4 DEF Inv

LEMMA TakeInv ==
  ASSUME Inv, Receive, Take
  PROVE  Inv'
<1> DEFINE event == Head(queue)
<1>1. /\ queue \in Seq(Patterns \union Requests) /\ queue # <<>> /\ queue' = Tail(queue)
      /\ event \in Patterns \union Requests
      /\ Tail(queue) \in Seq(Patterns \union Requests) /\ Len(Tail(queue)) <= Room
  <2>1. queue \in Seq(Patterns \union Requests) /\ queue # <<>> /\ Len(queue) <= Room
    BY DEF Inv, TypeOK, Take
  <2> QED
    BY <2>1, ConstantsAssumption, HeadTailProperties, LenProperties DEF Take
<1>u. /\ UNCHANGED <<setting, i2c, state, recorded, alarmed, machine>> /\ phase' = "update"
  BY DEF Receive, host, power
<1>2. TypeOK'
  <2>1. pattern' \in States \union {Alarm} /\ brightness' \in Brightnesses
    BY <1>1, Kinds DEF Inv, TypeOK, Take
  <2>2. fade' \in Fade /\ fade'.remaining <= fade'.total
    <3>1. Fading(fade)
      BY DEF Inv, TypeOK, Fading, Fade
    <3>2. CASE event.kind = "pattern"
      <4>1. fade' = Cleared
        BY <3>2 DEF Take
      <4> QED
        BY <4>1, MaxMsNat DEF Cleared, Fade, MaxAlpha
    <3>3. CASE event.kind = "overrides"
      <4>1. fade' = set_target(fade, event)
        BY <3>3 DEF Take
      <4>2. event.alpha \in 0 .. MaxAlpha /\ event.ms \in 0 .. MaxMs
        BY <1>1, <3>3, Kinds
      <4>3. Fading(set_target(fade, event))
        BY <3>1, <4>2, SetTargetSmooth
      <4> QED
        BY <4>1, <4>3 DEF Fading
    <3>4. CASE event.kind \notin {"pattern", "overrides"}
      BY <3>1, <3>4 DEF Take, Fading
    <3> QED
      BY <3>2, <3>3, <3>4
  <2>3. age' \in NotSet .. Timeout
    BY ConstantsAssumption DEF Inv, TypeOK, Take, NotSet
  <2> QED
    BY <1>1, <1>u, <2>1, <2>2, <2>3 DEF Inv, TypeOK, Fade
<1>3. BrightnessComes'
  <2>1. SUFFICES ASSUME i2c \notin Settings
                 PROVE  Settles(Tail(queue), Settings, RightSettings, SetBrightness(brightness'))
    BY <1>1, <1>u DEF Inv, BrightnessComes, RightSettings
  <2>2. Settles(queue, Settings, RightSettings, SetBrightness(brightness))
    BY <2>1 DEF Inv, BrightnessComes
  <2>3. CASE event \in Settings
    <3>1. event = SetBrightness(brightness')
      BY <1>1, <2>3, Kinds DEF Take
    <3> QED
      BY <1>1, <2>2, <2>3, <3>1, SettlesTail
  <2>4. CASE event \notin Settings
    <3>1. brightness' = brightness
      BY <1>1, <2>4, Kinds DEF Take
    <3> QED
      BY <1>1, <2>2, <2>4, <3>1, SettlesTail
  <2> QED
    BY <2>3, <2>4
<1>4. PatternComes'
  <2>1. SUFFICES ASSUME machine \notin Patterns
                 PROVE  Settles(Tail(queue), Patterns, RightPatterns, SetPattern(pattern'))
    BY <1>1, <1>u DEF Inv, PatternComes, RightPatterns
  <2>2. Settles(queue, Patterns, RightPatterns, SetPattern(pattern))
    BY <2>1 DEF Inv, PatternComes
  <2>3. CASE event \in Patterns
    <3>1. event = SetPattern(pattern')
      BY <1>1, <2>3, Kinds DEF Take
    <3> QED
      BY <1>1, <2>2, <2>3, <3>1, SettlesTail
  <2>4. CASE event \notin Patterns
    <3>1. pattern' = pattern
      BY <1>1, <2>4, Kinds DEF Take
    <3> QED
      BY <1>1, <2>2, <2>4, <3>1, SettlesTail
  <2> QED
    BY <2>3, <2>4
<1> QED
  BY <1>2, <1>3, <1>4 DEF Inv

LEMMA UpdateFades ==
  ASSUME Inv, Update
  PROVE  /\ Fading(fade) /\ Fading(fade') /\ age' \in NotSet .. Timeout
         /\ age # NotSet /\ age' # NotSet => fade' = advance(fade)
<1>1. Fading(fade) /\ age \in NotSet .. Timeout
  BY DEF Inv, TypeOK, Fading, Fade
<1>2. CASE age = NotSet
  BY <1>1, <1>2 DEF Update
<1>3. CASE age # NotSet
  <2>1. PICK late \in 0 .. Late : apply_overrides(age + 1 + late)
    BY <1>3 DEF Update
  <2>2. CASE age + 1 + late > Timeout
    <3>1. fade' = Cleared /\ age' = NotSet
      BY <2>1, <2>2 DEF apply_overrides
    <3>2. Fading(Cleared)
      BY MaxMsNat DEF Cleared, Fading, Fade, MaxAlpha
    <3> QED
      BY <1>1, <3>1, <3>2, ConstantsAssumption DEF NotSet
  <2>3. CASE ~(age + 1 + late > Timeout)
    <3>1. fade' = advance(fade) /\ age' = age + 1 + late
      BY <2>1, <2>3 DEF apply_overrides
    <3>2. Fading(advance(fade))
      BY <1>1, AdvanceTyped
    <3> QED
      BY <1>1, <1>3, <2>3, <3>1, <3>2, ConstantsAssumption DEF NotSet
  <2> QED
    BY <2>2, <2>3
<1> QED
  BY <1>2, <1>3

LEMMA NextInv == Inv /\ [Next]_vars => Inv'
<1> SUFFICES ASSUME Inv, [Next]_vars PROVE Inv'
  OBVIOUS
<1>1. CASE Receive
  <2>1. CASE Take
    BY <1>1, <2>1, TakeInv
  <2>2. CASE UNCHANGED <<queue, pattern, fade, age, brightness>>
    <3>1. TypeOK'
      BY <1>1, <2>2 DEF Receive, host, power, Inv, TypeOK
    <3>2. BrightnessComes' /\ PatternComes'
      BY <1>1, <2>2 DEF Receive, host, power, Inv, BrightnessComes, PatternComes,
                        RightSettings, RightPatterns
    <3> QED
      BY <3>1, <3>2 DEF Inv
  <2> QED
    BY <1>1, <2>1, <2>2 DEF Receive
<1>2. CASE Update
  <2>1. TypeOK'
    <3>1. Fading(fade') /\ age' \in NotSet .. Timeout
      BY <1>2, UpdateFades
    <3> QED
      BY <1>2, <3>1 DEF Update, host, power, Inv, TypeOK, Fading, Fade
  <2>2. BrightnessComes' /\ PatternComes'
    BY <1>2 DEF Update, host, power, Inv, BrightnessComes, PatternComes,
                RightSettings, RightPatterns
  <2> QED
    BY <2>1, <2>2 DEF Inv
<1>3. CASE Overvoltage
  <2>1. TypeOK'
    BY <1>3 DEF Overvoltage, led, host, Inv, TypeOK, Patterns
  <2>2. BrightnessComes'
    BY <1>3 DEF Overvoltage, led, host, Inv, BrightnessComes, RightSettings
  <2>3. machine' \in Patterns /\ machine' \in RightPatterns'
    BY <1>3 DEF Overvoltage, Patterns, RightPatterns
  <2> QED
    BY <2>1, <2>2, <2>3 DEF Inv, PatternComes
<1>4. ASSUME NEW s \in States, Transition(s) PROVE Inv'
  <2>1. TypeOK'
    BY <1>4 DEF Transition, led, host, Inv, TypeOK, Patterns
  <2>2. BrightnessComes'
    BY <1>4 DEF Transition, led, host, Inv, BrightnessComes, RightSettings
  <2>3. machine' \in Patterns /\ machine' \in RightPatterns'
    BY <1>4 DEF Transition, Patterns, RightPatterns
  <2> QED
    BY <2>1, <2>2, <2>3 DEF Inv, PatternComes
<1>5. ASSUME NEW c \in Commands, I2cOverrides(c) PROVE Inv'
  <2>1. TypeOK'
    BY <1>5 DEF I2cOverrides, led, power, Inv, TypeOK, Requests
  <2>2. SetOverrides(c) \notin Settings
    BY DEF SetOverrides, Settings, SetBrightness
  <2>3. BrightnessComes'
    BY <1>5, <2>2, Kinds DEF I2cOverrides, led, Inv, BrightnessComes, RightSettings
  <2>4. PatternComes'
    BY <1>5 DEF I2cOverrides, led, power, Inv, PatternComes, RightPatterns
  <2> QED
    BY <2>1, <2>3, <2>4 DEF Inv
<1>6. ASSUME NEW b \in Brightnesses, I2cBrightness(b) PROVE Inv'
  <2>1. TypeOK'
    BY <1>6 DEF I2cBrightness, led, power, Inv, TypeOK, Requests
  <2>2. i2c' \in Settings /\ i2c' \in RightSettings'
    BY <1>6 DEF I2cBrightness, Settings, RightSettings
  <2>3. PatternComes'
    BY <1>6 DEF I2cBrightness, led, power, Inv, PatternComes, RightPatterns
  <2> QED
    BY <2>1, <2>2, <2>3 DEF Inv, BrightnessComes
<1>7. CASE UNCHANGED vars
  <2>1. TypeOK'
    BY <1>7 DEF vars, led, host, power, Inv, TypeOK
  <2>2. BrightnessComes' /\ PatternComes'
    BY <1>7 DEF vars, led, host, power, Inv, BrightnessComes, PatternComes,
                RightSettings, RightPatterns
  <2> QED
    BY <2>1, <2>2 DEF Inv
<1> QED
  BY <1>1, <1>2, <1>3, <1>4, <1>5, <1>6, <1>7, MachineSendsInv, I2cSendsInv DEF Next

LEMMA SpecInv == Spec => []Inv
BY InitInv, NextInv, PTL DEF Spec

----------------------------------------------------------------------------
(* Theorems *)

\* The queue never holds more than it has room for, and a fade never has more
\* left than its length, whatever the commands.
THEOREM TypeCorrect == Spec => []TypeOK
<1>1. Inv => TypeOK
  BY DEF Inv
<1> QED
  BY <1>1, SpecInv, PTL

\* Whatever the order in which the state machine and the I2C task get room on
\* the queue, the LEDs end up with the pattern and the brightness sent last.
THEOREM LedsFollowHolds == Spec => []LedsFollow
<1>1. Inv => LedsFollow
  <2> SUFFICES ASSUME Inv, queue = <<>>, machine = Nothing, i2c = Nothing
               PROVE  brightness = setting /\ (pattern = state \/ (alarmed /\ pattern = Alarm))
    BY DEF LedsFollow
  <2>1. \A i \in 1 .. Len(queue) : queue[i] \notin Settings /\ queue[i] \notin Patterns
    BY EmptySeq
  <2>2. SetBrightness(brightness) \in RightSettings
    BY <2>1, Kinds DEF Inv, BrightnessComes, Settles
  <2>3. SetPattern(pattern) \in RightPatterns
    BY <2>1, Kinds DEF Inv, PatternComes, Settles
  <2>4. brightness = setting
    BY <2>2 DEF RightSettings, SetBrightness
  <2>5. pattern = state \/ (alarmed /\ pattern = Alarm)
    BY <2>3 DEF RightPatterns, SetPattern
  <2> QED
    BY <2>4, <2>5
<1> QED
  BY <1>1, SpecInv, PTL

\* Every fade, of any length between any two levels and interrupted at any time,
\* moves towards its target without passing it, and the next one begins at the
\* level it was interrupted at: rounding never makes a level jump.
THEOREM FadesAreSmoothHolds == Spec => FadesAreSmooth
<1> DEFINE Smooth ==
      age # NotSet /\ age' # NotSet =>
        IF queue' = queue THEN Between(Current(fade), Current(fade'), fade.target)
        ELSE fade.total' > 0 => Current(fade') = Current(fade)
<1>1. ASSUME Inv, [Next]_vars PROVE [Smooth]_<<fade, age>>
  <2>0. Fading(fade)
    BY <1>1 DEF Inv, TypeOK, Fading, Fade
  <2>1. CASE Update
    <3>1. queue' = queue
      BY <2>1 DEF Update
    <3>2. SUFFICES ASSUME age # NotSet, age' # NotSet
                   PROVE  Between(Current(fade), Current(fade'), fade.target)
      BY <3>1
    <3>3. fade' = advance(fade)
      BY <1>1, <2>1, <3>2, UpdateFades
    <3> QED
      BY <2>0, <3>3, AdvanceSmooth
  <2>2. CASE Receive /\ Take
    <3>1. queue' # queue
      <4>1. queue \in Seq(Patterns \union Requests) /\ queue # <<>> /\ queue' = Tail(queue)
        BY <1>1, <2>2 DEF Inv, TypeOK, Take
      <4>2. Len(queue) \in Nat /\ Len(Tail(queue)) = Len(queue) - 1
        BY <4>1, HeadTailProperties, LenProperties
      <4>3. Len(Tail(queue)) # Len(queue)
        BY <4>2
      <4> QED
        BY <4>1, <4>3
    <3>2. SUFFICES ASSUME age # NotSet, age' # NotSet, fade.total' > 0
                   PROVE  Current(fade') = Current(fade)
      BY <3>1
    <3>3. CASE Head(queue).kind = "pattern"
      BY <2>2, <3>2, <3>3 DEF Take
    <3>4. CASE Head(queue).kind = "overrides"
      <4>1. Head(queue) \in Patterns \union Requests
        BY <1>1, <2>2, HeadTailProperties DEF Inv, TypeOK, Take
      <4>2. Head(queue).alpha \in 0 .. MaxAlpha /\ Head(queue).ms \in 0 .. MaxMs
        BY <3>4, <4>1, Kinds
      <4>3. fade' = set_target(fade, Head(queue))
        BY <2>2, <3>4 DEF Take
      <4> QED
        BY <2>0, <3>2, <4>2, <4>3, SetTargetSmooth
    <3>5. CASE Head(queue).kind \notin {"pattern", "overrides"}
      BY <2>2, <3>5 DEF Take
    <3> QED
      BY <3>3, <3>4, <3>5
  <2>3. CASE UNCHANGED <<fade, age>>
    BY <2>3
  <2>4. CASE Overvoltage \/ MachineSends \/ I2cSends \/ UNCHANGED vars
    BY <2>3, <2>4 DEF Overvoltage, MachineSends, I2cSends, vars, led
  <2>5. ASSUME NEW s \in States, Transition(s) PROVE UNCHANGED <<fade, age>>
    BY <2>5 DEF Transition, led
  <2>6. ASSUME NEW c \in Commands, I2cOverrides(c) PROVE UNCHANGED <<fade, age>>
    BY <2>6 DEF I2cOverrides, led
  <2>7. ASSUME NEW b \in Brightnesses, I2cBrightness(b) PROVE UNCHANGED <<fade, age>>
    BY <2>7 DEF I2cBrightness, led
  <2>8. Receive => (Receive /\ Take) \/ UNCHANGED <<fade, age>>
    BY DEF Receive
  <2> HIDE DEF Smooth
  <2> QED
    BY <1>1, <2>1, <2>2, <2>3, <2>4, <2>5, <2>6, <2>7, <2>8 DEF Next
<1>2. Spec => [][Smooth]_<<fade, age>>
  BY <1>1, SpecInv, PTL DEF Spec
<1> QED
  BY <1>2 DEF FadesAreSmooth

----------------------------------------------------------------------------
(* Overrides behind a pattern *)

LEMMA QueueTail ==
  ASSUME Inv, Take
  PROVE  /\ Len(queue) \in Nat \ {0} /\ Len(queue') = Len(queue) - 1 /\ Head(queue) = queue[1]
         /\ \A i \in 1 .. Len(queue) - 1 : queue'[i] = queue[i + 1]
<1>1. queue \in Seq(Patterns \union Requests) /\ queue # <<>> /\ queue' = Tail(queue)
  BY DEF Inv, TypeOK, Take
<1> QED
  BY <1>1, HeadTailProperties, LenProperties, EmptySeq

LEMMA QueueAppend ==
  ASSUME Inv, NEW e \in Patterns \union Requests, queue' = Append(queue, e)
  PROVE  /\ Len(queue) \in Nat /\ Len(queue') = Len(queue) + 1 /\ queue'[Len(queue')] = e
         /\ \A i \in 1 .. Len(queue) : queue'[i] = queue[i]
<1>1. queue \in Seq(Patterns \union Requests)
  BY DEF Inv, TypeOK
<1> QED
  BY <1>1, AppendProperties, LenProperties

\* Taking an event moves the others up.
LEMMA StrayTail ==
  ASSUME Inv, Take
  PROVE  /\ \A i \in Stray' : i \in Nat \ {0} /\ i + 1 \in Stray
         /\ Behind(0)' => Behind(1)
<1>1. ASSUME NEW i \in Nat, Behind(i)' PROVE Behind(i + 1)
  <2> SUFFICES ASSUME NEW j \in (i + 1) + 1 .. Len(queue) PROVE queue[j].kind # "pattern"
    BY DEF Behind
  <2>1. j - 1 \in i + 1 .. Len(queue') /\ j - 1 \in 1 .. Len(queue) - 1 /\ (j - 1) + 1 = j
    BY <1>1, QueueTail
  <2>2. queue'[j - 1].kind # "pattern"
    BY <1>1, <2>1 DEF Behind
  <2> QED
    BY <2>1, <2>2, QueueTail
<1>2. ASSUME NEW i \in Stray' PROVE i \in Nat \ {0} /\ i + 1 \in Stray
  <2>1. i \in 1 .. Len(queue') /\ queue'[i].kind = "overrides" /\ Behind(i)'
    BY <1>2 DEF Stray
  <2>2. i \in 1 .. Len(queue) - 1 /\ i + 1 \in 1 .. Len(queue) /\ queue[i + 1].kind = "overrides"
    BY <2>1, QueueTail
  <2>3. Behind(i + 1)
    BY <1>1, <2>1, <2>2
  <2> QED
    BY <2>2, <2>3 DEF Stray
<1>3. Behind(0)' => Behind(0 + 1)
  BY <1>1
<1> QED
  BY <1>2, <1>3

\* An event that is no pattern leaves those before it behind the same pattern.
LEMMA StrayAppend ==
  ASSUME Inv, NEW e \in Requests, queue' = Append(queue, e)
  PROVE  /\ Behind(0)' => Behind(0)
         /\ \A i \in Stray' : i \in Stray \/ (i = Len(queue') /\ e.kind = "overrides")
<1>1. ASSUME NEW i \in Nat, Behind(i)' PROVE Behind(i)
  <2> SUFFICES ASSUME NEW j \in i + 1 .. Len(queue) PROVE queue[j].kind # "pattern"
    BY DEF Behind
  <2>1. j \in i + 1 .. Len(queue') /\ j \in 1 .. Len(queue)
    BY QueueAppend
  <2>2. queue'[j].kind # "pattern"
    BY <1>1, <2>1 DEF Behind
  <2> QED
    BY <2>1, <2>2, QueueAppend
<1>2. ASSUME NEW i \in Stray' PROVE i \in Stray \/ (i = Len(queue') /\ e.kind = "overrides")
  <2>1. i \in 1 .. Len(queue') /\ queue'[i].kind = "overrides" /\ Behind(i)'
    BY <1>2 DEF Stray
  <2>2. CASE i = Len(queue')
    BY <2>1, <2>2, QueueAppend
  <2>3. CASE i # Len(queue')
    <3>1. i \in 1 .. Len(queue)
      BY <2>1, <2>3, QueueAppend
    <3> QED
      BY <1>1, <2>1, <3>1, QueueAppend DEF Stray
  <2> QED
    BY <2>2, <2>3
<1> QED
  BY <1>1, <1>2

LEMMA SameStray ==
  ASSUME StrayIsAlone, UNCHANGED <<queue, recorded>>,
         i2c'.kind = "overrides" => i2c.kind = "overrides" \/ recorded = CoOp,
         age' # NotSet => age # NotSet
  PROVE  StrayIsAlone'
<1>1. Stray' = Stray /\ (Behind(0)' <=> Behind(0))
  BY DEF Stray, Behind
<1> QED
  BY <1>1 DEF StrayIsAlone

LEMMA TakeStray ==
  ASSUME Inv, StrayIsAlone, Receive, Take PROVE StrayIsAlone'
<1>0. UNCHANGED <<i2c, recorded>>
  BY DEF Receive, host, power
<1> SUFFICES ASSUME recorded # CoOp
             PROVE  /\ \A i, j \in Stray' : i = j
                    /\ i2c.kind = "overrides" => Stray' = {}
                    /\ age' # NotSet /\ Behind(0)' => Stray' = {} /\ i2c.kind # "overrides"
  BY <1>0 DEF StrayIsAlone
<1>1. /\ \A i, j \in Stray : i = j
      /\ i2c.kind = "overrides" => Stray = {}
      /\ age # NotSet /\ Behind(0) => Stray = {} /\ i2c.kind # "overrides"
  BY DEF StrayIsAlone
<1>2. ASSUME NEW i \in Stray', NEW j \in Stray' PROVE i = j
  <2>1. i + 1 = j + 1 /\ i \in Nat /\ j \in Nat
    BY <1>1, StrayTail
  <2> QED
    BY <2>1
<1>3. Stray = {} => Stray' = {}
  BY StrayTail
<1>4. ASSUME age' # NotSet, Behind(0)' PROVE Stray' = {} /\ i2c.kind # "overrides"
  <2>1. Behind(1) /\ queue[1] = Head(queue) /\ Len(queue) \in Nat \ {0}
    BY <1>4, StrayTail, QueueTail
  <2>2. CASE queue[1].kind = "overrides"
    <3>1. 1 \in Stray
      BY <2>1, <2>2 DEF Stray
    <3>2. ASSUME NEW i \in Stray' PROVE FALSE
      <4>1. i \in Nat \ {0} /\ i + 1 \in Stray
        BY StrayTail
      <4>2. i + 1 = 1
        BY <1>1, <3>1, <4>1
      <4> QED
        BY <4>1, <4>2
    <3> QED
      BY <1>1, <3>1, <3>2
  <2>3. CASE queue[1].kind # "overrides"
    <3>1. queue[1].kind # "pattern" /\ age' = age
      BY <1>4, <2>1, <2>3 DEF Take
    <3>2. Behind(0)
      <4> SUFFICES ASSUME NEW j \in 0 + 1 .. Len(queue) PROVE queue[j].kind # "pattern"
        BY DEF Behind
      <4>1. j = 1 \/ j \in 1 + 1 .. Len(queue)
        BY <2>1
      <4> QED
        BY <2>1, <3>1, <4>1 DEF Behind
    <3> QED
      BY <1>1, <1>3, <1>4, <3>1, <3>2
  <2> QED
    BY <2>2, <2>3
<1> QED
  BY <1>1, <1>2, <1>3, <1>4

LEMMA MachineSendsStray ==
  ASSUME Inv, MachineSends PROVE StrayIsAlone'
<1>1. machine \in Patterns /\ queue' = Append(queue, machine)
  BY DEF Inv, TypeOK, MachineSends
<1>2. /\ Len(queue') \in Nat \ {0} /\ queue'[Len(queue')].kind = "pattern"
  BY <1>1, Kinds, QueueAppend
<1>3. ASSUME NEW i \in Nat, i < Len(queue') PROVE ~Behind(i)'
  <2>1. Len(queue') \in i + 1 .. Len(queue')
    BY <1>2, <1>3
  <2> QED
    BY <1>2, <2>1 DEF Behind
<1>4. ~Behind(0)'
  BY <1>2, <1>3
<1>5. ASSUME NEW i \in Stray' PROVE FALSE
  <2>1. i \in 1 .. Len(queue') /\ queue'[i].kind = "overrides" /\ Behind(i)'
    BY DEF Stray
  <2>2. i < Len(queue')
    BY <1>2, <2>1
  <2> QED
    BY <1>2, <1>3, <2>1, <2>2
<1> QED
  BY <1>4, <1>5 DEF StrayIsAlone

LEMMA I2cSendsStray ==
  ASSUME Inv, StrayIsAlone, I2cSends PROVE StrayIsAlone'
<1>1. /\ i2c \in Requests /\ queue' = Append(queue, i2c) /\ i2c' = Nothing
      /\ UNCHANGED <<recorded, age>>
  BY DEF Inv, TypeOK, I2cSends, led, power
<1>2. i2c'.kind # "overrides"
  BY <1>1 DEF Nothing
<1> SUFFICES ASSUME recorded # CoOp
             PROVE  /\ \A i, j \in Stray' : i = j
                    /\ age # NotSet /\ Behind(0)' => Stray' = {}
  BY <1>1, <1>2 DEF StrayIsAlone
<1>3. /\ Behind(0)' => Behind(0)
      /\ \A i \in Stray' : i \in Stray \/ (i = Len(queue') /\ i2c.kind = "overrides")
  BY <1>1, StrayAppend
<1>4. CASE i2c.kind = "overrides"
  BY <1>3, <1>4 DEF StrayIsAlone
<1>5. CASE i2c.kind # "overrides"
  BY <1>3, <1>5 DEF StrayIsAlone
<1> QED
  BY <1>4, <1>5

LEMMA StrayNext ==
  ASSUME Inv, StrayIsAlone, [Next]_vars PROVE StrayIsAlone'
<1>1. CASE Receive
  <2>1. CASE UNCHANGED <<queue, pattern, fade, age, brightness>>
    BY <1>1, <2>1, SameStray DEF Receive, host, power
  <2> QED
    BY <1>1, <2>1, TakeStray DEF Receive
<1>2. CASE Update
  BY <1>2, SameStray DEF Update, host, power
<1>3. CASE Overvoltage \/ UNCHANGED vars \/ \E s \in States : Transition(s)
  BY <1>3, SameStray DEF Overvoltage, Transition, vars, led, host, power
<1>4. ASSUME NEW c \in Commands, I2cOverrides(c) PROVE StrayIsAlone'
  BY <1>4, SameStray DEF I2cOverrides, led, power
<1>5. ASSUME NEW b \in Brightnesses, I2cBrightness(b) PROVE StrayIsAlone'
  <2>1. i2c'.kind # "overrides"
    BY <1>5 DEF I2cBrightness, SetBrightness
  <2> QED
    BY <1>5, <2>1, SameStray DEF I2cBrightness, led, power
<1> QED
  BY <1>1, <1>2, <1>3, <1>4, <1>5, MachineSendsStray, I2cSendsStray DEF Next

\* Once the machine has recorded another state than OperationalCoOp, whatever
\* overrides are shown or still to come behind the last pattern stem from a single
\* command: no second one passes the check.
THEOREM StrayIsAloneHolds == Spec => []StrayIsAlone
<1>1. Init => StrayIsAlone
  <2> SUFFICES ASSUME Init PROVE Stray = {} /\ i2c.kind # "overrides" /\ age = NotSet
    BY DEF StrayIsAlone
  <2>1. Len(queue) = 0
    BY EmptySeq DEF Init
  <2> QED
    BY <2>1 DEF Init, Stray, Nothing
<1> QED
  BY <1>1, SpecInv, StrayNext, PTL DEF Spec
=============================================================================
