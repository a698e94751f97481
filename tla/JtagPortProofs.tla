--------------------------- MODULE JtagPortProofs ---------------------------
(***************************************************************************)
(* Proofs about the JTAG port, for every payload, every length of a byte   *)
(* and every number of idle clocks: the types, what each helper and each   *)
(* function of the port does to the FPGA, that the switch is given back,   *)
(* and that the port implements Programming.                               *)
(***************************************************************************)
EXTENDS JtagPort, WellFoundedInduction, TLAPS

-----------------------------------------------------------------------------
(* The recursive functions of the port.                                    *)

\* A set of numbers with first and, with each number below final, the next one
\* has them all.
LEMMA Induction ==
  ASSUME NEW S, NEW first \in Nat, NEW final \in Nat, first \in S,
         \A k \in first .. final - 1 : k \in S => k + 1 \in S
  PROVE  \A k \in first .. final : k \in S
  <1> DEFINE Missed == {k \in first .. final : k \notin S}
  <1>1. ASSUME Missed # {} PROVE FALSE
    <2>1. Missed \in SUBSET Nat
      OBVIOUS
    <2>2. \E i \in Missed : \A j \in Missed : <<j, i>> \notin OpToRel(<, Nat)
      BY <1>1, <2>1, NatLessThanWellFounded, WFMin
    <2>3. \A i, j \in Nat : <<j, i>> \notin OpToRel(<, Nat) => i <= j
      BY DEF OpToRel
    <2>4. PICK i \in Missed : \A j \in Missed : i <= j
      BY <2>1, <2>2, <2>3
    <2>5. i - 1 \in first .. final - 1 /\ i - 1 \notin Missed
      BY <2>1, <2>4
    <2> QED BY <2>5
  <1> QED BY <1>1

LEMMA Products ==
  ASSUME NEW a \in Nat, NEW b \in Nat, NEW n \in Nat, a <= b
  PROVE  a * n <= b * n
  <1> DEFINE c == b - a
  <1>1. c \in Nat /\ b = a + c
    OBVIOUS
  <1> HIDE DEF c
  <1>2. b * n = (a * n) + (c * n)
    BY <1>1
  <1>3. c * n \in Nat /\ a * n \in Nat
    BY <1>1
  <1> QED BY <1>2, <1>3

\* Where bit j of byte d is.
LEMMA Places ==
  ASSUME NEW n \in Nat \ {0}, NEW d \in Nat, NEW j \in 0 .. n - 1
  PROVE  ((d * n) + j) \div n = d /\ ((d * n) + j) % n = j
  <1> DEFINE a == (d * n) + j
             q == a \div n
             r == a % n
  <1>1. a \in Nat /\ d * n \in Nat
    OBVIOUS
  <1>2. q \in Nat /\ r \in 0 .. n - 1 /\ a = (q * n) + r
    BY <1>1
  <1>3. (q * n) + r = (d * n) + j
    BY <1>2
  <1> HIDE DEF a, q, r
  <1>4. ASSUME q < d PROVE FALSE
    <2>1. (q + 1) * n <= d * n
      BY <1>2, <1>4, Products
    <2>2. (q + 1) * n = (q * n) + n /\ q * n \in Nat
      BY <1>2
    <2> QED BY <1>1, <1>2, <1>3, <2>1, <2>2
  <1>5. ASSUME d < q PROVE FALSE
    <2>1. (d + 1) * n <= q * n
      BY <1>2, <1>5, Products
    <2>2. (d + 1) * n = (d * n) + n /\ q * n \in Nat
      BY <1>2
    <2> QED BY <1>1, <1>2, <1>3, <2>1, <2>2
  <1>6. q = d
    BY <1>2, <1>4, <1>5
  <1>7. r = j
    BY <1>1, <1>2, <1>3, <1>6
  <1> QED BY <1>6, <1>7 DEF q, r, a

\* A step, or a call, and what f holds after the first n of them: F is Step or
\* Call, s the steps or the calls.
Applied(F, p, t) == F[p][t]
RunTo(F, f, n, p, s) ==
  f = [i \in 0 .. n |-> IF i = 0 THEN p ELSE Applied(F, f[i - 1], s[i])]

LEMMA RunToExists ==
  ASSUME NEW F, NEW p, NEW s, NEW n \in Nat
  PROVE  \E f : RunTo(F, f, n, p, s)
  <1> DEFINE Defined == {m \in Nat : \E f : RunTo(F, f, m, p, s)}
  <1>1. 0 \in Defined
    <2>1. RunTo(F, [i \in 0 .. 0 |-> p], 0, p, s)
      BY DEF RunTo
    <2> QED BY <2>1
  <1>2. ASSUME NEW m \in 0 .. n - 1, m \in Defined PROVE m + 1 \in Defined
    <2>1. PICK f : RunTo(F, f, m, p, s)
      BY <1>2
    <2> DEFINE g == [i \in 0 .. m + 1 |->
                       IF i <= m THEN f[i] ELSE Applied(F, f[i - 1], s[i])]
    <2>2. ASSUME NEW i \in 0 .. m + 1
          PROVE  g[i] = IF i = 0 THEN p ELSE Applied(F, g[i - 1], s[i])
      <3>1. CASE i <= m
        <4>1. f[i] = IF i = 0 THEN p ELSE Applied(F, f[i - 1], s[i])
          BY <2>1, <3>1 DEF RunTo
        <4>2. g[i] = f[i] /\ (i # 0 => g[i - 1] = f[i - 1])
          BY <3>1
        <4> QED BY <4>1, <4>2
      <3>2. CASE i = m + 1
        <4>1. g[i - 1] = f[i - 1] /\ g[i] = Applied(F, f[i - 1], s[i]) /\ i # 0
          BY <3>2
        <4> QED BY <4>1
      <3> QED BY <3>1, <3>2
    <2>3. RunTo(F, g, m + 1, p, s)
      <3> HIDE DEF g
      <3>1. DOMAIN g = 0 .. m + 1 /\ g = [i \in DOMAIN g |-> g[i]]
        BY DEF g
      <3> QED BY <2>2, <3>1 DEF RunTo
    <2> QED BY <2>3
  <1> HIDE DEF Defined
  <1>3. n \in Defined
    BY <1>1, <1>2, Induction
  <1> QED BY <1>3 DEF Defined

\* Such an f, read at its arguments.
LEMMA RunToReads ==
  ASSUME NEW F, NEW f, NEW n \in Nat, NEW p, NEW s, RunTo(F, f, n, p, s)
  PROVE  /\ f[0] = p
         /\ \A i \in 1 .. n : f[i] = Applied(F, f[i - 1], s[i])
  <1>1. \A i \in 0 .. n : f[i] = IF i = 0 THEN p ELSE Applied(F, f[i - 1], s[i])
    BY DEF RunTo
  <1> QED BY <1>1

\* A concatenation, and its elements.
Joined(s, t) == s \o t

\* r is s, and then t.
Joins(r, s, t, S) ==
  /\ r \in Seq(S) /\ Len(r) = Len(s) + Len(t)
  /\ \A i \in 1 .. Len(s) : r[i] = s[i]
  /\ \A i \in 1 .. Len(t) : r[i + Len(s)] = t[i]

LEMMA JoinedReads ==
  \A S : \A s, t \in Seq(S) : Joins(Joined(s, t), s, t, S)
  <1> SUFFICES ASSUME NEW S, NEW s \in Seq(S), NEW t \in Seq(S)
               PROVE  Joins(Joined(s, t), s, t, S)
    OBVIOUS
  <1> DEFINE r == Joined(s, t)
  <1>1. /\ r \in Seq(S) /\ Len(r) = Len(s) + Len(t)
        /\ Len(s) \in Nat /\ Len(t) \in Nat
    BY DEF Joined
  <1>2. ASSUME NEW i \in 1 .. Len(s) PROVE r[i] = s[i]
    BY <1>1 DEF Joined
  <1>3. ASSUME NEW i \in 1 .. Len(t) PROVE r[i + Len(s)] = t[i]
    <2>1. /\ i + Len(s) \in 1 .. Len(s) + Len(t) /\ ~ i + Len(s) <= Len(s)
          /\ i + Len(s) - Len(s) = i
      BY <1>1
    <2> QED BY <1>1, <2>1 DEF Joined
  <1> QED BY <1>1, <1>2, <1>3 DEF Joins

\* Where p is after all of s.
Ran(F, p, s) == (CHOOSE f : RunTo(F, f, Len(s), p, s))[Len(s)]

\* The places on the way of p through s, which has n elements.
Way(f, F, p, s, n) ==
  /\ f[0] = p
  /\ \A i \in 1 .. n : f[i] = Applied(F, f[i - 1], s[i])
  /\ Ran(F, p, s) = f[n]

LEMMA RanSteps ==
  \A F, p, s, n : n \in Nat /\ Len(s) = n => \E f : Way(f, F, p, s, n)
  <1> SUFFICES ASSUME NEW F, NEW p, NEW s, NEW n \in Nat, Len(s) = n
               PROVE  \E f : Way(f, F, p, s, n)
    OBVIOUS
  <1> DEFINE f == CHOOSE g : RunTo(F, g, n, p, s)
  <1>1. RunTo(F, f, n, p, s)
    <2>1. \E g : RunTo(F, g, n, p, s)
      BY RunToExists
    <2> QED BY <2>1
  <1>2. Ran(F, p, s) = f[n]
    BY DEF Ran
  <1> HIDE DEF f
  <1>3. f[0] = p /\ \A i \in 1 .. n : f[i] = Applied(F, f[i - 1], s[i])
    <2>1. n \in Nat /\ RunTo(F, f, n, p, s)
      BY <1>1
    <2> QED BY ONLY <2>1, RunToReads
  <1> QED BY <1>2, <1>3 DEF Way

LEMMA RanStays ==
  ASSUME NEW F, NEW p, NEW s, NEW n \in Nat, Len(s) = n,
         NEW S, p \in S, \A q \in S : \A i \in 1 .. n : Applied(F, q, s[i]) \in S
  PROVE  Ran(F, p, s) \in S
  <1>1. PICK f : Way(f, F, p, s, n)
    BY RanSteps
  <1> DEFINE Good == {i \in 0 .. n : f[i] \in S}
  <1>2. 0 \in Good
    BY <1>1 DEF Way
  <1>3. ASSUME NEW k \in 0 .. n - 1, k \in Good PROVE k + 1 \in Good
    <2>1. k + 1 \in 1 .. n /\ k + 1 \in 0 .. n /\ (k + 1) - 1 = k
      OBVIOUS
    <2>2. f[k + 1] = Applied(F, f[k], s[k + 1])
      BY <1>1, <2>1 DEF Way
    <2> QED BY <1>3, <2>1, <2>2
  <1> HIDE DEF Good
  <1>4. 0 \in Nat
    OBVIOUS
  <1>5. \A i \in 0 .. n : i \in Good
    BY <1>2, <1>3, <1>4, Induction
  <1> QED BY <1>1, <1>5 DEF Good, Way

\* One after the other is the one, then the other.
LEMMA RanJoined ==
  ASSUME NEW F, NEW p, NEW S, NEW s \in Seq(S), NEW t \in Seq(S)
  PROVE  Ran(F, p, Joined(s, t)) = Ran(F, Ran(F, p, s), t)
  <1>0. Joins(Joined(s, t), s, t, S)
    BY JoinedReads
  <1> DEFINE m == Len(s)
             n == Len(t)
             r == Joined(s, t)
             middle == Ran(F, p, s)
  <1>1. /\ r \in Seq(S) /\ Len(r) = m + n
        /\ \A i \in 1 .. m : r[i] = s[i]
        /\ \A i \in 1 .. n : r[i + m] = t[i]
    BY <1>0 DEF Joins
  <1>2. m \in Nat /\ n \in Nat /\ m + n \in Nat /\ Len(s) = m /\ Len(t) = n
    OBVIOUS
  <1> HIDE DEF m, n, r, middle
  <1>3. PICK f : Way(f, F, p, r, m + n)
    <2> DEFINE all == m + n
    <2>1. all \in Nat /\ Len(r) = all
      BY <1>1, <1>2
    <2> HIDE DEF all
    <2>2. \E f : Way(f, F, p, r, all)
      BY <2>1, RanSteps
    <2> QED BY <2>2 DEF all
  <1>4. PICK g : Way(g, F, p, s, m)
    BY <1>2, RanSteps
  <1>5. PICK h : Way(h, F, middle, t, n)
    BY <1>2, RanSteps
  <1>6. f[m] = g[m]
    <2> DEFINE Same == {i \in 0 .. m : f[i] = g[i]}
    <2>1. 0 \in Same /\ 0 \in Nat
      BY <1>2, <1>3, <1>4 DEF Way
    <2>2. ASSUME NEW k \in 0 .. m - 1, k \in Same PROVE k + 1 \in Same
      <3>1. /\ k + 1 \in 1 .. m /\ k + 1 \in 0 .. m /\ k + 1 \in 1 .. m + n
            /\ (k + 1) - 1 = k /\ f[k] = g[k]
        BY <1>2, <2>2
      <3>2. f[k + 1] = Applied(F, f[k], r[k + 1]) /\ r[k + 1] = s[k + 1]
        BY <1>1, <1>3, <3>1 DEF Way
      <3>3. g[k + 1] = Applied(F, g[k], s[k + 1])
        BY <1>4, <3>1 DEF Way
      <3> QED BY <3>1, <3>2, <3>3
    <2> HIDE DEF Same
    <2>3. \A i \in 0 .. m : i \in Same
      BY <1>2, <2>1, <2>2, Induction
    <2> QED BY <1>2, <2>3 DEF Same
  <1>7. f[m + n] = h[n]
    <2> DEFINE Same == {i \in 0 .. n : f[i + m] = h[i]}
    <2>1. 0 \in Same /\ 0 \in Nat
      BY <1>2, <1>4, <1>5, <1>6 DEF middle, Way
    <2>2. ASSUME NEW k \in 0 .. n - 1, k \in Same PROVE k + 1 \in Same
      <3>1. /\ k + 1 \in 1 .. n /\ k + 1 \in 0 .. n
            /\ (k + 1) + m \in 1 .. m + n
            /\ (k + 1) - 1 = k /\ ((k + 1) + m) - 1 = k + m
        BY <1>2
      <3>0. f[k + m] = h[k]
        BY <2>2
      <3>2. /\ f[(k + 1) + m] = Applied(F, f[k + m], r[(k + 1) + m])
            /\ r[(k + 1) + m] = t[k + 1]
        BY <1>1, <1>3, <3>1 DEF Way
      <3>3. h[k + 1] = Applied(F, h[k], t[k + 1])
        BY <1>5, <3>1 DEF Way
      <3> QED BY <3>0, <3>1, <3>2, <3>3
    <2> HIDE DEF Same
    <2>3. \A i \in 0 .. n : i \in Same
      BY <1>2, <2>1, <2>2, Induction
    <2>4. n \in Same /\ n + m = m + n
      BY <1>2, <2>3
    <2> QED BY <2>4 DEF Same
  <1> QED BY <1>3, <1>5, <1>7 DEF r, middle, Way

LEMMA StepsJoined ==
  \A s, t \in Seq(Pins) :
    \A q : Ran(Step, q, Joined(s, t)) = Ran(Step, Ran(Step, q, s), t)
  BY RanJoined

LEMMA CallsJoined ==
  \A s, t \in Seq(Seq(Pins)) :
    \A q : Ran(Call, q, Joined(s, t)) = Ran(Call, Ran(Call, q, s), t)
  BY RanJoined

\* A few steps, one by one.
LEMMA RanOne ==
  ASSUME NEW F, NEW p, NEW a
  PROVE  Ran(F, p, <<a>>) = Applied(F, p, a)
  <1> DEFINE s == <<a>>
  <1>1. 1 \in Nat /\ Len(s) = 1
        /\ s[1] = a
    OBVIOUS
  <1> HIDE DEF s
  <1>2. PICK f : Way(f, F, p, s, 1)
    BY <1>1, RanSteps
  <1>3. /\ f[1] = Applied(F, p, a)
    BY <1>1, <1>2 DEF Way
  <1> QED BY <1>2, <1>3 DEF s, Way

LEMMA RanTwo ==
  ASSUME NEW F, NEW p, NEW a, NEW b
  PROVE  Ran(F, p, <<a, b>>) = Applied(F, Applied(F, p, a), b)
  <1> DEFINE s == <<a, b>>
  <1>1. 2 \in Nat /\ Len(s) = 2
        /\ s[1] = a /\ s[2] = b
    OBVIOUS
  <1> HIDE DEF s
  <1>2. PICK f : Way(f, F, p, s, 2)
    BY <1>1, RanSteps
  <1>3. /\ f[1] = Applied(F, p, a)
        /\ f[2] = Applied(F, f[1], b)
    BY <1>1, <1>2 DEF Way
  <1> QED BY <1>2, <1>3 DEF s, Way

LEMMA RanThree ==
  ASSUME NEW F, NEW p, NEW a, NEW b, NEW c
  PROVE  Ran(F, p, <<a, b, c>>) =
           Applied(F, Applied(F, Applied(F, p, a), b), c)
  <1> DEFINE s == <<a, b, c>>
  <1>1. 3 \in Nat /\ Len(s) = 3
        /\ s[1] = a /\ s[2] = b /\ s[3] = c
    OBVIOUS
  <1> HIDE DEF s
  <1>2. PICK f : Way(f, F, p, s, 3)
    BY <1>1, RanSteps
  <1>3. /\ f[1] = Applied(F, p, a)
        /\ f[2] = Applied(F, f[1], b)
        /\ f[3] = Applied(F, f[2], c)
    BY <1>1, <1>2 DEF Way
  <1> QED BY <1>2, <1>3 DEF s, Way

LEMMA RanFour ==
  ASSUME NEW F, NEW p, NEW a, NEW b, NEW c, NEW d
  PROVE  Ran(F, p, <<a, b, c, d>>) =
           Applied(F, Applied(F, Applied(F, Applied(F, p, a), b), c), d)
  <1> DEFINE s == <<a, b, c, d>>
  <1>1. 4 \in Nat /\ Len(s) = 4
        /\ s[1] = a /\ s[2] = b /\ s[3] = c /\ s[4] = d
    OBVIOUS
  <1> HIDE DEF s
  <1>2. PICK f : Way(f, F, p, s, 4)
    BY <1>1, RanSteps
  <1>3. /\ f[1] = Applied(F, p, a)
        /\ f[2] = Applied(F, f[1], b)
        /\ f[3] = Applied(F, f[2], c)
        /\ f[4] = Applied(F, f[3], d)
    BY <1>1, <1>2 DEF Way
  <1> QED BY <1>2, <1>3 DEF s, Way

\* The functions of the port are such runs.
LEMMA CallIs ==
  ASSUME NEW p \in Ports, NEW steps \in Seq(Pins)
  PROVE  Applied(Call, p, steps) = Ran(Step, p, steps)
  <1>1. Call[p][steps] =
          LET f[i \in 0 .. Len(steps)] ==
                IF i = 0 THEN p ELSE Step[f[i - 1]][steps[i]]
          IN f[Len(steps)]
    BY DEF Call
  <1> QED BY <1>1 DEF RunTo, Applied, Ran

LEMMA AfterIs ==
  ASSUME NEW p, NEW calls
  PROVE  After(p, calls) = Ran(Call, p, calls)
  BY DEF After, RunTo, Applied, Ran


-----------------------------------------------------------------------------
(* One step of the pins.                                                   *)

LEMMA TapMoves ==
  /\ Tap["reset"] = <<"idle", "reset">>
  /\ Tap["idle"] = <<"idle", "selectDr">>
  /\ Tap["selectDr"] = <<"captureDr", "selectIr">>
  /\ Tap["captureDr"] = <<"shiftDr", "exit1Dr">>
  /\ Tap["shiftDr"] = <<"shiftDr", "exit1Dr">>
  /\ Tap["exit1Dr"] = <<"pauseDr", "updateDr">>
  /\ Tap["updateDr"] = <<"idle", "selectDr">>
  /\ Tap["selectIr"] = <<"captureIr", "reset">>
  /\ Tap["captureIr"] = <<"shiftIr", "exit1Ir">>
  /\ Tap["shiftIr"] = <<"shiftIr", "exit1Ir">>
  /\ Tap["exit1Ir"] = <<"pauseIr", "updateIr">>
  /\ Tap["updateIr"] = <<"idle", "selectDr">>
  BY DEF Tap

LEMMA TapType ==
  \A t \in DOMAIN Tap : \A v \in {0, 1} : Tap[t][v + 1] \in DOMAIN Tap
  <1>1. ASSUME NEW t \in DOMAIN Tap
        PROVE  Tap[t][1] \in DOMAIN Tap /\ Tap[t][2] \in DOMAIN Tap
    BY DEF Tap
  <1>2. ASSUME NEW v \in {0, 1} PROVE v + 1 = 1 \/ v + 1 = 2
    OBVIOUS
  <1> QED BY <1>1, <1>2

Fpgas == [tap : DOMAIN Tap, ir : 0 .. 63, sr : 0 .. 63, clear : BOOLEAN,
          cfg : Seq(Int), design : {Before, None} \cup Seq(Int)]

\* A clock at the FPGA, field by field.
NextTap(f, v) == Tap[f.tap][v + 1]
NextIr(f, v) ==
  IF NextTap(f, v) = "reset" THEN IDCODE
  ELSE IF NextTap(f, v) = "updateIr" THEN f.sr ELSE f.ir
NextSr(f, tdi) ==
  IF f.tap = "captureIr" THEN 1
  ELSE IF f.tap = "shiftIr" THEN (f.sr \div 2) + (32 * (tdi % 2))
  ELSE f.sr
Clears(f, v) == NextTap(f, v) = "updateIr" /\ f.sr = JPROGRAM
Starts(f) == f.clear /\ f.tap = "idle" /\ f.ir = JSTART
Takes(f) ==
  f.clear /\ f.tap = "shiftDr" /\ f.ir = CFG_IN /\ Len(f.cfg) < MostBits
NextClear(f, v) == Clears(f, v) \/ (f.clear /\ ~ Starts(f))
NextCfg(f, v, tdi) ==
  IF Clears(f, v) \/ Starts(f) THEN <<>>
  ELSE IF Takes(f) THEN Append(f.cfg, tdi) ELSE f.cfg
NextDesign(f, v) ==
  IF Clears(f, v) THEN None ELSE IF Starts(f) THEN f.cfg ELSE f.design

LEMMA ClockedIs ==
  ASSUME NEW f \in Fpgas, NEW v \in {0, 1}, NEW tdi \in Int
  PROVE  /\ Clocked(f, v, tdi) \in Fpgas
         /\ Clocked(f, v, tdi).tap = NextTap(f, v)
         /\ Clocked(f, v, tdi).ir = NextIr(f, v)
         /\ Clocked(f, v, tdi).sr = NextSr(f, tdi)
         /\ Clocked(f, v, tdi).clear = NextClear(f, v)
         /\ Clocked(f, v, tdi).cfg = NextCfg(f, v, tdi)
         /\ Clocked(f, v, tdi).design = NextDesign(f, v)
  <1> DEFINE g == Clocked(f, v, tdi)
             t == NextTap(f, v)
             ir == NextIr(f, v)
             sr == NextSr(f, tdi)
             clear == NextClear(f, v)
             cfg == NextCfg(f, v, tdi)
             design == NextDesign(f, v)
  <1>1. f = [tap |-> f.tap, ir |-> f.ir, sr |-> f.sr, clear |-> f.clear,
             cfg |-> f.cfg, design |-> f.design]
    BY DEF Fpgas
  <1>2. Clears(f, v) <=> t = "updateIr" /\ ir = JPROGRAM
    BY DEF Clears, NextIr
  <1>3. g = [tap |-> t, ir |-> ir, sr |-> sr, clear |-> clear, cfg |-> cfg,
             design |-> design]
    <2>1. ir = CASE t = "reset" -> IDCODE
                 [] t = "updateIr" -> f.sr
                 [] OTHER -> f.ir
      BY DEF NextIr
    <2>2. sr = CASE f.tap = "captureIr" -> 1
                 [] f.tap = "shiftIr" -> (f.sr \div 2) + (32 * (tdi % 2))
                 [] OTHER -> f.sr
      BY DEF NextSr
    <2>3. /\ clear = ((t = "updateIr" /\ ir = JPROGRAM) \/ (f.clear /\ ~ Starts(f)))
          /\ cfg = IF (t = "updateIr" /\ ir = JPROGRAM) \/ Starts(f) THEN <<>>
                   ELSE IF Takes(f) THEN Append(f.cfg, tdi) ELSE f.cfg
          /\ design = IF t = "updateIr" /\ ir = JPROGRAM THEN None
                      ELSE IF Starts(f) THEN f.cfg ELSE f.design
      BY <1>2 DEF NextClear, NextCfg, NextDesign
    <2>4. g = [f EXCEPT !.tap = t, !.ir = ir, !.sr = sr, !.clear = clear,
                        !.cfg = cfg, !.design = design]
      BY <2>1, <2>2, <2>3, Zenon DEF Clocked, NextTap, Starts, Takes
    <2> HIDE DEF t, ir, sr, clear, cfg, design, g
    <2> QED BY <1>1, <2>4
  <1>4. t \in DOMAIN Tap
    BY TapType DEF Fpgas, NextTap
  <1>5. ir \in 0 .. 63
    BY DEF Fpgas, IDCODE, NextIr
  <1>6. sr \in 0 .. 63
    <2>1. ASSUME NEW n \in 0 .. 63 PROVE n \div 2 \in 0 .. 31
      OBVIOUS
    <2>2. f.sr \in 0 .. 63
      BY DEF Fpgas
    <2>3. tdi % 2 \in 0 .. 1
      OBVIOUS
    <2> DEFINE high == tdi % 2
               low == f.sr \div 2
    <2>4. low \in 0 .. 31 /\ high \in 0 .. 1
      BY <2>1, <2>2, <2>3
    <2>5. sr = IF f.tap = "captureIr" THEN 1
               ELSE IF f.tap = "shiftIr" THEN low + (32 * high) ELSE f.sr
      BY DEF NextSr
    <2> HIDE DEF low, high, sr
    <2>6. low + 32 * high \in 0 .. 63
      BY <2>4
    <2> QED BY <2>2, <2>5, <2>6
  <1>7. cfg \in Seq(Int) /\ design \in {Before, None} \cup Seq(Int)
        /\ clear \in BOOLEAN
    BY DEF Fpgas, NextCfg, NextDesign, NextClear, Clears, Starts
  <1> HIDE DEF t, ir, sr, clear, cfg, design, g
  <1>8. g \in Fpgas
    BY <1>3, <1>4, <1>5, <1>6, <1>7 DEF Fpgas
  <1>9. /\ g.tap = t /\ g.ir = ir /\ g.sr = sr /\ g.clear = clear
        /\ g.cfg = cfg /\ g.design = design
    BY <1>3
  <1> QED BY <1>8, <1>9 DEF g, t, ir, sr, clear, cfg, design

LEMMA StepIs ==
  ASSUME NEW p \in Ports, NEW s \in Pins
  PROVE  LET q == Applied(Step, p, s)
             v == IF s.pins \in {"payload", "release"} THEN p.tms ELSE s.tms
         IN /\ q \in Ports
            /\ q.tms = v /\ v \in {0, 1}
            /\ q.hijack = IF s.pins = "claim" THEN TRUE
                          ELSE IF s.pins = "release" THEN FALSE ELSE p.hijack
            /\ q.fpga = IF s.pins \in {"tick", "payload"} /\ p.hijack
                          THEN Clocked(p.fpga, v, s.tdi)
                          ELSE p.fpga
  <1> DEFINE q == Applied(Step, p, s)
             v == IF s.pins \in {"payload", "release"} THEN p.tms ELSE s.tms
             h == IF s.pins = "claim" THEN TRUE
                  ELSE IF s.pins = "release" THEN FALSE ELSE p.hijack
             g == IF s.pins \in {"tick", "payload"} /\ p.hijack
                    THEN Clocked(p.fpga, v, s.tdi)
                    ELSE p.fpga
  <1>1. v \in {0, 1} /\ h \in BOOLEAN /\ p.fpga \in Fpgas /\ s.tdi \in Int
    BY DEF Ports, Pins, Fpgas
  <1>2. g \in Fpgas
    <2> HIDE DEF v
    <2>1. Clocked(p.fpga, v, s.tdi) \in Fpgas
      BY <1>1, ClockedIs
    <2> QED BY <1>1, <2>1
  <1>3. q = [hijack |-> h, tms |-> v, fpga |-> g]
    BY DEF Applied, Step
  <1> HIDE DEF q, v, h, g
  <1>4. q \in Ports /\ q.tms = v /\ q.hijack = h /\ q.fpga = g
    BY <1>1, <1>2, <1>3 DEF Ports, Fpgas
  <1> QED BY <1>1, <1>4 DEF q, v, h, g


-----------------------------------------------------------------------------
(* What the helpers do to the FPGA.                                        *)

\* The port q is claimed, its TAP is in tap with the instruction ir, and its
\* FPGA is configured like that of p.
Reached(q, tap, ir, p) ==
  /\ q \in Ports /\ q.hijack
  /\ q.fpga.tap = tap /\ q.fpga.ir = ir
  /\ q.fpga.clear = p.fpga.clear /\ q.fpga.design = p.fpga.design

LEMMA QuietClock ==
  ASSUME NEW f \in Fpgas, NEW v \in {0, 1}, NEW tdi \in Int,
         NEW next, Tap[f.tap][v + 1] = next, next # "updateIr",
         ~ (f.clear /\ f.tap = "idle" /\ f.ir = JSTART)
  PROVE  LET g == Clocked(f, v, tdi)
         IN /\ g.tap = next
            /\ g.ir = IF next = "reset" THEN IDCODE ELSE f.ir
            /\ g.sr = NextSr(f, tdi)
            /\ g.clear = f.clear /\ g.design = f.design
            /\ f.tap # "shiftDr" => g.cfg = f.cfg
  <1>1. NextTap(f, v) = next /\ ~ Clears(f, v) /\ ~ Starts(f)
    BY DEF NextTap, Clears, Starts
  <1>2. f.clear \in BOOLEAN
    BY DEF Fpgas
  <1>3. /\ NextIr(f, v) = IF next = "reset" THEN IDCODE ELSE f.ir
        /\ NextClear(f, v) = f.clear /\ NextDesign(f, v) = f.design
        /\ f.tap # "shiftDr" => NextCfg(f, v, tdi) = f.cfg
    BY <1>1, <1>2 DEF NextIr, NextClear, NextCfg, NextDesign, Takes
  <1> QED BY <1>1, <1>3, ClockedIs

\* A clock that neither loads an instruction nor starts the FPGA.
LEMMA QuietStep ==
  ASSUME NEW p, NEW q, NEW tap, NEW ir, Reached(q, tap, ir, p),
         NEW s \in Pins, s.pins \in {"tick", "payload"},
         NEW v \in {0, 1}, v = IF s.pins = "payload" THEN q.tms ELSE s.tms,
         NEW next, Tap[tap][v + 1] = next, next # "updateIr",
         ~ p.fpga.clear \/ tap # "idle" \/ ir # JSTART
  PROVE  LET r == Applied(Step, q, s)
         IN /\ Reached(r, next, IF next = "reset" THEN IDCODE ELSE ir, p)
            /\ r.tms = v
            /\ tap # "shiftDr" => r.fpga.cfg = q.fpga.cfg
            /\ r.fpga.sr = NextSr(q.fpga, s.tdi)
  <1> DEFINE r == Applied(Step, q, s)
             f == q.fpga
             g == r.fpga
  <1>1. /\ r \in Ports /\ r.tms = v /\ r.hijack
        /\ g = Clocked(f, v, s.tdi)
    BY StepIs DEF Reached
  <1>2. f \in Fpgas /\ s.tdi \in Int /\ f.tap = tap /\ f.ir = ir
        /\ f.clear = p.fpga.clear /\ f.design = p.fpga.design
    BY DEF Reached, Ports, Fpgas, Pins
  <1> HIDE DEF f, g, r
  <1>3. Tap[f.tap][v + 1] = next /\ ~ (f.clear /\ f.tap = "idle" /\ f.ir = JSTART)
    BY <1>2
  <1>4. /\ g.tap = next
        /\ g.ir = IF next = "reset" THEN IDCODE ELSE f.ir
        /\ g.sr = NextSr(f, s.tdi)
        /\ g.clear = f.clear /\ g.design = f.design
        /\ f.tap # "shiftDr" => g.cfg = f.cfg
    BY <1>1, <1>2, <1>3, QuietClock
  <1>5. Reached(r, next, IF next = "reset" THEN IDCODE ELSE ir, p)
    BY <1>1, <1>2, <1>4 DEF Reached, g
  <1> QED BY <1>1, <1>2, <1>4, <1>5 DEF f, g, r

LEMMA TickIs ==
  ASSUME NEW v \in {0, 1}, NEW tdi \in Int
  PROVE  /\ Tick(v, tdi) \in Pins /\ Tick(v, tdi).pins = "tick"
         /\ Tick(v, tdi).tms = v /\ Tick(v, tdi).tdi = tdi
  BY DEF Tick, Pins

\* The same for a tick.
LEMMA QuietTick ==
  ASSUME NEW p, NEW q, NEW tap, NEW ir, Reached(q, tap, ir, p),
         NEW v \in {0, 1}, NEW tdi \in Int,
         NEW next, Tap[tap][v + 1] = next, next # "updateIr",
         ~ p.fpga.clear \/ tap # "idle" \/ ir # JSTART
  PROVE  LET r == Applied(Step, q, Tick(v, tdi))
         IN /\ Reached(r, next, IF next = "reset" THEN IDCODE ELSE ir, p)
            /\ r.tms = v
            /\ tap # "shiftDr" => r.fpga.cfg = q.fpga.cfg
            /\ r.fpga.sr = NextSr(q.fpga, tdi)
  <1> DEFINE s == Tick(v, tdi)
  <1>1. s \in Pins /\ s.pins = "tick" /\ s.tms = v /\ s.tdi = tdi
    BY TickIs
  <1>2. v = IF s.pins = "payload" THEN q.tms ELSE s.tms
    BY <1>1
  <1> HIDE DEF s
  <1> QED BY <1>1, <1>2, QuietStep DEF s

\* The ways of the TAP that the port takes, with TMS high and low.
LEMMA HighMoves ==
  /\ Tap["reset"][1 + 1] = "reset" /\ Tap["idle"][1 + 1] = "selectDr"
  /\ Tap["selectDr"][1 + 1] = "selectIr" /\ Tap["selectIr"][1 + 1] = "reset"
  /\ Tap["shiftDr"][1 + 1] = "exit1Dr" /\ Tap["exit1Dr"][1 + 1] = "updateDr"
  /\ Tap["updateDr"][1 + 1] = "selectDr"
  /\ Tap["shiftIr"][1 + 1] = "exit1Ir" /\ Tap["exit1Ir"][1 + 1] = "updateIr"
  BY TapMoves

LEMMA LowMoves ==
  /\ Tap["reset"][0 + 1] = "idle" /\ Tap["idle"][0 + 1] = "idle"
  /\ Tap["selectDr"][0 + 1] = "captureDr" /\ Tap["captureDr"][0 + 1] = "shiftDr"
  /\ Tap["shiftDr"][0 + 1] = "shiftDr" /\ Tap["updateDr"][0 + 1] = "idle"
  /\ Tap["selectIr"][0 + 1] = "captureIr" /\ Tap["captureIr"][0 + 1] = "shiftIr"
  /\ Tap["shiftIr"][0 + 1] = "shiftIr" /\ Tap["updateIr"][0 + 1] = "idle"
  BY TapMoves

\* The helpers are sequences of steps of the pins.
LEMMA TicksAre ==
  /\ EnterShiftDr = <<Tick(1, 0), Tick(0, 0), Tick(0, 0)>>
  /\ LeaveShiftDr = <<Tick(1, 0), Tick(0, 0)>>
  /\ EnterShiftDr \in Seq(Pins) /\ LeaveShiftDr \in Seq(Pins)
  <1>1. EnterShiftDr = <<Tick(1, 0), Tick(0, 0), Tick(0, 0)>>
    BY DEF EnterShiftDr, Ticks
  <1>2. LeaveShiftDr = <<Tick(1, 0), Tick(0, 0)>>
    BY DEF LeaveShiftDr, Ticks
  <1>3. Tick(1, 0) \in Pins /\ Tick(0, 0) \in Pins
    BY TickIs
  <1>4. /\ <<Tick(1, 0), Tick(0, 0), Tick(0, 0)>> \in Seq(Pins)
        /\ <<Tick(1, 0), Tick(0, 0)>> \in Seq(Pins)
    BY <1>3
  <1> QED BY <1>1, <1>2, <1>4

\* r is such a port, and the bits of the load are those of q.
Moved(r, q, tap, ir, p) ==
  /\ Reached(r, tap, ir, p) /\ r.tms = 0 /\ r.fpga.cfg = q.fpga.cfg

LEMMA Enters ==
  ASSUME NEW p, NEW q, NEW ir, Reached(q, "idle", ir, p),
         ~ p.fpga.clear \/ ir # JSTART
  PROVE  Moved(Ran(Step, q, EnterShiftDr), q, "shiftDr", ir, p)
  <1> DEFINE a == Applied(Step, q, Tick(1, 0))
             b == Applied(Step, a, Tick(0, 0))
             c == Applied(Step, b, Tick(0, 0))
  <1>1. Ran(Step, q, EnterShiftDr) = c
    BY TicksAre, RanThree
  <1>2. Reached(a, "selectDr", ir, p) /\ a.fpga.cfg = q.fpga.cfg
    BY HighMoves, QuietTick
  <1> HIDE DEF a
  <1>3. Reached(b, "captureDr", ir, p) /\ b.fpga.cfg = a.fpga.cfg
    BY <1>2, LowMoves, QuietTick
  <1> HIDE DEF b
  <1>4. Reached(c, "shiftDr", ir, p) /\ c.tms = 0 /\ c.fpga.cfg = b.fpga.cfg
    BY <1>3, LowMoves, QuietTick
  <1> QED BY <1>1, <1>2, <1>3, <1>4 DEF Moved

LEMMA Leaves ==
  ASSUME NEW p, NEW q, NEW ir, Reached(q, "exit1Dr", ir, p)
  PROVE  Moved(Ran(Step, q, LeaveShiftDr), q, "idle", ir, p)
  <1> DEFINE a == Applied(Step, q, Tick(1, 0))
             b == Applied(Step, a, Tick(0, 0))
  <1>1. Ran(Step, q, LeaveShiftDr) = b
    BY TicksAre, RanTwo
  <1>2. Reached(a, "updateDr", ir, p) /\ a.fpga.cfg = q.fpga.cfg
    BY HighMoves, QuietTick
  <1> HIDE DEF a
  <1>3. Reached(b, "idle", ir, p) /\ b.tms = 0 /\ b.fpga.cfg = a.fpga.cfg
    BY <1>2, LowMoves, QuietTick
  <1> QED BY <1>1, <1>2, <1>3 DEF Moved

\* A clock in Run-Test/Idle, and all of them.
LEMMA Idles ==
  ASSUME NEW p, NEW q, NEW ir, Reached(q, "idle", ir, p), q.tms = 0,
         ~ p.fpga.clear \/ ir # JSTART
  PROVE  Moved(Ran(Step, q, IdleClocks), q, "idle", ir, p)
  <1> DEFINE S == {r \in Ports : Moved(r, q, "idle", ir, p)}
  <1>1. q \in S
    BY DEF Moved, Reached
  <1>2. ASSUME NEW r \in S PROVE Applied(Step, r, Tick(0, 0)) \in S
    <2> DEFINE t == Applied(Step, r, Tick(0, 0))
    <2>1. Reached(r, "idle", ir, p) /\ r.fpga.cfg = q.fpga.cfg
      BY <1>2 DEF Moved
    <2>2. Reached(t, "idle", ir, p) /\ t.tms = 0 /\ t.fpga.cfg = r.fpga.cfg
      <3>1. "idle" # "shiftDr" /\ "idle" # "updateIr" /\ "idle" # "reset"
        OBVIOUS
      <3> QED BY <2>1, <3>1, LowMoves, QuietTick
    <2> HIDE DEF t
    <2> QED BY <2>1, <2>2 DEF Moved, Reached, t
  <1>3. Len(IdleClocks) = IdleTicks /\ IdleTicks \in Nat
        /\ \A i \in 1 .. IdleTicks : IdleClocks[i] = Tick(0, 0)
    BY PortAssumption DEF IdleClocks
  <1> HIDE DEF S
  <1>4. \A r \in S : \A i \in 1 .. IdleTicks : Applied(Step, r, IdleClocks[i]) \in S
    BY <1>2, <1>3
  <1>5. Ran(Step, q, IdleClocks) \in S
    BY <1>1, <1>3, <1>4, RanStays
  <1> QED BY <1>5 DEF S

\* A data register is read, or the request of a configuration register written.
LEMMA ReadsAre ==
  /\ ShiftDrRead \in Seq(Pins)
  /\ \A q : Ran(Step, q, ShiftDrRead) =
              Ran(Step, Applied(Step, Ran(Step, q, EnterShiftDr), Tick(1, 0)),
                  LeaveShiftDr)
  <1> DEFINE bit == <<Tick(1, 0)>>
             begin == Joined(EnterShiftDr, bit)
  <1>1. ShiftDrRead = Joined(begin, LeaveShiftDr)
    BY DEF ShiftDrRead, Joined
  <1>2. bit \in Seq(Pins)
    BY TickIs
  <1>3. \A q : Ran(Step, q, bit) = Applied(Step, q, Tick(1, 0))
    BY RanOne
  <1> HIDE DEF bit
  <1>4. begin \in Seq(Pins)
    BY <1>2, TicksAre, JoinedReads DEF Joins
  <1>5. \A q : Ran(Step, q, begin) = Ran(Step, Ran(Step, q, EnterShiftDr), bit)
    BY <1>2, TicksAre, StepsJoined
  <1> HIDE DEF begin
  <1>6. ShiftDrRead \in Seq(Pins)
    BY <1>1, <1>4, TicksAre, JoinedReads DEF Joins
  <1>7. \A q : Ran(Step, q, Joined(begin, LeaveShiftDr)) =
                 Ran(Step, Ran(Step, q, begin), LeaveShiftDr)
    BY <1>4, TicksAre, StepsJoined
  <1> QED BY <1>1, <1>3, <1>5, <1>6, <1>7

LEMMA Reads ==
  ASSUME NEW p, NEW q, NEW ir, Reached(q, "idle", ir, p),
         ~ p.fpga.clear \/ ir # JSTART
  PROVE  /\ Reached(Ran(Step, q, ShiftDrRead), "idle", ir, p)
         /\ Ran(Step, q, ShiftDrRead).tms = 0
  <1> DEFINE a == Ran(Step, q, EnterShiftDr)
             b == Applied(Step, a, Tick(1, 0))
             c == Ran(Step, b, LeaveShiftDr)
  <1>1. Ran(Step, q, ShiftDrRead) = c
    BY ReadsAre
  <1>2. Reached(a, "shiftDr", ir, p)
    BY Enters DEF Moved
  <1> HIDE DEF a
  <1>3. Reached(b, "exit1Dr", ir, p)
    BY <1>2, HighMoves, QuietTick
  <1> HIDE DEF b
  <1>4. Reached(c, "idle", ir, p) /\ c.tms = 0
    BY <1>3, Leaves DEF Moved
  <1> QED BY <1>1, <1>4

LEMMA PayloadTickIs ==
  ASSUME NEW tdi \in Int
  PROVE  /\ PayloadTick(tdi, FALSE) \in Pins /\ PayloadTick(tdi, TRUE) \in Pins
         /\ PayloadTick(tdi, FALSE).pins = "payload"
         /\ PayloadTick(tdi, TRUE).pins = "tick"
         /\ PayloadTick(tdi, TRUE).tms = 1
         /\ PayloadTick(tdi, FALSE).tdi = tdi /\ PayloadTick(tdi, TRUE).tdi = tdi
  BY DEF PayloadTick, Pins

LEMMA ZeroIsInt == 0 \in Int
  OBVIOUS

LEMMA WritesAre ==
  /\ ShiftDrWrite \in Seq(Pins)
  /\ \A q : Ran(Step, q, ShiftDrWrite) =
              Ran(Step, Applied(Step, Applied(Step, Ran(Step, q, EnterShiftDr),
                                              PayloadTick(0, FALSE)),
                                PayloadTick(0, TRUE)),
                  LeaveShiftDr)
  <1> DEFINE bits == <<PayloadTick(0, FALSE), PayloadTick(0, TRUE)>>
             begin == Joined(EnterShiftDr, bits)
  <1>1. ShiftDrWrite = Joined(begin, LeaveShiftDr)
    BY DEF ShiftDrWrite, Joined
  <1>2. bits \in Seq(Pins)
    <2>1. PayloadTick(0, FALSE) \in Pins /\ PayloadTick(0, TRUE) \in Pins
      BY ZeroIsInt, PayloadTickIs, Zenon
    <2> DEFINE a == PayloadTick(0, FALSE)
               b == PayloadTick(0, TRUE)
    <2>2. a \in Pins /\ b \in Pins
      BY <2>1
    <2> HIDE DEF a, b
    <2>3. <<a, b>> \in Seq(Pins)
      BY <2>2
    <2> QED BY <2>3 DEF a, b
  <1>3. ASSUME NEW q
        PROVE  Ran(Step, q, bits) =
                 Applied(Step, Applied(Step, q, PayloadTick(0, FALSE)),
                         PayloadTick(0, TRUE))
    <2> DEFINE a == PayloadTick(0, FALSE)
               b == PayloadTick(0, TRUE)
    <2> HIDE DEF a, b
    <2>1. Ran(Step, q, <<a, b>>) = Applied(Step, Applied(Step, q, a), b)
      BY RanTwo
    <2> QED BY <2>1 DEF a, b
  <1> HIDE DEF bits
  <1>4. begin \in Seq(Pins)
    BY <1>2, TicksAre, JoinedReads DEF Joins
  <1>5. \A q : Ran(Step, q, begin) = Ran(Step, Ran(Step, q, EnterShiftDr), bits)
    BY <1>2, TicksAre, StepsJoined
  <1> HIDE DEF begin
  <1>6. ShiftDrWrite \in Seq(Pins)
    BY <1>1, <1>4, TicksAre, JoinedReads DEF Joins
  <1>7. \A q : Ran(Step, q, Joined(begin, LeaveShiftDr)) =
                 Ran(Step, Ran(Step, q, begin), LeaveShiftDr)
    BY <1>4, TicksAre, StepsJoined
  <1> QED BY <1>1, <1>3, <1>5, <1>6, <1>7

LEMMA Writes ==
  ASSUME NEW p, NEW q, NEW ir, Reached(q, "idle", ir, p),
         ~ p.fpga.clear \/ ir # JSTART
  PROVE  /\ Reached(Ran(Step, q, ShiftDrWrite), "idle", ir, p)
         /\ Ran(Step, q, ShiftDrWrite).tms = 0
  <1> DEFINE a == Ran(Step, q, EnterShiftDr)
             b == Applied(Step, a, PayloadTick(0, FALSE))
             c == Applied(Step, b, PayloadTick(0, TRUE))
             d == Ran(Step, c, LeaveShiftDr)
  <1>1. Ran(Step, q, ShiftDrWrite) = d
    BY WritesAre
  <1>2. Reached(a, "shiftDr", ir, p) /\ a.tms = 0
    BY Enters DEF Moved
  <1> HIDE DEF a
  <1>3. Reached(b, "shiftDr", ir, p)
    <2> DEFINE s == PayloadTick(0, FALSE)
    <2>1. s \in Pins /\ s.pins = "payload"
      BY ZeroIsInt, PayloadTickIs, Zenon
    <2>2. 0 \in {0, 1} /\ 0 = IF s.pins = "payload" THEN a.tms ELSE s.tms
      BY <1>2, <2>1
    <2> HIDE DEF s
    <2>3. Reached(Applied(Step, a, s), "shiftDr", ir, p)
      BY <1>2, <2>1, <2>2, LowMoves, QuietStep
    <2> QED BY <2>3 DEF s
  <1> HIDE DEF b
  <1>4. Reached(c, "exit1Dr", ir, p)
    <2> DEFINE s == PayloadTick(0, TRUE)
    <2>1. s \in Pins /\ s.pins = "tick" /\ s.tms = 1
      BY ZeroIsInt, PayloadTickIs, Zenon
    <2>2. 1 \in {0, 1} /\ 1 = IF s.pins = "payload" THEN b.tms ELSE s.tms
      BY <2>1
    <2> HIDE DEF s
    <2>3. Reached(Applied(Step, b, s), "exit1Dr", ir, p)
      BY <1>3, <2>1, <2>2, HighMoves, QuietStep
    <2> QED BY <2>3 DEF s
  <1> HIDE DEF c
  <1>5. Reached(d, "idle", ir, p) /\ d.tms = 0
    BY <1>4, Leaves DEF Moved
  <1> QED BY <1>1, <1>5

\* The ticks of shift_ir, three sequences of them.
IrBit(instr, i) ==
  CASE i = 1 -> instr % 2
    [] i = 2 -> (instr \div 2) % 2
    [] i = 3 -> (instr \div 4) % 2
    [] i = 4 -> (instr \div 8) % 2
    [] i = 5 -> (instr \div 16) % 2
    [] i = 6 -> (instr \div 32) % 2

LEMMA IrBitsAre ==
  ASSUME NEW instr \in 0 .. 63
  PROVE  /\ \A i \in 1 .. 6 : IrBit(instr, i) \in {0, 1}
         /\ IrBit(instr, 1) + 2 * IrBit(instr, 2) + 4 * IrBit(instr, 3)
              + 8 * IrBit(instr, 4) + 16 * IrBit(instr, 5)
              + 32 * IrBit(instr, 6) = instr
  <1>1. \A n \in Nat : n % 2 \in {0, 1}
    OBVIOUS
  <1>2. /\ IrBit(instr, 1) = instr % 2 /\ IrBit(instr, 2) = (instr \div 2) % 2
        /\ IrBit(instr, 3) = (instr \div 4) % 2
        /\ IrBit(instr, 4) = (instr \div 8) % 2
        /\ IrBit(instr, 5) = (instr \div 16) % 2
        /\ IrBit(instr, 6) = (instr \div 32) % 2
    BY DEF IrBit
  <1>3. \A i \in 1 .. 6 : IrBit(instr, i) \in {0, 1}
    <2>1. /\ instr \div 2 \in Nat /\ instr \div 4 \in Nat /\ instr \div 8 \in Nat
          /\ instr \div 16 \in Nat /\ instr \div 32 \in Nat /\ instr \in Nat
      OBVIOUS
    <2> QED BY <1>1, <1>2, <2>1
  <1>4. (instr % 2) + 2 * ((instr \div 2) % 2) + 4 * ((instr \div 4) % 2)
          + 8 * ((instr \div 8) % 2) + 16 * ((instr \div 16) % 2)
          + 32 * ((instr \div 32) % 2) = instr
    OBVIOUS
  <1> QED BY <1>2, <1>3, <1>4

IrTicks(instr) ==
  <<Tick(0, IrBit(instr, 1)), Tick(0, IrBit(instr, 2)),
    Tick(0, IrBit(instr, 3)), Tick(0, IrBit(instr, 4)),
    Tick(0, IrBit(instr, 5)), Tick(1, IrBit(instr, 6))>>
EnterShiftIr == <<Tick(1, 0), Tick(1, 0), Tick(0, 0), Tick(0, 0)>>

LEMMA ShiftIrIs ==
  ASSUME NEW instr \in 0 .. 63
  PROVE  /\ ShiftIr(instr) \in Seq(Pins)
         /\ \A q : Ran(Step, q, ShiftIr(instr)) =
                     Ran(Step, Ran(Step, Ran(Step, q, EnterShiftIr),
                                   IrTicks(instr)),
                         LeaveShiftDr)
  <1> DEFINE bits == IrTicks(instr)
             begin == Joined(EnterShiftIr, bits)
  <1>1. ShiftIr(instr) = Joined(begin, LeaveShiftDr)
    <2>1. Ticks(<<1, 1, 0, 0>>) = EnterShiftIr
      BY DEF Ticks, EnterShiftIr
    <2>2. bits = <<Tick(0, instr % 2), Tick(0, (instr \div 2) % 2),
                   Tick(0, (instr \div 4) % 2), Tick(0, (instr \div 8) % 2),
                   Tick(0, (instr \div 16) % 2), Tick(1, (instr \div 32) % 2)>>
      BY DEF IrTicks, IrBit
    <2> HIDE DEF bits
    <2> QED BY <2>1, <2>2 DEF ShiftIr, LeaveShiftDr, Joined
  <1>2. bits \in Seq(Pins)
    <2>1. \A i \in 1 .. 6 : /\ Tick(0, IrBit(instr, i)) \in Pins
                            /\ Tick(1, IrBit(instr, i)) \in Pins
      <3> SUFFICES ASSUME NEW i \in 1 .. 6
                   PROVE  /\ Tick(0, IrBit(instr, i)) \in Pins
                          /\ Tick(1, IrBit(instr, i)) \in Pins
        OBVIOUS
      <3> DEFINE b == IrBit(instr, i)
      <3>1. b \in Int
        BY IrBitsAre
      <3> HIDE DEF b
      <3>2. Tick(0, b) \in Pins /\ Tick(1, b) \in Pins
        BY ONLY <3>1, TickIs
      <3> QED BY <3>2 DEF b
    <2> QED BY <2>1 DEF IrTicks
  <1>3. EnterShiftIr \in Seq(Pins)
    <2>1. Tick(0, 0) \in Pins /\ Tick(1, 0) \in Pins
      BY TickIs
    <2> QED BY <2>1 DEF EnterShiftIr
  <1> HIDE DEF bits
  <1>4. begin \in Seq(Pins)
    BY <1>2, <1>3, JoinedReads DEF Joins
  <1>5. \A q : Ran(Step, q, begin) = Ran(Step, Ran(Step, q, EnterShiftIr), bits)
    BY <1>2, <1>3, StepsJoined
  <1> HIDE DEF begin
  <1>6. ShiftIr(instr) \in Seq(Pins)
    BY <1>1, <1>4, TicksAre, JoinedReads DEF Joins
  <1>7. \A q : Ran(Step, q, Joined(begin, LeaveShiftDr)) =
                 Ran(Step, Ran(Step, q, begin), LeaveShiftDr)
    BY <1>4, TicksAre, StepsJoined
  <1> QED BY <1>1, <1>5, <1>6, <1>7 DEF bits

\* The way into Shift-IR; Capture-IR has left 1 in the shift register.
LEMMA EntersIr ==
  ASSUME NEW p, NEW q, NEW ir, Reached(q, "idle", ir, p),
         ~ p.fpga.clear \/ ir # JSTART
  PROVE  LET r == Ran(Step, q, EnterShiftIr)
         IN Moved(r, q, "shiftIr", ir, p) /\ r.fpga.sr = 1
  <1> DEFINE a == Applied(Step, q, Tick(1, 0))
             b == Applied(Step, a, Tick(1, 0))
             c == Applied(Step, b, Tick(0, 0))
             d == Applied(Step, c, Tick(0, 0))
  <1>1. Ran(Step, q, EnterShiftIr) = d
    BY RanFour DEF EnterShiftIr
  <1>2. Reached(a, "selectDr", ir, p) /\ a.fpga.cfg = q.fpga.cfg
    BY HighMoves, QuietTick
  <1> HIDE DEF a
  <1>3. Reached(b, "selectIr", ir, p) /\ b.fpga.cfg = a.fpga.cfg
    BY <1>2, HighMoves, QuietTick
  <1> HIDE DEF b
  <1>4. Reached(c, "captureIr", ir, p) /\ c.fpga.cfg = b.fpga.cfg
    BY <1>3, LowMoves, QuietTick
  <1> HIDE DEF c
  <1>5. Reached(d, "shiftIr", ir, p) /\ d.tms = 0 /\ d.fpga.cfg = c.fpga.cfg
        /\ d.fpga.sr = NextSr(c.fpga, 0)
    BY <1>4, LowMoves, QuietTick
  <1>6. NextSr(c.fpga, 0) = 1
    BY <1>4 DEF Reached, NextSr
  <1> QED BY <1>1, <1>2, <1>3, <1>4, <1>5, <1>6 DEF Moved

\* One bit of an instruction.
LEMMA ShiftsBit ==
  ASSUME NEW p, NEW q, NEW ir, Reached(q, "shiftIr", ir, p),
         NEW v \in {0, 1}, NEW bit \in {0, 1}
  PROVE  LET r == Applied(Step, q, Tick(v, bit))
         IN /\ Reached(r, IF v = 0 THEN "shiftIr" ELSE "exit1Ir", ir, p)
            /\ r.fpga.cfg = q.fpga.cfg
            /\ r.fpga.sr = (q.fpga.sr \div 2) + 32 * bit
  <1> DEFINE r == Applied(Step, q, Tick(v, bit))
             next == IF v = 0 THEN "shiftIr" ELSE "exit1Ir"
  <1>1. Tap["shiftIr"][v + 1] = next /\ next # "updateIr" /\ next # "reset"
    BY HighMoves, LowMoves
  <1>2. bit \in Int /\ bit % 2 = bit
    OBVIOUS
  <1> HIDE DEF next
  <1>3. /\ Reached(r, next, ir, p) /\ r.fpga.cfg = q.fpga.cfg
        /\ r.fpga.sr = NextSr(q.fpga, bit)
    BY <1>1, <1>2, QuietTick
  <1>4. NextSr(q.fpga, bit) = (q.fpga.sr \div 2) + 32 * bit
    BY <1>2 DEF NextSr, Reached
  <1> QED BY <1>3, <1>4 DEF next

\* The six bits of an instruction leave it in a register that held 1.
LEMMA RanSix ==
  ASSUME NEW F, NEW p, NEW a, NEW b, NEW c, NEW d, NEW e, NEW g
  PROVE  Ran(F, p, <<a, b, c, d, e, g>>) =
           Applied(F, Applied(F, Applied(F, Applied(F, Applied(F, Applied(F,
             p, a), b), c), d), e), g)
  <1> DEFINE s == <<a, b, c, d, e, g>>
  <1>1. 6 \in Nat /\ Len(s) = 6
        /\ s[1] = a /\ s[2] = b /\ s[3] = c /\ s[4] = d /\ s[5] = e /\ s[6] = g
    OBVIOUS
  <1> HIDE DEF s
  <1>2. PICK f : Way(f, F, p, s, 6)
    BY <1>1, RanSteps
  <1>3. /\ f[1] = Applied(F, p, a)
        /\ f[2] = Applied(F, f[1], b)
        /\ f[3] = Applied(F, f[2], c)
        /\ f[4] = Applied(F, f[3], d)
        /\ f[5] = Applied(F, f[4], e)
        /\ f[6] = Applied(F, f[5], g)
    BY <1>1, <1>2 DEF Way
  <1> QED BY <1>2, <1>3 DEF s, Way

LEMMA ShiftsBits ==
  ASSUME NEW p, NEW q, NEW ir, Reached(q, "shiftIr", ir, p), q.fpga.sr = 1,
         NEW instr \in 0 .. 63
  PROVE  LET r == Ran(Step, q, IrTicks(instr))
         IN /\ Reached(r, "exit1Ir", ir, p) /\ r.fpga.cfg = q.fpga.cfg
            /\ r.fpga.sr = instr
  <1> DEFINE bit(i) == IrBit(instr, i)
             a == Applied(Step, q, Tick(0, bit(1)))
             b == Applied(Step, a, Tick(0, bit(2)))
             c == Applied(Step, b, Tick(0, bit(3)))
             d == Applied(Step, c, Tick(0, bit(4)))
             e == Applied(Step, d, Tick(0, bit(5)))
             g == Applied(Step, e, Tick(1, bit(6)))
  <1>1. Ran(Step, q, IrTicks(instr)) = g
    BY RanSix DEF IrTicks
  <1>2. /\ bit(1) \in {0, 1} /\ bit(2) \in {0, 1} /\ bit(3) \in {0, 1}
        /\ bit(4) \in {0, 1} /\ bit(5) \in {0, 1} /\ bit(6) \in {0, 1}
        /\ bit(1) + 2 * bit(2) + 4 * bit(3) + 8 * bit(4) + 16 * bit(5)
             + 32 * bit(6) = instr
    BY IrBitsAre
  <1> HIDE DEF bit
  <1>3. /\ Reached(a, "shiftIr", ir, p) /\ a.fpga.cfg = q.fpga.cfg
        /\ a.fpga.sr = (1 \div 2) + 32 * bit(1)
    BY <1>2, ShiftsBit
  <1> HIDE DEF a
  <1>4. /\ Reached(b, "shiftIr", ir, p) /\ b.fpga.cfg = a.fpga.cfg
        /\ b.fpga.sr = (a.fpga.sr \div 2) + 32 * bit(2)
    BY <1>2, <1>3, ShiftsBit
  <1> HIDE DEF b
  <1>5. /\ Reached(c, "shiftIr", ir, p) /\ c.fpga.cfg = b.fpga.cfg
        /\ c.fpga.sr = (b.fpga.sr \div 2) + 32 * bit(3)
    BY <1>2, <1>4, ShiftsBit
  <1> HIDE DEF c
  <1>6. /\ Reached(d, "shiftIr", ir, p) /\ d.fpga.cfg = c.fpga.cfg
        /\ d.fpga.sr = (c.fpga.sr \div 2) + 32 * bit(4)
    BY <1>2, <1>5, ShiftsBit
  <1> HIDE DEF d
  <1>7. /\ Reached(e, "shiftIr", ir, p) /\ e.fpga.cfg = d.fpga.cfg
        /\ e.fpga.sr = (d.fpga.sr \div 2) + 32 * bit(5)
    BY <1>2, <1>6, ShiftsBit
  <1> HIDE DEF e
  <1>8. /\ Reached(g, "exit1Ir", ir, p) /\ g.fpga.cfg = e.fpga.cfg
        /\ g.fpga.sr = (e.fpga.sr \div 2) + 32 * bit(6)
    BY <1>2, <1>7, ShiftsBit
  <1> HIDE DEF g
  <1>9. g.fpga.sr = instr
    <2>1. a.fpga.sr = 32 * bit(1)
      BY <1>2, <1>3
    <2>2. b.fpga.sr = 16 * bit(1) + 32 * bit(2)
      BY <1>2, <1>4, <2>1
    <2>3. c.fpga.sr = 8 * bit(1) + 16 * bit(2) + 32 * bit(3)
      BY <1>2, <1>5, <2>2
    <2>4. d.fpga.sr = 4 * bit(1) + 8 * bit(2) + 16 * bit(3) + 32 * bit(4)
      BY <1>2, <1>6, <2>3
    <2>5. e.fpga.sr = 2 * bit(1) + 4 * bit(2) + 8 * bit(3) + 16 * bit(4)
                        + 32 * bit(5)
      BY <1>2, <1>7, <2>4
    <2>6. g.fpga.sr = bit(1) + 2 * bit(2) + 4 * bit(3) + 8 * bit(4)
                        + 16 * bit(5) + 32 * bit(6)
      BY <1>2, <1>8, <2>5
    <2> QED BY <1>2, <2>6
  <1> QED BY <1>1, <1>3, <1>4, <1>5, <1>6, <1>7, <1>8, <1>9

\* Update-IR takes the instruction; JPROGRAM clears the FPGA at once.
LEMMA TakesIr ==
  ASSUME NEW p, NEW q, NEW ir, Reached(q, "exit1Ir", ir, p),
         NEW instr, q.fpga.sr = instr
  PROVE  LET r == Applied(Step, q, Tick(1, 0))
         IN /\ instr # JPROGRAM =>
                 Reached(r, "updateIr", instr, p) /\ r.fpga.cfg = q.fpga.cfg
            /\ instr = JPROGRAM =>
                 /\ Reached(r, "updateIr", instr, r) /\ r.fpga.clear
                 /\ r.fpga.design = None /\ r.fpga.cfg = <<>>
  <1> DEFINE s == Tick(1, 0)
             r == Applied(Step, q, s)
             f == q.fpga
             g == r.fpga
  <1>1. s \in Pins /\ s.pins = "tick" /\ s.tms = 1 /\ s.tdi = 0
    BY TickIs
  <1>2. q \in Ports /\ q.hijack /\ f.tap = "exit1Ir"
        /\ f.clear = p.fpga.clear /\ f.design = p.fpga.design
    BY DEF Reached
  <1> HIDE DEF s
  <1>3. r \in Ports /\ r.hijack /\ g = Clocked(f, 1, 0)
    <2>1. q \in Ports /\ s \in Pins
      BY <1>1, <1>2
    <2>2. LET v == IF s.pins \in {"payload", "release"} THEN q.tms ELSE s.tms
          IN /\ r \in Ports /\ v \in {0, 1}
             /\ r.hijack = IF s.pins = "claim" THEN TRUE
                           ELSE IF s.pins = "release" THEN FALSE ELSE q.hijack
             /\ g = IF s.pins \in {"tick", "payload"} /\ q.hijack
                      THEN Clocked(f, v, s.tdi)
                      ELSE f
      BY ONLY <2>1, StepIs
    <2> QED BY <1>1, <1>2, <2>2
  <1>4. f \in Fpgas /\ 1 \in {0, 1} /\ 0 \in Int /\ f.clear \in BOOLEAN
    BY <1>2 DEF Ports, Fpgas
  <1> HIDE DEF f, g, r
  <1>5. NextTap(f, 1) = "updateIr" /\ ~ Starts(f) /\ ~ Takes(f)
        /\ (Clears(f, 1) <=> instr = JPROGRAM)
    BY <1>2, HighMoves DEF NextTap, Starts, Takes, Clears, f
  <1>6. /\ g.tap = NextTap(f, 1) /\ g.ir = NextIr(f, 1)
        /\ g.clear = NextClear(f, 1) /\ g.cfg = NextCfg(f, 1, 0)
        /\ g.design = NextDesign(f, 1)
    BY <1>3, <1>4, ClockedIs
  <1>7. g.tap = "updateIr" /\ g.ir = instr
    BY <1>5, <1>6 DEF NextIr, f
  <1>8. ASSUME instr # JPROGRAM
        PROVE  g.clear = f.clear /\ g.cfg = f.cfg /\ g.design = f.design
    BY <1>4, <1>5, <1>6, <1>8 DEF NextClear, NextCfg, NextDesign
  <1>9. ASSUME instr = JPROGRAM
        PROVE  g.clear /\ g.cfg = <<>> /\ g.design = None
    BY <1>4, <1>5, <1>6, <1>9 DEF NextClear, NextCfg, NextDesign
  <1> QED BY <1>2, <1>3, <1>7, <1>8, <1>9 DEF Reached, f, g, r, s

\* JPROGRAM is in, and the FPGA cleared.
Cleared(r) ==
  /\ Reached(r, "idle", JPROGRAM, r) /\ r.tms = 0
  /\ r.fpga.clear /\ r.fpga.design = None /\ r.fpga.cfg = <<>>

LEMMA ShiftsIr ==
  ASSUME NEW p, NEW q, NEW ir, Reached(q, "idle", ir, p),
         ~ p.fpga.clear \/ ir # JSTART, NEW instr \in 0 .. 63
  PROVE  LET r == Ran(Step, q, ShiftIr(instr))
         IN /\ instr # JPROGRAM => Moved(r, q, "idle", instr, p)
            /\ instr = JPROGRAM => Cleared(r)
  <1> DEFINE a == Ran(Step, q, EnterShiftIr)
             b == Ran(Step, a, IrTicks(instr))
             c == Applied(Step, b, Tick(1, 0))
             d == Applied(Step, c, Tick(0, 0))
  <1>1. Ran(Step, q, ShiftIr(instr)) = d
    <2>1. Ran(Step, q, ShiftIr(instr)) = Ran(Step, b, LeaveShiftDr)
      BY ShiftIrIs
    <2> HIDE DEF b
    <2>2. Ran(Step, b, LeaveShiftDr) = d
      BY TicksAre, RanTwo
    <2> QED BY <2>1, <2>2
  <1>2. Reached(a, "shiftIr", ir, p) /\ a.fpga.cfg = q.fpga.cfg /\ a.fpga.sr = 1
    BY EntersIr DEF Moved
  <1> HIDE DEF a
  <1>3. Reached(b, "exit1Ir", ir, p) /\ b.fpga.cfg = a.fpga.cfg
        /\ b.fpga.sr = instr
    BY <1>2, ShiftsBits
  <1> HIDE DEF b
  <1>4. /\ instr # JPROGRAM =>
             Reached(c, "updateIr", instr, p) /\ c.fpga.cfg = b.fpga.cfg
        /\ instr = JPROGRAM =>
             /\ Reached(c, "updateIr", instr, c) /\ c.fpga.clear
             /\ c.fpga.design = None /\ c.fpga.cfg = <<>>
    BY <1>3, TakesIr
  <1> HIDE DEF c
  <1>5. ASSUME instr # JPROGRAM PROVE Moved(d, q, "idle", instr, p)
    <2>1. Reached(c, "updateIr", instr, p) /\ c.fpga.cfg = q.fpga.cfg
      BY <1>2, <1>3, <1>4, <1>5
    <2>2. Reached(d, "idle", instr, p) /\ d.tms = 0 /\ d.fpga.cfg = c.fpga.cfg
      BY <2>1, LowMoves, QuietTick
    <2> QED BY <2>1, <2>2 DEF Moved
  <1>6. ASSUME instr = JPROGRAM PROVE Cleared(d)
    <2>1. /\ Reached(c, "updateIr", instr, c) /\ c.fpga.clear
          /\ c.fpga.design = None /\ c.fpga.cfg = <<>>
      BY <1>4, <1>6
    <2>2. Reached(d, "idle", instr, c) /\ d.tms = 0 /\ d.fpga.cfg = c.fpga.cfg
      <3>1. ~ c.fpga.clear \/ instr # JSTART
        BY <1>6 DEF JPROGRAM, JSTART
      <3>2. Reached(c, "updateIr", instr, c)
        BY <2>1
      <3> QED BY ONLY <3>1, <3>2, LowMoves, QuietTick
    <2> QED BY <1>6, <2>1, <2>2 DEF Reached, Cleared
  <1> QED BY <1>1, <1>5, <1>6

\* The first clock in Run-Test/Idle after JSTART starts the FPGA with what was
\* loaded.
LEMMA Starting ==
  ASSUME NEW q, Reached(q, "idle", JSTART, q), q.fpga.clear
  PROVE  LET r == Applied(Step, q, Tick(0, 0))
         IN /\ Reached(r, "idle", JSTART, r) /\ r.tms = 0 /\ ~ r.fpga.clear
            /\ r.fpga.design = q.fpga.cfg
  <1> DEFINE s == Tick(0, 0)
             r == Applied(Step, q, s)
             f == q.fpga
             g == r.fpga
  <1>1. s \in Pins /\ s.pins = "tick" /\ s.tms = 0 /\ s.tdi = 0
    BY TickIs
  <1>2. q \in Ports /\ q.hijack /\ f.tap = "idle" /\ f.ir = JSTART /\ f.clear
    BY DEF Reached
  <1> HIDE DEF s
  <1>3. r \in Ports /\ r.hijack /\ r.tms = 0 /\ g = Clocked(f, 0, 0)
    <2>1. q \in Ports /\ s \in Pins
      BY <1>1, <1>2
    <2>2. LET v == IF s.pins \in {"payload", "release"} THEN q.tms ELSE s.tms
          IN /\ r \in Ports /\ r.tms = v /\ v \in {0, 1}
             /\ r.hijack = IF s.pins = "claim" THEN TRUE
                           ELSE IF s.pins = "release" THEN FALSE ELSE q.hijack
             /\ g = IF s.pins \in {"tick", "payload"} /\ q.hijack
                      THEN Clocked(f, v, s.tdi)
                      ELSE f
      BY ONLY <2>1, StepIs
    <2> QED BY <1>1, <1>2, <2>2
  <1>4. f \in Fpgas /\ 0 \in {0, 1} /\ 0 \in Int
    BY <1>2 DEF Ports, Fpgas
  <1> HIDE DEF f, g, r
  <1>5. NextTap(f, 0) = "idle" /\ Starts(f) /\ ~ Clears(f, 0)
    BY <1>2, LowMoves DEF NextTap, Starts, Clears
  <1>6. /\ g.tap = NextTap(f, 0) /\ g.ir = NextIr(f, 0)
        /\ g.clear = NextClear(f, 0) /\ g.design = NextDesign(f, 0)
    BY <1>3, <1>4, ClockedIs
  <1>7. g.tap = "idle" /\ g.ir = JSTART /\ ~ g.clear /\ g.design = f.cfg
    BY <1>2, <1>5, <1>6 DEF NextIr, NextClear, NextDesign
  <1> QED BY <1>3, <1>7 DEF Reached, f, g, r, s

LEMMA IdleStarts ==
  ASSUME NEW q, Reached(q, "idle", JSTART, q), q.fpga.clear
  PROVE  LET r == Ran(Step, q, IdleClocks)
         IN /\ Reached(r, "idle", JSTART, r) /\ r.tms = 0 /\ ~ r.fpga.clear
            /\ r.fpga.design = q.fpga.cfg
  <1> DEFINE Started(r) ==
               /\ Reached(r, "idle", JSTART, r) /\ r.tms = 0 /\ ~ r.fpga.clear
               /\ r.fpga.design = q.fpga.cfg
             n == IdleTicks
  <1>1. Len(IdleClocks) = n /\ n \in Nat /\ n # 0
        /\ \A i \in 1 .. n : IdleClocks[i] = Tick(0, 0)
    BY PortAssumption DEF IdleClocks
  <1> HIDE DEF n
  <1>2. PICK f : Way(f, Step, q, IdleClocks, n)
    BY <1>1, RanSteps
  <1>3. Started(f[1])
    <2>1. f[1] = Applied(Step, q, Tick(0, 0))
      BY <1>1, <1>2 DEF Way
    <2> QED BY <2>1, Starting
  <1>4. ASSUME NEW r, Started(r) PROVE Started(Applied(Step, r, Tick(0, 0)))
    <2> DEFINE t == Applied(Step, r, Tick(0, 0))
    <2>1. Reached(r, "idle", JSTART, r) /\ ~ r.fpga.clear
      BY <1>4
    <2>2. Reached(t, "idle", JSTART, r) /\ t.tms = 0
      <3>1. "idle" # "shiftDr" /\ "idle" # "updateIr" /\ "idle" # "reset"
        OBVIOUS
      <3> QED BY <2>1, <3>1, LowMoves, QuietTick
    <2> HIDE DEF t
    <2> QED BY <1>4, <2>2 DEF Reached, t
  <1> HIDE DEF Started
  <1> DEFINE Good == {i \in 1 .. n : Started(f[i])}
  <1>5. 1 \in Good /\ 1 \in Nat
    BY <1>1, <1>3
  <1>6. ASSUME NEW k \in 1 .. n - 1, k \in Good PROVE k + 1 \in Good
    <2>1. k + 1 \in 1 .. n /\ (k + 1) - 1 = k
      BY <1>1
    <2>2. f[k + 1] = Applied(Step, f[k], Tick(0, 0))
      BY <1>1, <1>2, <2>1 DEF Way
    <2> QED BY <1>4, <1>6, <2>1, <2>2
  <1> HIDE DEF Good
  <1>7. \A i \in 1 .. n : i \in Good
    BY <1>1, <1>5, <1>6, Induction
  <1>8. n \in Good
    BY <1>1, <1>7
  <1>9. Started(f[n]) /\ Ran(Step, q, IdleClocks) = f[n]
    BY <1>2, <1>8 DEF Good, Way
  <1> QED BY <1>9 DEF Started

LEMMA TapResetSteps ==
  /\ TapReset \in Seq(Pins) /\ Len(TapReset) = 9
  /\ \A i \in 1 .. 8 : TapReset[i] = Tick(1, 0)
  /\ TapReset[9] = Tick(0, 0)
  <1> DEFINE bits == <<1, 1, 1, 1, 1, 1, 1, 1, 0>>
  <1>1. Len(bits) = 9 /\ bits[9] = 0 /\ \A i \in 1 .. 9 : bits[i] \in {0, 1}
    OBVIOUS
  <1>2. \A i \in 1 .. 8 : bits[i] = 1
    OBVIOUS
  <1> HIDE DEF bits
  <1>3. TapReset = [i \in 1 .. 9 |-> Tick(bits[i], 0)]
    BY <1>1 DEF TapReset, Ticks, bits
  <1>4. \A i \in 1 .. 9 : Tick(bits[i], 0) \in Pins
    BY <1>1, TickIs
  <1> QED BY <1>1, <1>2, <1>3, <1>4

LEMMA Instructions ==
  /\ IDCODE \in 0 .. 63 /\ CFG_IN \in 0 .. 63 /\ CFG_OUT \in 0 .. 63
  /\ JPROGRAM \in 0 .. 63 /\ JSTART \in 0 .. 63 /\ ISC_NOOP \in 0 .. 63
  /\ BYPASS \in 0 .. 63
  /\ JPROGRAM \notin {IDCODE, CFG_IN, CFG_OUT, JSTART, ISC_NOOP, BYPASS}
  /\ JSTART \notin {IDCODE, CFG_IN, CFG_OUT, JPROGRAM, ISC_NOOP, BYPASS}
  BY DEF IDCODE, CFG_IN, CFG_OUT, JPROGRAM, JSTART, ISC_NOOP, BYPASS

\* A port whose TAP is reset by TMS high without a load or a start on the way.
Ready(p) ==
  /\ p \in Ports /\ p.fpga.ir # JSTART
  /\ p.fpga.tap \in {"idle", "reset", "shiftDr", "exit1Dr", "updateDr",
                     "selectDr", "selectIr"}

\* q is on that way, and its FPGA is configured like that of p.
Still(q, p) ==
  /\ Ready(q) /\ q.hijack
  /\ q.fpga.clear = p.fpga.clear /\ q.fpga.design = p.fpga.design

\* A clock with TMS high.
LEMMA StaysStill ==
  ASSUME NEW p, NEW q, Still(q, p), NEW s \in Pins,
         s.pins \in {"tick", "payload"},
         1 = IF s.pins = "payload" THEN q.tms ELSE s.tms
  PROVE  LET r == Applied(Step, q, s) IN Still(r, p) /\ r.tms = 1
  <1> DEFINE r == Applied(Step, q, s)
             tap == q.fpga.tap
             ir == q.fpga.ir
             next == Tap[tap][1 + 1]
  <1>1. /\ Reached(q, tap, ir, p) /\ ir # JSTART
        /\ tap \in {"idle", "reset", "shiftDr", "exit1Dr", "updateDr",
                    "selectDr", "selectIr"}
    BY DEF Still, Ready, Reached
  <1> HIDE DEF tap, ir
  <1>2. next \in {"reset", "exit1Dr", "updateDr", "selectDr", "selectIr"}
    <2>1. CASE tap \in {"idle", "reset"}
      BY <2>1, HighMoves
    <2>2. CASE tap \in {"shiftDr", "exit1Dr", "updateDr"}
      BY <2>2, HighMoves
    <2>3. CASE tap \in {"selectDr", "selectIr"}
      BY <2>3, HighMoves
    <2> QED BY <1>1, <2>1, <2>2, <2>3
  <1>3. next # "updateIr" /\ 1 \in {0, 1} /\ Tap[tap][1 + 1] = next
    BY <1>2
  <1> HIDE DEF next
  <1>4. /\ Reached(r, next, IF next = "reset" THEN IDCODE ELSE ir, p)
        /\ r.tms = 1
    BY <1>1, <1>3, QuietStep
  <1> HIDE DEF r
  <1>5. (IF next = "reset" THEN IDCODE ELSE ir) # JSTART
    BY <1>1, Instructions
  <1>6. Still(r, p)
    BY <1>2, <1>4, <1>5 DEF Still, Ready, Reached
  <1> QED BY <1>4, <1>6 DEF r

\* q is a port of which the TAP is in one of taps, with IDCODE in reset.
Within(q, taps) ==
  /\ q \in Ports /\ q.hijack /\ q.fpga.tap \in taps
  /\ q.fpga.tap = "reset" => q.fpga.ir = IDCODE

LEMMA Clocks ==
  ASSUME NEW q \in Ports, q.hijack, NEW v \in {0, 1}, NEW taps,
         Tap[q.fpga.tap][v + 1] \in taps
  PROVE  Within(Applied(Step, q, Tick(v, 0)), taps)
  <1> DEFINE s == Tick(v, 0)
             r == Applied(Step, q, s)
             f == q.fpga
  <1>1. s \in Pins /\ s.pins = "tick" /\ s.tms = v /\ s.tdi = 0
    BY TickIs
  <1> HIDE DEF s
  <1>2. /\ r \in Ports /\ r.hijack /\ r.fpga = Clocked(f, v, 0)
    BY <1>1, StepIs
  <1>3. f \in Fpgas /\ 0 \in Int
    BY DEF Ports, Fpgas
  <1> HIDE DEF r, f
  <1>4. r.fpga.tap = NextTap(f, v) /\ r.fpga.ir = NextIr(f, v)
    <2>1. f \in Fpgas /\ v \in {0, 1} /\ 0 \in Int
      BY <1>3
    <2>2. Clocked(f, v, 0).tap = NextTap(f, v) /\ Clocked(f, v, 0).ir = NextIr(f, v)
      BY ONLY <2>1, ClockedIs
    <2> QED BY ONLY <1>2, <2>2
  <1>5. NextTap(f, v) \in taps
    BY DEF NextTap, f
  <1>6. Within(r, taps)
    BY <1>2, <1>4, <1>5 DEF Within, NextIr
  <1> QED BY <1>6 DEF r, s

\* Where the TAP may be after one to five clocks with TMS high.
After1 == {"reset", "selectDr", "selectIr", "exit1Dr", "exit2Dr", "updateDr",
           "exit1Ir", "exit2Ir", "updateIr"}
After2 == {"reset", "selectDr", "selectIr", "updateDr", "updateIr"}
After3 == {"reset", "selectDr", "selectIr"}
After4 == {"reset", "selectIr"}

LEMMA HighWays ==
  /\ \A t \in DOMAIN Tap : Tap[t][1 + 1] \in After1
  /\ \A t \in After1 : Tap[t][1 + 1] \in After2
  /\ \A t \in After2 : Tap[t][1 + 1] \in After3
  /\ \A t \in After3 : Tap[t][1 + 1] \in After4
  /\ \A t \in After4 : Tap[t][1 + 1] \in {"reset"}
  /\ \A t \in {"reset"} : Tap[t][1 + 1] \in {"reset"}
  <1>1. \A t \in DOMAIN Tap : Tap[t][2] \in After1
    BY DEF Tap, After1
  <1>2. \A t \in After1 : Tap[t][2] \in After2
    BY DEF Tap, After1, After2
  <1>3. \A t \in After2 : Tap[t][2] \in After3
    BY DEF Tap, After2, After3
  <1>4. \A t \in After3 : Tap[t][2] \in After4
    BY DEF Tap, After3, After4
  <1>5. \A t \in After4 : Tap[t][2] \in {"reset"}
    BY DEF Tap, After4
  <1>6. 1 + 1 = 2
    OBVIOUS
  <1> QED BY <1>1, <1>2, <1>3, <1>4, <1>5, <1>6 DEF After4

LEMMA GoesHigh ==
  ASSUME NEW q, NEW taps, NEW next, Within(q, taps),
         \A t \in taps : Tap[t][1 + 1] \in next
  PROVE  Within(Applied(Step, q, Tick(1, 0)), next)
  <1>1. q \in Ports /\ q.hijack /\ Tap[q.fpga.tap][1 + 1] \in next
    BY DEF Within
  <1>2. 1 \in {0, 1}
    OBVIOUS
  <1> QED BY <1>1, <1>2, Clocks

\* The TAP of every port is reset; if it is ready the FPGA stays as it is.
LEMMA Resets ==
  ASSUME NEW p \in Ports, p.hijack
  PROVE  LET r == Ran(Step, p, TapReset)
         IN /\ r \in Ports /\ r.hijack /\ r.tms = 0
            /\ r.fpga.tap = "idle" /\ r.fpga.ir = IDCODE
            /\ Ready(p) => Reached(r, "idle", IDCODE, p)
  <1>1. PICK f : Way(f, Step, p, TapReset, 9)
    <2>1. 9 \in Nat /\ Len(TapReset) = 9
      BY TapResetSteps
    <2> QED BY ONLY <2>1, RanSteps
  <1>2. /\ f[1] = Applied(Step, p, Tick(1, 0))
        /\ f[2] = Applied(Step, f[1], Tick(1, 0))
        /\ f[3] = Applied(Step, f[2], Tick(1, 0))
        /\ f[4] = Applied(Step, f[3], Tick(1, 0))
        /\ f[5] = Applied(Step, f[4], Tick(1, 0))
        /\ f[6] = Applied(Step, f[5], Tick(1, 0))
        /\ f[7] = Applied(Step, f[6], Tick(1, 0))
        /\ f[8] = Applied(Step, f[7], Tick(1, 0))
        /\ f[9] = Applied(Step, f[8], Tick(0, 0))
    BY <1>1, TapResetSteps DEF Way
  <1>3. Within(f[8], {"reset"})
    <2>1. Within(f[1], After1)
      <3>1. p.fpga.tap \in DOMAIN Tap
        BY DEF Ports
      <3> QED BY <1>2, <3>1, HighWays, Clocks
    <2>2. Within(f[2], After2)
      BY <1>2, <2>1, HighWays, GoesHigh
    <2>3. Within(f[3], After3)
      BY <1>2, <2>2, HighWays, GoesHigh
    <2>4. Within(f[4], After4)
      BY <1>2, <2>3, HighWays, GoesHigh
    <2>5. Within(f[5], {"reset"})
      BY <1>2, <2>4, HighWays, GoesHigh
    <2>6. Within(f[6], {"reset"})
      BY <1>2, <2>5, HighWays, GoesHigh
    <2>7. Within(f[7], {"reset"})
      BY <1>2, <2>6, HighWays, GoesHigh
    <2> QED BY <1>2, <2>7, HighWays, GoesHigh
  <1>4. Ready(p) => Still(f[8], p)
    <2>1. ASSUME NEW q, Still(q, p)
          PROVE  Still(Applied(Step, q, Tick(1, 0)), p)
      <3> DEFINE s == Tick(1, 0)
      <3>1. s \in Pins /\ s.pins = "tick" /\ s.tms = 1
        BY TickIs
      <3> HIDE DEF s
      <3>2. Still(Applied(Step, q, s), p)
        BY <2>1, <3>1, StaysStill
      <3> QED BY <3>2 DEF s
    <2>2. Ready(p) => Still(p, p)
      BY DEF Still
    <2> QED BY <1>2, <2>1, <2>2
  <1>5. Reached(f[8], "reset", IDCODE, f[8])
    BY <1>3 DEF Within, Reached
  <1>6. Reached(f[9], "idle", IDCODE, f[8]) /\ f[9].tms = 0
    BY <1>2, <1>5, LowMoves, QuietTick
  <1>7. Ready(p) => Reached(f[9], "idle", IDCODE, p)
    BY <1>4, <1>6 DEF Still, Reached
  <1>8. Ran(Step, p, TapReset) = f[9]
    BY <1>1 DEF Way
  <1> QED BY <1>6, <1>7, <1>8 DEF Reached

-----------------------------------------------------------------------------
(* The payload.                                                            *)

\* The port is claimed and its TAP in Shift-DR for the payload, TMS low.
Loading(q, p) == Reached(q, "shiftDr", CFG_IN, p) /\ q.tms = 0

\* One bit of the payload; the last one leaves Shift-DR.
LEMMA LoadsBit ==
  ASSUME NEW p, NEW q, Loading(q, p), NEW tdi \in Int,
         NEW s \in Pins, s.tdi = tdi,
         NEW last \in BOOLEAN,
         s.pins = IF last THEN "tick" ELSE "payload", last => s.tms = 1
  PROVE  LET r == Applied(Step, q, s)
         IN /\ last => Reached(r, "exit1Dr", CFG_IN, p)
            /\ ~ last => Loading(r, p)
            /\ q.fpga.clear /\ Len(q.fpga.cfg) < MostBits =>
                 r.fpga.cfg = Append(q.fpga.cfg, tdi)
  <1> DEFINE r == Applied(Step, q, s)
             f == q.fpga
             g == r.fpga
             v == IF last THEN 1 ELSE 0
             next == IF last THEN "exit1Dr" ELSE "shiftDr"
  <1>1. /\ q \in Ports /\ q.hijack /\ q.tms = 0 /\ f.tap = "shiftDr"
        /\ f.ir = CFG_IN /\ Reached(q, "shiftDr", CFG_IN, p)
    BY DEF Loading, Reached
  <1>2. v \in {0, 1} /\ v = (IF s.pins = "payload" THEN q.tms ELSE s.tms)
        /\ s.pins \in {"tick", "payload"}
    BY <1>1 DEF Pins
  <1>3. Tap["shiftDr"][v + 1] = next /\ next # "updateIr" /\ next # "reset"
    BY HighMoves, LowMoves
  <1> HIDE DEF v, next
  <1>4. Reached(r, next, CFG_IN, p) /\ r.tms = v
    BY <1>1, <1>2, <1>3, QuietStep
  <1>5. ASSUME f.clear, Len(f.cfg) < MostBits PROVE g.cfg = Append(f.cfg, tdi)
    <2>1. q \in Ports /\ s \in Pins
      BY <1>1
    <2>2. LET w == IF s.pins \in {"payload", "release"} THEN q.tms ELSE s.tms
          IN g = IF s.pins \in {"tick", "payload"} /\ q.hijack
                   THEN Clocked(f, w, s.tdi)
                   ELSE f
      BY ONLY <2>1, StepIs
    <2>3. g = Clocked(f, v, tdi)
      <3>1. v = IF s.pins \in {"payload", "release"} THEN q.tms ELSE s.tms
        BY <1>2
      <3> HIDE DEF f, g
      <3> QED BY <1>1, <1>2, <2>2, <3>1
    <2>4. f \in Fpgas
      BY <1>1 DEF Ports, Fpgas
    <2> HIDE DEF f, g
    <2>5. g.cfg = NextCfg(f, v, tdi)
      BY <1>2, <2>3, <2>4, ClockedIs
    <2>6. Takes(f) /\ ~ Starts(f) /\ ~ Clears(f, v)
      BY <1>1, <1>3, <1>5 DEF Takes, Starts, Clears, NextTap
    <2> QED BY <2>5, <2>6 DEF NextCfg
  <1> QED BY <1>4, <1>5 DEF Loading, v, next, f, g

\* The first m bits of pay are loaded.
Holds(cfg, pay, m) ==
  /\ cfg \in Seq(Int) /\ Len(cfg) = m
  /\ \A k \in 1 .. m : cfg[k] = Bits(pay)[k]

LEMMA PlaceOfBit ==
  ASSUME NEW pay \in Seq(Nat), NEW d \in 0 .. Len(pay) - 1,
         NEW i \in 1 .. ByteBits
  PROVE  /\ (d * ByteBits) + i \in 1 .. Len(pay) * ByteBits
         /\ Bits(pay)[(d * ByteBits) + i] = Bit(pay[d + 1], i)
         /\ Bit(pay[d + 1], i) \in Int
  <1> DEFINE k == (d * ByteBits) + i
             n == Len(pay)
             base == d * ByteBits
             all == n * ByteBits
  <1>1. /\ ByteBits \in Nat \ {0} /\ d \in Nat /\ n \in Nat /\ d + 1 <= n
        /\ base \in Nat /\ all \in Nat /\ d + 1 \in Nat
    BY PortAssumption
  <1>2. (d + 1) * ByteBits <= all /\ (d + 1) * ByteBits = base + ByteBits
    <2>1. (d + 1) * ByteBits <= n * ByteBits
      BY <1>1, Products
    <2>2. (d + 1) * ByteBits = (d * ByteBits) + ByteBits
      BY <1>1
    <2> QED BY <2>1, <2>2
  <1>3. (base + (i - 1)) \div ByteBits = d /\ (base + (i - 1)) % ByteBits = i - 1
    <2>1. i - 1 \in 0 .. ByteBits - 1
      BY <1>1
    <2> QED BY <1>1, <2>1, Places
  <1> HIDE DEF base, all
  <1>4. k \in 1 .. all /\ k - 1 = base + (i - 1)
    BY <1>1, <1>2 DEF base
  <1>5. ((k - 1) \div ByteBits) + 1 = d + 1 /\ ((k - 1) % ByteBits) + 1 = i
    <2>1. (k - 1) \div ByteBits = d /\ (k - 1) % ByteBits = i - 1
      BY ONLY <1>3, <1>4, Zenon
    <2>2. (i - 1) + 1 = i
      BY <1>1
    <2> QED BY <2>1, <2>2, Zenon
  <1> HIDE DEF k
  <1>6. Bits(pay)[k] = Bit(pay[d + 1], i)
    BY <1>4, <1>5 DEF Bits, all
  <1>7. Bit(pay[d + 1], i) \in Int
    <2>1. pay[d + 1] \in Nat
      BY <1>1
    <2>2. pay[d + 1] * ByteBits \in Nat
      BY <1>1, <2>1
    <2> QED BY <1>1, <2>2 DEF Bit
  <1> QED BY <1>4, <1>6, <1>7 DEF k, all

LEMMA HoldsMore ==
  ASSUME NEW cfg, NEW pay \in Seq(Nat), NEW d \in 0 .. Len(pay) - 1,
         NEW i \in 1 .. ByteBits,
         Holds(cfg, pay, (d * ByteBits) + (i - 1))
  PROVE  Holds(Append(cfg, Bit(pay[d + 1], i)), pay, (d * ByteBits) + i)
  <1> DEFINE b == Bit(pay[d + 1], i)
             m == (d * ByteBits) + (i - 1)
             more == Append(cfg, b)
  <1>1. m \in Nat /\ (d * ByteBits) + i = m + 1
    <2>1. ByteBits \in Nat /\ d \in Nat
      BY PortAssumption
    <2>2. d * ByteBits \in Nat
      BY <2>1
    <2> QED BY <2>1, <2>2
  <1>2. Bits(pay)[(d * ByteBits) + i] = b /\ b \in Int
    BY PlaceOfBit
  <1>3. Bits(pay)[m + 1] = b
    BY <1>1, <1>2
  <1>4. Holds(cfg, pay, m)
    OBVIOUS
  <1> HIDE DEF b, m
  <1>5. /\ more \in Seq(Int) /\ Len(more) = m + 1 /\ more[m + 1] = b
        /\ \A k \in 1 .. m : more[k] = cfg[k]
    <2>1. cfg \in Seq(Int) /\ Len(cfg) = m /\ b \in Int /\ m \in Nat
      BY <1>1, <1>2, <1>4 DEF Holds
    <2> QED BY ONLY <2>1
  <1> HIDE DEF more
  <1>6. \A k \in 1 .. m + 1 : more[k] = Bits(pay)[k]
    <2>1. \A k \in 1 .. m : cfg[k] = Bits(pay)[k]
      BY ONLY <1>4 DEF Holds
    <2>2. \A k \in 1 .. m : more[k] = Bits(pay)[k]
      BY ONLY <1>5, <2>1, Zenon
    <2>3. more[m + 1] = Bits(pay)[m + 1]
      BY ONLY <1>3, <1>5, Zenon
    <2>4. m \in Nat
      BY <1>1
    <2>5. \A k \in 1 .. m + 1 : k \in 1 .. m \/ k = m + 1
      BY ONLY <2>4
    <2> QED BY ONLY <2>2, <2>3, <2>5, Zenon
  <1>7. Holds(more, pay, m + 1)
    BY <1>5, <1>6 DEF Holds
  <1> QED BY <1>1, <1>7 DEF more, b

\* The bits of a byte, and the byte.
LEMMA ByteTicks ==
  ASSUME NEW b \in Nat, NEW last \in BOOLEAN
  PROVE  /\ WriterWrite(b, last) \in Seq(Pins)
         /\ Len(WriterWrite(b, last)) = ByteBits /\ ByteBits \in Nat \ {0}
         /\ \A i \in 1 .. ByteBits :
              LET s == WriterWrite(b, last)[i]
              IN /\ s \in Pins /\ s.tdi = Bit(b, i) /\ Bit(b, i) \in Int
                 /\ s.pins = (IF last /\ i = ByteBits THEN "tick" ELSE "payload")
                 /\ s.tms = 1
  <1>1. ByteBits \in Nat \ {0}
    BY PortAssumption
  <1>2. ASSUME NEW i \in 1 .. ByteBits PROVE Bit(b, i) \in Int
    <2>1. b * ByteBits \in Nat
      BY <1>1
    <2> QED BY <1>1, <2>1 DEF Bit
  <1>3. WriterWrite(b, last) =
          [i \in 1 .. ByteBits |-> PayloadTick(Bit(b, i), last /\ i = ByteBits)]
    BY Zenon DEF WriterWrite
  <1>4. ASSUME NEW i \in 1 .. ByteBits
        PROVE  /\ WriterWrite(b, last)[i] =
                    [pins |-> IF last /\ i = ByteBits THEN "tick" ELSE "payload",
                     tms |-> 1, tdi |-> Bit(b, i)]
               /\ WriterWrite(b, last)[i] \in Pins
    <2>1. WriterWrite(b, last)[i] =
            [pins |-> IF last /\ i = ByteBits THEN "tick" ELSE "payload",
             tms |-> 1, tdi |-> Bit(b, i)]
      BY Zenon, <1>3 DEF PayloadTick
    <2> QED BY <1>2, <2>1 DEF Pins
  <1>5. WriterWrite(b, last) \in Seq(Pins) /\ Len(WriterWrite(b, last)) = ByteBits
    <2>1. \A i \in 1 .. ByteBits :
            PayloadTick(Bit(b, i), last /\ i = ByteBits) \in Pins
      BY <1>3, <1>4
    <2> QED BY <1>1, <1>3, <2>1
  <1> QED BY <1>1, <1>2, <1>4, <1>5

\* Nobody who loads pay, from q on, runs out of room.
LEMMA Room ==
  ASSUME NEW pay \in Seq(Nat), Len(pay) <= MaxBytes,
         NEW d \in 0 .. Len(pay) - 1, NEW i \in 1 .. ByteBits
  PROVE  (d * ByteBits) + (i - 1) < MostBits
  <1>1. ByteBits \in Nat /\ MaxBytes \in Nat /\ Len(pay) \in Nat /\ d \in Nat
    BY PortAssumption
  <1>2. Len(pay) * ByteBits <= MaxBytes * ByteBits
    BY <1>1, Products
  <1>3. (d * ByteBits) + i \in 1 .. Len(pay) * ByteBits
    BY PlaceOfBit
  <1>4. d * ByteBits \in Nat /\ Len(pay) * ByteBits \in Nat
        /\ MaxBytes * ByteBits \in Nat
    BY <1>1
  <1> QED BY <1>2, <1>3, <1>4 DEF MostBits

\* q is where byte d of the payload begins, of a load that keeps its bits.
Keeps(q, p, pay, d) ==
  /\ Loading(q, p) /\ p.fpga.clear /\ Len(pay) <= MaxBytes
  /\ Holds(q.fpga.cfg, pay, d * ByteBits)

LEMMA WritesByte ==
  ASSUME NEW p, NEW q, Loading(q, p), NEW pay \in Seq(Nat),
         NEW d \in 0 .. Len(pay) - 1, NEW last \in BOOLEAN
  PROVE  LET r == Ran(Step, q, WriterWrite(pay[d + 1], last))
         IN /\ last => Reached(r, "exit1Dr", CFG_IN, p)
            /\ ~ last => Loading(r, p)
            /\ Keeps(q, p, pay, d) => Holds(r.fpga.cfg, pay, (d + 1) * ByteBits)
  <1> DEFINE b == pay[d + 1]
             s == WriterWrite(b, last)
             n == ByteBits
             kept == Keeps(q, p, pay, d)
  <1>1. /\ b \in Nat /\ d \in Nat /\ n \in Nat \ {0} /\ d * n \in Nat
        /\ (d + 1) * n = (d * n) + n
    BY PortAssumption
  <1>2. /\ s \in Seq(Pins) /\ Len(s) = n
        /\ \A i \in 1 .. n :
             /\ s[i] \in Pins /\ s[i].tdi = Bit(b, i) /\ Bit(b, i) \in Int
             /\ s[i].pins = (IF last /\ i = n THEN "tick" ELSE "payload")
             /\ s[i].tms = 1
    <2> HIDE DEF b
    <2> QED BY <1>1, ByteTicks
  <1> HIDE DEF s, n, kept
  <1>3. PICK f : Way(f, Step, q, s, n)
    <2>1. n \in Nat /\ Len(s) = n
      BY <1>1, <1>2
    <2> QED BY ONLY <2>1, RanSteps
  <1> DEFINE So(i) == kept => Holds(f[i].fpga.cfg, pay, (d * n) + i)
  <1>4. ASSUME NEW i \in 1 .. n, Loading(f[i - 1], p), So(i - 1)
        PROVE  /\ last /\ i = n => Reached(f[i], "exit1Dr", CFG_IN, p)
               /\ ~ (last /\ i = n) => Loading(f[i], p)
               /\ So(i)
    <2> DEFINE end == last /\ i = n
               u == f[i - 1]
               tick == s[i]
               bit == Bit(b, i)
    <2>1. f[i] = Applied(Step, u, tick)
      BY <1>3 DEF Way
    <2>2. /\ tick \in Pins /\ tick.tdi = bit /\ bit \in Int /\ end \in BOOLEAN
          /\ tick.pins = (IF end THEN "tick" ELSE "payload") /\ tick.tms = 1
      BY <1>2
    <2>3. Loading(u, p)
      BY <1>4
    <2> HIDE DEF end, u, tick, bit, b
    <2>4. LET r == Applied(Step, u, tick)
          IN /\ end => Reached(r, "exit1Dr", CFG_IN, p)
             /\ ~ end => Loading(r, p)
             /\ u.fpga.clear /\ Len(u.fpga.cfg) < MostBits =>
                  r.fpga.cfg = Append(u.fpga.cfg, bit)
      BY <2>2, <2>3, LoadsBit
    <2>5. ASSUME kept PROVE Holds(f[i].fpga.cfg, pay, (d * n) + i)
      <3>1. Holds(u.fpga.cfg, pay, (d * n) + (i - 1)) /\ Len(pay) <= MaxBytes
            /\ p.fpga.clear
        BY <1>4, <2>5 DEF u, kept, Keeps
      <3>2. (d * n) + (i - 1) < MostBits
        BY <3>1, Room DEF n
      <3>3. u.fpga.clear /\ Len(u.fpga.cfg) < MostBits
        BY <2>3, <3>1, <3>2 DEF Loading, Reached, Holds
      <3>4. Holds(Append(u.fpga.cfg, Bit(pay[d + 1], i)), pay, (d * n) + i)
        BY <3>1, HoldsMore DEF n
      <3> QED BY <2>1, <2>4, <3>3, <3>4 DEF bit, b
    <2> QED BY <2>1, <2>4, <2>5 DEF end
  <1>5. f[0] = q /\ Loading(f[0], p) /\ So(0)
    BY <1>1, <1>3 DEF Way, kept, Keeps, n
  <1> DEFINE Good == {i \in 0 .. n - 1 : Loading(f[i], p) /\ So(i)}
  <1>6. 0 \in Good /\ 0 \in Nat /\ n - 1 \in Nat
    BY <1>1, <1>5
  <1>7. ASSUME NEW k \in 0 .. (n - 1) - 1, k \in Good PROVE k + 1 \in Good
    <2>1. k + 1 \in 1 .. n /\ (k + 1) - 1 = k /\ k + 1 # n /\ k + 1 \in 0 .. n - 1
      BY <1>1
    <2>2. Loading(f[k], p) /\ So(k)
      BY <1>7
    <2>3. Loading(f[k + 1], p) /\ So(k + 1)
      <3> HIDE DEF So
      <3> QED BY <1>4, <2>1, <2>2
    <2> QED BY <2>1, <2>3
  <1> HIDE DEF Good
  <1>8. \A i \in 0 .. n - 1 : i \in Good
    BY <1>6, <1>7, Induction
  <1>9. Loading(f[n - 1], p) /\ So(n - 1) /\ n \in 1 .. n
    <2>1. n - 1 \in 0 .. n - 1 /\ n \in 1 .. n
      BY <1>1
    <2> QED BY <1>8, <2>1 DEF Good
  <1>10. /\ last => Reached(f[n], "exit1Dr", CFG_IN, p)
         /\ ~ last => Loading(f[n], p)
         /\ So(n)
    <2> HIDE DEF So
    <2> QED BY <1>4, <1>9
  <1>11. Ran(Step, q, s) = f[n]
    BY <1>3 DEF Way
  <1> QED BY <1>1, <1>10, <1>11 DEF s, n, kept

-----------------------------------------------------------------------------
(* What the functions do, as sequences of helpers.                         *)

LEMMA Helpers ==
  /\ TapReset \in Seq(Pins) /\ IdleClocks \in Seq(Pins)
  /\ \A instr \in 0 .. 63 : ShiftIr(instr) \in Seq(Pins)
  /\ ShiftDrRead \in Seq(Pins) /\ ShiftDrWrite \in Seq(Pins)
  /\ EnterShiftDr \in Seq(Pins) /\ LeaveShiftDr \in Seq(Pins)
  /\ Claim \in Seq(Pins) /\ Release \in Seq(Pins)
  <1>1. IdleClocks \in Seq(Pins)
    BY PortAssumption, TickIs DEF IdleClocks
  <1>2. Claim \in Seq(Pins) /\ Release \in Seq(Pins)
    BY DEF Claim, Release, Pins
  <1> QED BY <1>1, <1>2, TapResetSteps, ShiftIrIs, ReadsAre, WritesAre, TicksAre

LEMMA CallsIr ==
  ASSUME NEW p, NEW q, NEW ir, Reached(q, "idle", ir, p),
         ~ p.fpga.clear \/ ir # JSTART, NEW instr \in 0 .. 63, instr # JPROGRAM
  PROVE  Moved(Applied(Call, q, ShiftIr(instr)), q, "idle", instr, p)
  <1>1. q \in Ports
    BY DEF Reached
  <1>2. Applied(Call, q, ShiftIr(instr)) = Ran(Step, q, ShiftIr(instr))
    BY <1>1, Helpers, CallIs
  <1>3. Moved(Ran(Step, q, ShiftIr(instr)), q, "idle", instr, p)
    BY ShiftsIr
  <1> QED BY <1>2, <1>3

LEMMA CallsJprogram ==
  ASSUME NEW p, NEW q, NEW ir, Reached(q, "idle", ir, p),
         ~ p.fpga.clear \/ ir # JSTART
  PROVE  Cleared(Applied(Call, q, ShiftIr(JPROGRAM)))
  <1>1. q \in Ports /\ JPROGRAM \in 0 .. 63
    BY Instructions DEF Reached
  <1>2. Applied(Call, q, ShiftIr(JPROGRAM)) = Ran(Step, q, ShiftIr(JPROGRAM))
    BY <1>1, Helpers, CallIs
  <1>3. \A instr \in 0 .. 63 :
          instr = JPROGRAM => Cleared(Ran(Step, q, ShiftIr(instr)))
    BY ShiftsIr
  <1> QED BY <1>1, <1>2, <1>3

LEMMA CallsIdle ==
  ASSUME NEW p, NEW q, NEW ir, Reached(q, "idle", ir, p), q.tms = 0,
         ~ p.fpga.clear \/ ir # JSTART
  PROVE  Moved(Applied(Call, q, IdleClocks), q, "idle", ir, p)
  <1>1. q \in Ports
    BY DEF Reached
  <1>2. Applied(Call, q, IdleClocks) = Ran(Step, q, IdleClocks)
    BY <1>1, Helpers, CallIs
  <1>3. Moved(Ran(Step, q, IdleClocks), q, "idle", ir, p)
    BY Idles
  <1> QED BY <1>2, <1>3

LEMMA CallsStart ==
  ASSUME NEW q, Reached(q, "idle", JSTART, q), q.fpga.clear
  PROVE  LET r == Applied(Call, q, IdleClocks)
         IN /\ Reached(r, "idle", JSTART, r) /\ r.tms = 0 /\ ~ r.fpga.clear
            /\ r.fpga.design = q.fpga.cfg
  <1>1. q \in Ports
    BY DEF Reached
  <1>2. Applied(Call, q, IdleClocks) = Ran(Step, q, IdleClocks)
    BY <1>1, Helpers, CallIs
  <1> DEFINE r == Ran(Step, q, IdleClocks)
  <1>3. /\ Reached(r, "idle", JSTART, r) /\ r.tms = 0 /\ ~ r.fpga.clear
        /\ r.fpga.design = q.fpga.cfg
    BY IdleStarts
  <1> QED BY <1>2, <1>3

\* In Run-Test/Idle with TMS low; what was loaded so far may have changed.
Idle(r, ir, p) == Reached(r, "idle", ir, p) /\ r.tms = 0

LEMMA CallsRead ==
  ASSUME NEW p, NEW q, NEW ir, Reached(q, "idle", ir, p),
         ~ p.fpga.clear \/ ir # JSTART
  PROVE  /\ Idle(Applied(Call, q, ShiftDrRead), ir, p)
         /\ Idle(Applied(Call, q, ShiftDrWrite), ir, p)
  <1>1. q \in Ports
    BY DEF Reached
  <1>2. /\ Applied(Call, q, ShiftDrRead) = Ran(Step, q, ShiftDrRead)
        /\ Applied(Call, q, ShiftDrWrite) = Ran(Step, q, ShiftDrWrite)
    BY <1>1, Helpers, CallIs
  <1>3. Reached(Ran(Step, q, ShiftDrRead), "idle", ir, p)
        /\ Ran(Step, q, ShiftDrRead).tms = 0
    BY Reads
  <1>4. Reached(Ran(Step, q, ShiftDrWrite), "idle", ir, p)
        /\ Ran(Step, q, ShiftDrWrite).tms = 0
    BY Writes
  <1> QED BY <1>2, <1>3, <1>4 DEF Idle

LEMMA CallsReset ==
  ASSUME NEW p, Ready(p), p.hijack
  PROVE  Idle(Applied(Call, p, TapReset), IDCODE, p)
  <1>1. p \in Ports /\ Ready(p)
    BY DEF Ready
  <1>2. Applied(Call, p, TapReset) = Ran(Step, p, TapReset)
    BY <1>1, Helpers, CallIs
  <1>3. Reached(Ran(Step, p, TapReset), "idle", IDCODE, p)
        /\ Ran(Step, p, TapReset).tms = 0
    BY <1>1, Resets
  <1> QED BY <1>2, <1>3 DEF Idle

\* The same from wherever the TAP is.
LEMMA CallsResetAnyway ==
  ASSUME NEW p \in Ports, p.hijack
  PROVE  LET r == Applied(Call, p, TapReset)
         IN /\ r \in Ports /\ r.hijack
            /\ r.fpga.tap = "idle" /\ r.fpga.ir = IDCODE
  <1>1. Applied(Call, p, TapReset) = Ran(Step, p, TapReset)
    BY Helpers, CallIs
  <1> DEFINE r == Ran(Step, p, TapReset)
  <1>2. /\ r \in Ports /\ r.hijack
        /\ r.fpga.tap = "idle" /\ r.fpga.ir = IDCODE
    BY Resets
  <1> QED BY <1>1, <1>2

LEMMA CallsEnter ==
  ASSUME NEW p, NEW q, NEW ir, Reached(q, "idle", ir, p),
         ~ p.fpga.clear \/ ir # JSTART
  PROVE  Moved(Applied(Call, q, EnterShiftDr), q, "shiftDr", ir, p)
  <1>1. q \in Ports
    BY DEF Reached
  <1>2. Applied(Call, q, EnterShiftDr) = Ran(Step, q, EnterShiftDr)
    BY <1>1, Helpers, CallIs
  <1>3. Moved(Ran(Step, q, EnterShiftDr), q, "shiftDr", ir, p)
    BY Enters
  <1> QED BY <1>2, <1>3

LEMMA CallsLeave ==
  ASSUME NEW p, NEW q, NEW ir, Reached(q, "exit1Dr", ir, p)
  PROVE  Moved(Applied(Call, q, LeaveShiftDr), q, "idle", ir, p)
  <1>1. q \in Ports
    BY DEF Reached
  <1>2. Applied(Call, q, LeaveShiftDr) = Ran(Step, q, LeaveShiftDr)
    BY <1>1, Helpers, CallIs
  <1>3. Moved(Ran(Step, q, LeaveShiftDr), q, "idle", ir, p)
    BY Leaves
  <1> QED BY <1>2, <1>3

\* The switch in its two positions; the FPGA sees neither.
LEMMA CallsClaim ==
  ASSUME NEW q \in Ports
  PROVE  LET r == Applied(Call, q, Claim)
         IN r \in Ports /\ r.hijack /\ r.tms = 1 /\ r.fpga = q.fpga
  <1> DEFINE s == [pins |-> "claim", tms |-> 1, tdi |-> 0]
  <1>1. s \in Pins /\ s.pins = "claim" /\ s.tms = 1
    BY DEF Pins
  <1> HIDE DEF s
  <1>2. Applied(Step, q, s) \in Ports /\ Applied(Step, q, s).hijack
        /\ Applied(Step, q, s).tms = 1 /\ Applied(Step, q, s).fpga = q.fpga
    BY <1>1, StepIs
  <1>3. Applied(Call, q, Claim) = Ran(Step, q, <<s>>)
    BY Helpers, CallIs DEF Claim, s
  <1>4. Ran(Step, q, <<s>>) = Applied(Step, q, s)
    BY RanOne
  <1> QED BY <1>2, <1>3, <1>4

LEMMA CallsRelease ==
  ASSUME NEW q \in Ports
  PROVE  LET r == Applied(Call, q, Release)
         IN r \in Ports /\ ~ r.hijack /\ r.fpga = q.fpga
  <1> DEFINE s == [pins |-> "release", tms |-> 0, tdi |-> 0]
  <1>1. s \in Pins /\ s.pins = "release"
    BY DEF Pins
  <1> HIDE DEF s
  <1>2. Applied(Step, q, s) \in Ports /\ ~ Applied(Step, q, s).hijack
        /\ Applied(Step, q, s).fpga = q.fpga
    BY <1>1, StepIs
  <1>3. Applied(Call, q, Release) = Ran(Step, q, <<s>>)
    BY Helpers, CallIs DEF Release, s
  <1>4. Ran(Step, q, <<s>>) = Applied(Step, q, s)
    BY RanOne
  <1> QED BY <1>2, <1>3, <1>4

Calls == Seq(Seq(Pins))

LEMMA ReadsIdcode ==
  ASSUME NEW p, Ready(p), p.hijack
  PROVE  Idle(Ran(Call, p, ReadIdcode), IDCODE, p)
  <1> DEFINE a == Applied(Call, p, TapReset)
             b == Applied(Call, a, ShiftIr(IDCODE))
             c == Applied(Call, b, ShiftDrRead)
  <1>1. Ran(Call, p, ReadIdcode) = c
    BY RanThree DEF ReadIdcode
  <1>2. Idle(a, IDCODE, p)
    BY CallsReset
  <1> HIDE DEF a
  <1>3. Moved(b, a, "idle", IDCODE, p)
    BY <1>2, Instructions, CallsIr DEF Idle
  <1> HIDE DEF b
  <1>4. Idle(c, IDCODE, p)
    BY <1>3, Instructions, CallsRead DEF Moved
  <1> QED BY <1>1, <1>4

\* The instructions that neither clear nor start the FPGA, and what they need.
Plain == {IDCODE, CFG_IN, CFG_OUT, ISC_NOOP, BYPASS}

LEMMA PlainIr ==
  \A p, q, ir : \A instr \in Plain :
    Idle(q, ir, p) /\ (~ p.fpga.clear \/ ir # JSTART) =>
      /\ Idle(Applied(Call, q, ShiftIr(instr)), instr, p)
      /\ Applied(Call, q, ShiftIr(instr)).fpga.cfg = q.fpga.cfg
  <1> SUFFICES ASSUME NEW p, NEW q, NEW ir, NEW instr \in Plain, Idle(q, ir, p),
                      ~ p.fpga.clear \/ ir # JSTART
               PROVE  /\ Idle(Applied(Call, q, ShiftIr(instr)), instr, p)
                      /\ Applied(Call, q, ShiftIr(instr)).fpga.cfg = q.fpga.cfg
    OBVIOUS
  <1>1. instr \in 0 .. 63 /\ instr # JPROGRAM
    BY Instructions DEF Plain
  <1>2. Reached(q, "idle", ir, p)
    BY DEF Idle
  <1>3. Moved(Applied(Call, q, ShiftIr(instr)), q, "idle", instr, p)
    BY <1>1, <1>2, CallsIr
  <1> QED BY <1>3 DEF Moved, Idle

LEMMA PlainIdle ==
  \A p, q, ir :
    Idle(q, ir, p) /\ (~ p.fpga.clear \/ ir # JSTART) =>
      /\ Idle(Applied(Call, q, IdleClocks), ir, p)
      /\ Applied(Call, q, IdleClocks).fpga.cfg = q.fpga.cfg
  BY CallsIdle DEF Moved, Idle

LEMMA PlainRead ==
  \A p, q, ir :
    Idle(q, ir, p) /\ (~ p.fpga.clear \/ ir # JSTART) =>
      /\ Idle(Applied(Call, q, ShiftDrRead), ir, p)
      /\ Idle(Applied(Call, q, ShiftDrWrite), ir, p)
  BY CallsRead DEF Idle

LEMMA PlainAre ==
  /\ IDCODE \in Plain /\ CFG_IN \in Plain /\ CFG_OUT \in Plain
  /\ ISC_NOOP \in Plain /\ BYPASS \in Plain
  /\ JSTART \notin Plain
  BY Instructions DEF Plain

LEMMA ReadsConfigReg ==
  ASSUME NEW p, NEW q, NEW ir, Idle(q, ir, p), ir # JSTART
  PROVE  Idle(Ran(Call, q, ReadConfigReg), BYPASS, p)
  <1>1. PICK f : Way(f, Call, q, ReadConfigReg, 8)
    <2>1. 8 \in Nat /\ Len(ReadConfigReg) = 8
      BY DEF ReadConfigReg
    <2> QED BY ONLY <2>1, RanSteps
  <1>2. /\ f[1] = Applied(Call, q, ShiftIr(CFG_IN))
        /\ f[2] = Applied(Call, f[1], ShiftDrWrite)
        /\ f[3] = Applied(Call, f[2], IdleClocks)
        /\ f[4] = Applied(Call, f[3], ShiftIr(CFG_OUT))
        /\ f[5] = Applied(Call, f[4], ShiftDrRead)
        /\ f[6] = Applied(Call, f[5], IdleClocks)
        /\ f[7] = Applied(Call, f[6], ShiftIr(BYPASS))
        /\ f[8] = Applied(Call, f[7], IdleClocks)
    BY <1>1 DEF Way, ReadConfigReg
  <1>3. Idle(f[1], CFG_IN, p)
    BY <1>2, PlainAre, PlainIr
  <1>4. Idle(f[2], CFG_IN, p)
    BY <1>2, <1>3, PlainAre, PlainRead
  <1>5. Idle(f[3], CFG_IN, p)
    BY <1>2, <1>4, PlainAre, PlainIdle
  <1>6. Idle(f[4], CFG_OUT, p)
    BY <1>2, <1>5, PlainAre, PlainIr
  <1>7. Idle(f[5], CFG_OUT, p)
    BY <1>2, <1>6, PlainAre, PlainRead
  <1>8. Idle(f[6], CFG_OUT, p)
    BY <1>2, <1>7, PlainAre, PlainIdle
  <1>9. Idle(f[7], BYPASS, p)
    BY <1>2, <1>8, PlainAre, PlainIr
  <1>10. Idle(f[8], BYPASS, p)
    BY <1>2, <1>9, PlainAre, PlainIdle
  <1>11. Ran(Call, q, ReadConfigReg) = f[8]
    BY <1>1 DEF Way
  <1> QED BY <1>10, <1>11

LEMMA Functions ==
  /\ ReadIdcode \in Calls /\ ReadConfigReg \in Calls /\ ReadStatus \in Calls
  /\ CloseOut \in Calls /\ WriterBegin \in Calls /\ WriterFinish \in Calls
  /\ WriterAbort \in Calls /\ Refused \in Calls
  /\ <<Claim>> \in Calls /\ <<Release>> \in Calls
  <1>1. /\ TapReset \in Seq(Pins) /\ IdleClocks \in Seq(Pins)
        /\ ShiftIr(IDCODE) \in Seq(Pins) /\ ShiftIr(CFG_IN) \in Seq(Pins)
        /\ ShiftIr(CFG_OUT) \in Seq(Pins) /\ ShiftIr(BYPASS) \in Seq(Pins)
        /\ ShiftIr(JSTART) \in Seq(Pins) /\ ShiftIr(ISC_NOOP) \in Seq(Pins)
        /\ ShiftIr(JPROGRAM) \in Seq(Pins)
        /\ ShiftDrRead \in Seq(Pins) /\ ShiftDrWrite \in Seq(Pins)
        /\ EnterShiftDr \in Seq(Pins) /\ LeaveShiftDr \in Seq(Pins)
        /\ Claim \in Seq(Pins) /\ Release \in Seq(Pins)
    BY Helpers, Instructions
  <1>2. ReadIdcode \in Calls /\ ReadConfigReg \in Calls
    BY <1>1 DEF ReadIdcode, ReadConfigReg, Calls
  <1>3. ReadStatus \in Calls
    <2>1. <<ShiftIr(BYPASS), ShiftDrRead, TapReset>> \in Calls
      BY <1>1 DEF Calls
    <2> QED BY <1>2, <2>1 DEF ReadStatus, Calls
  <1>4. CloseOut \in Calls
    <2>1. <<LeaveShiftDr, ShiftIr(JSTART), IdleClocks,
            ShiftIr(ISC_NOOP), IdleClocks, ShiftIr(BYPASS), IdleClocks,
            TapReset, IdleClocks>> \in Calls
      BY <1>1 DEF Calls
    <2> QED BY <1>3, <2>1 DEF CloseOut, Calls
  <1>5. WriterBegin \in Calls
    <2>1. /\ <<Claim>> \in Calls
          /\ <<ShiftIr(JPROGRAM), IdleClocks, ShiftIr(ISC_NOOP), IdleClocks,
               ShiftIr(CFG_IN), EnterShiftDr>> \in Calls
      BY <1>1 DEF Calls
    <2> QED BY <1>2, <2>1 DEF WriterBegin, Calls
  <1>6. <<Claim>> \in Calls /\ <<Release>> \in Calls
    BY <1>1 DEF Calls
  <1>7. WriterFinish \in Calls
    BY <1>4, <1>6 DEF WriterFinish, Calls
  <1>8. WriterAbort \in Calls
    BY <1>1 DEF WriterAbort, Calls
  <1>9. Refused \in Calls
    BY <1>2, <1>6 DEF Refused, Look, Calls
  <1> QED BY <1>2, <1>3, <1>4, <1>5, <1>6, <1>7, <1>8, <1>9

\* Two functions after each other, and three and four.
LEMMA CallsTwo ==
  \A s, t \in Calls :
    /\ Joined(s, t) \in Calls
    /\ \A q : Ran(Call, q, Joined(s, t)) = Ran(Call, Ran(Call, q, s), t)
  BY CallsJoined, JoinedReads DEF Joins, Calls

LEMMA CallsThree ==
  ASSUME NEW s \in Calls, NEW t \in Calls, NEW u \in Calls
  PROVE  /\ s \o t \o u \in Calls
         /\ \A q : Ran(Call, q, s \o t \o u) =
                     Ran(Call, Ran(Call, Ran(Call, q, s), t), u)
  <1> DEFINE a == Joined(s, t)
  <1>1. a \in Calls /\ \A q : Ran(Call, q, a) = Ran(Call, Ran(Call, q, s), t)
    BY CallsTwo
  <1>2. s \o t \o u = Joined(a, u)
    BY DEF Joined
  <1> HIDE DEF a
  <1>3. Joined(a, u) \in Calls
        /\ \A q : Ran(Call, q, Joined(a, u)) = Ran(Call, Ran(Call, q, a), u)
    BY <1>1, CallsTwo
  <1> QED BY <1>1, <1>2, <1>3

LEMMA CallsFour ==
  ASSUME NEW s \in Calls, NEW t \in Calls, NEW u \in Calls, NEW v \in Calls
  PROVE  \A q : Ran(Call, q, s \o t \o u \o v) =
                  Ran(Call, Ran(Call, Ran(Call, Ran(Call, q, s), t), u), v)
  <1> DEFINE a == s \o t \o u
  <1>1. a \in Calls
        /\ \A q : Ran(Call, q, a) =
                    Ran(Call, Ran(Call, Ran(Call, q, s), t), u)
    BY CallsThree
  <1>2. s \o t \o u \o v = Joined(a, v)
    BY DEF Joined
  <1> HIDE DEF a
  <1>3. \A q : Ran(Call, q, Joined(a, v)) = Ran(Call, Ran(Call, q, a), v)
    BY <1>1, CallsTwo
  <1> QED BY <1>1, <1>2, <1>3

LEMMA ReadsStatus ==
  ASSUME NEW p, Ready(p), p.hijack
  PROVE  Idle(Ran(Call, p, ReadStatus), IDCODE, p)
  <1> DEFINE end == <<ShiftIr(BYPASS), ShiftDrRead, TapReset>>
             a == Ran(Call, p, ReadIdcode)
             b == Ran(Call, a, ReadConfigReg)
             c == Ran(Call, b, ReadConfigReg)
             d == Applied(Call, c, ShiftIr(BYPASS))
             e == Applied(Call, d, ShiftDrRead)
             g == Applied(Call, e, TapReset)
  <1>1. Ran(Call, p, ReadStatus) = Ran(Call, c, end)
    <2>1. end \in Calls
      <3>1. ShiftIr(BYPASS) \in Seq(Pins) /\ ShiftDrRead \in Seq(Pins)
            /\ TapReset \in Seq(Pins)
        BY Helpers, Instructions
      <3> QED BY <3>1 DEF Calls
    <2>2. ReadStatus = ReadIdcode \o ReadConfigReg \o ReadConfigReg \o end
      BY DEF ReadStatus
    <2> HIDE DEF end
    <2>3. ReadIdcode \in Calls /\ ReadConfigReg \in Calls
      BY Functions
    <2> QED BY <2>1, <2>2, <2>3, CallsFour
  <1>2. Ran(Call, c, end) = g
    BY RanThree
  <1> HIDE DEF end
  <1>3. Idle(a, IDCODE, p)
    BY ReadsIdcode
  <1> HIDE DEF a
  <1>4. Idle(b, BYPASS, p)
    BY <1>3, Instructions, ReadsConfigReg
  <1> HIDE DEF b
  <1>5. Idle(c, BYPASS, p)
    BY <1>4, Instructions, ReadsConfigReg
  <1> HIDE DEF c
  <1>6. Idle(d, BYPASS, p)
    BY <1>5, PlainAre, PlainIr
  <1> HIDE DEF d
  <1>7. Idle(e, BYPASS, p)
    BY <1>6, PlainAre, PlainRead
  <1> HIDE DEF e
  <1>8. Idle(g, IDCODE, p)
    <2>1. Ready(e) /\ e.hijack /\ e.fpga.clear = p.fpga.clear
          /\ e.fpga.design = p.fpga.design
      BY <1>7, Instructions DEF Idle, Reached, Ready
    <2>2. Idle(g, IDCODE, e)
      BY <2>1, CallsReset
    <2> HIDE DEF g
    <2> QED BY <2>1, <2>2 DEF Idle, Reached
  <1> QED BY <1>1, <1>2, <1>8

\* The switch is given back, the TAP rests, and the FPGA is configured like
\* that of p.
Rested(r, p) ==
  /\ r \in Ports /\ ~ r.hijack
  /\ r.fpga.tap = "idle" /\ r.fpga.ir = IDCODE
  /\ r.fpga.clear = p.fpga.clear /\ r.fpga.design = p.fpga.design

LEMMA RestedIsReady ==
  \A r, p : Rested(r, p) => Ready(r)
  BY Instructions DEF Rested, Ready

LEMMA Claiming ==
  ASSUME NEW q, Ready(q)
  PROVE  LET r == Ran(Call, q, <<Claim>>)
         IN Ready(r) /\ r.hijack /\ r.fpga = q.fpga
  <1>1. Ran(Call, q, <<Claim>>) = Applied(Call, q, Claim)
    BY RanOne
  <1>2. q \in Ports
    BY DEF Ready
  <1> DEFINE r == Applied(Call, q, Claim)
  <1>3. r \in Ports /\ r.hijack /\ r.fpga = q.fpga
    BY <1>2, CallsClaim
  <1> QED BY <1>1, <1>3 DEF Ready

LEMMA Releasing ==
  ASSUME NEW p, NEW q, Idle(q, IDCODE, p)
  PROVE  Rested(Applied(Call, q, Release), p)
  <1>1. q \in Ports
    BY DEF Idle, Reached
  <1> DEFINE r == Applied(Call, q, Release)
  <1>2. r \in Ports /\ ~ r.hijack /\ r.fpga = q.fpga
    BY <1>1, CallsRelease
  <1> HIDE DEF r
  <1> QED BY <1>2 DEF Idle, Reached, Rested, r

LEMMA Looks ==
  ASSUME NEW q, Ready(q), NEW reads \in {ReadIdcode, ReadStatus}
  PROVE  Rested(Ran(Call, q, Look(reads)), q) /\ Look(reads) \in Calls
  <1> DEFINE a == Ran(Call, q, <<Claim>>)
             b == Ran(Call, a, reads)
             c == Applied(Call, b, Release)
  <1>1. /\ Ran(Call, q, Look(reads)) = Ran(Call, b, <<Release>>)
        /\ Look(reads) \in Calls
    <2>1. <<Claim>> \in Calls /\ <<Release>> \in Calls /\ reads \in Calls
      BY Functions
    <2>2. Look(reads) = <<Claim>> \o reads \o <<Release>>
      BY DEF Look
    <2> QED BY <2>1, <2>2, CallsThree
  <1>2. Ran(Call, b, <<Release>>) = c
    BY RanOne
  <1>3. Ready(a) /\ a.hijack /\ a.fpga = q.fpga
    BY Claiming
  <1> HIDE DEF a
  <1>4. Idle(b, IDCODE, a)
    BY <1>3, ReadsIdcode, ReadsStatus
  <1> HIDE DEF b
  <1>5. Rested(c, a)
    BY <1>4, Releasing
  <1> HIDE DEF c
  <1>6. Rested(c, q)
    BY <1>3, <1>5 DEF Rested
  <1> QED BY <1>1, <1>2, <1>6

\* The writer begins: the FPGA is cleared and takes the payload from here on.
LEMMA Begins ==
  ASSUME NEW q, Ready(q)
  PROVE  LET r == Ran(Call, q, WriterBegin)
         IN /\ Loading(r, r) /\ r.fpga.clear /\ r.fpga.design = None
            /\ r.fpga.cfg = <<>>
  <1> DEFINE end == <<ShiftIr(JPROGRAM), IdleClocks, ShiftIr(ISC_NOOP),
                      IdleClocks, ShiftIr(CFG_IN), EnterShiftDr>>
             a == Ran(Call, q, <<Claim>>)
             b == Ran(Call, a, ReadIdcode)
             c == Applied(Call, b, ShiftIr(JPROGRAM))
             d == Applied(Call, c, IdleClocks)
             e == Applied(Call, d, ShiftIr(ISC_NOOP))
             g == Applied(Call, e, IdleClocks)
             h == Applied(Call, g, ShiftIr(CFG_IN))
             k == Applied(Call, h, EnterShiftDr)
  <1>1. Ran(Call, q, WriterBegin) = Ran(Call, b, end)
    <2>1. end \in Calls
      <3>1. /\ ShiftIr(JPROGRAM) \in Seq(Pins) /\ IdleClocks \in Seq(Pins)
            /\ ShiftIr(ISC_NOOP) \in Seq(Pins) /\ ShiftIr(CFG_IN) \in Seq(Pins)
            /\ EnterShiftDr \in Seq(Pins)
        BY Helpers, Instructions
      <3> QED BY <3>1 DEF Calls
    <2>2. WriterBegin = <<Claim>> \o ReadIdcode \o end
      BY DEF WriterBegin
    <2> HIDE DEF end
    <2>3. <<Claim>> \in Calls /\ ReadIdcode \in Calls
      BY Functions
    <2> QED BY <2>1, <2>2, <2>3, CallsThree
  <1>2. Ran(Call, b, end) = k
    BY RanSix
  <1> HIDE DEF end
  <1>3. Ready(a) /\ a.hijack
    BY Claiming
  <1> HIDE DEF a
  <1>4. Idle(b, IDCODE, a)
    BY <1>3, ReadsIdcode
  <1> HIDE DEF b
  <1>5. Cleared(c)
    BY <1>4, Instructions, CallsJprogram DEF Idle
  <1> HIDE DEF c
  <1>6. Idle(c, JPROGRAM, c) /\ JPROGRAM # JSTART
        /\ c.fpga.clear /\ c.fpga.design = None /\ c.fpga.cfg = <<>>
    BY <1>5, Instructions DEF Cleared, Idle
  <1>7. Idle(d, JPROGRAM, c) /\ d.fpga.cfg = <<>>
    BY <1>6, PlainIdle
  <1> HIDE DEF d
  <1>8. Idle(e, ISC_NOOP, c) /\ e.fpga.cfg = <<>>
    BY <1>6, <1>7, PlainAre, PlainIr
  <1> HIDE DEF e
  <1>9. Idle(g, ISC_NOOP, c) /\ g.fpga.cfg = <<>>
    <2>1. ISC_NOOP # JSTART
      BY PlainAre
    <2> QED BY <1>8, <2>1, PlainIdle
  <1> HIDE DEF g
  <1>10. Idle(h, CFG_IN, c) /\ h.fpga.cfg = <<>>
    <2>1. ISC_NOOP # JSTART /\ CFG_IN \in Plain
      BY PlainAre
    <2> QED BY <1>9, <2>1, PlainIr
  <1> HIDE DEF h
  <1>11. Moved(k, h, "shiftDr", CFG_IN, c)
    <2>1. Reached(h, "idle", CFG_IN, c) /\ CFG_IN # JSTART
      BY <1>10, PlainAre DEF Idle
    <2> QED BY <2>1, CallsEnter
  <1> HIDE DEF k
  <1>12. Loading(k, k) /\ k.fpga.clear /\ k.fpga.design = None
         /\ k.fpga.cfg = <<>>
    BY <1>6, <1>10, <1>11 DEF Moved, Loading, Reached
  <1> QED BY <1>1, <1>2, <1>12

\* The close-out of a load: the FPGA starts with what was loaded.
LEMMA ClosesOut ==
  ASSUME NEW q, Reached(q, "exit1Dr", CFG_IN, q), q.fpga.clear
  PROVE  LET r == Ran(Call, q, CloseOut)
         IN /\ Idle(r, IDCODE, r) /\ ~ r.fpga.clear
            /\ r.fpga.design = q.fpga.cfg
  <1> DEFINE begin == <<LeaveShiftDr, ShiftIr(JSTART), IdleClocks,
                        ShiftIr(ISC_NOOP), IdleClocks, ShiftIr(BYPASS),
                        IdleClocks, TapReset, IdleClocks>>
  <1>1. begin \in Calls /\ Len(begin) = 9
        /\ Ran(Call, q, CloseOut) = Ran(Call, Ran(Call, q, begin), ReadStatus)
    <2>1. begin \in Calls
      <3>1. /\ ShiftIr(JSTART) \in Seq(Pins) /\ IdleClocks \in Seq(Pins)
            /\ ShiftIr(ISC_NOOP) \in Seq(Pins) /\ ShiftIr(BYPASS) \in Seq(Pins)
            /\ LeaveShiftDr \in Seq(Pins) /\ TapReset \in Seq(Pins)
        BY Helpers, Instructions
      <3> QED BY <3>1 DEF Calls
    <2>2. Len(begin) = 9
      OBVIOUS
    <2>3. CloseOut = Joined(begin, ReadStatus)
      BY DEF CloseOut, Joined
    <2> HIDE DEF begin
    <2>4. ReadStatus \in Calls
      BY Functions
    <2> QED BY <2>1, <2>2, <2>3, <2>4, CallsTwo
  <1>2. /\ begin[1] = LeaveShiftDr /\ begin[2] = ShiftIr(JSTART)
        /\ begin[3] = IdleClocks /\ begin[4] = ShiftIr(ISC_NOOP)
        /\ begin[5] = IdleClocks /\ begin[6] = ShiftIr(BYPASS)
        /\ begin[7] = IdleClocks /\ begin[8] = TapReset
        /\ begin[9] = IdleClocks
    OBVIOUS
  <1> HIDE DEF begin
  <1>3. PICK f : Way(f, Call, q, begin, 9)
    <2>1. 9 \in Nat /\ Len(begin) = 9
      BY <1>1
    <2> QED BY ONLY <2>1, RanSteps
  <1>4. /\ f[1] = Applied(Call, q, LeaveShiftDr)
        /\ f[2] = Applied(Call, f[1], ShiftIr(JSTART))
        /\ f[3] = Applied(Call, f[2], IdleClocks)
        /\ f[4] = Applied(Call, f[3], ShiftIr(ISC_NOOP))
        /\ f[5] = Applied(Call, f[4], IdleClocks)
        /\ f[6] = Applied(Call, f[5], ShiftIr(BYPASS))
        /\ f[7] = Applied(Call, f[6], IdleClocks)
        /\ f[8] = Applied(Call, f[7], TapReset)
        /\ f[9] = Applied(Call, f[8], IdleClocks)
    BY <1>2, <1>3 DEF Way
  <1>5. Moved(f[1], q, "idle", CFG_IN, q)
    BY <1>4, CallsLeave
  <1>6. Moved(f[2], f[1], "idle", JSTART, q)
    <2>1. Reached(f[1], "idle", CFG_IN, q) /\ CFG_IN # JSTART
      BY <1>5, PlainAre DEF Moved
    <2>2. JSTART \in 0 .. 63 /\ JSTART # JPROGRAM
      BY Instructions
    <2>3. Moved(Applied(Call, f[1], ShiftIr(JSTART)), f[1], "idle", JSTART, q)
      BY <2>1, <2>2, CallsIr
    <2> QED BY <1>4, <2>3
  <1>7. Reached(f[2], "idle", JSTART, f[2]) /\ f[2].fpga.clear
        /\ f[2].fpga.cfg = q.fpga.cfg
    BY <1>5, <1>6 DEF Moved, Reached
  <1>8. Idle(f[3], JSTART, f[3]) /\ ~ f[3].fpga.clear
        /\ f[3].fpga.design = q.fpga.cfg
    BY <1>4, <1>7, CallsStart DEF Idle
  <1>9. Idle(f[4], ISC_NOOP, f[3])
    <2>1. ISC_NOOP \in Plain
      BY PlainAre
    <2> QED BY <1>4, <1>8, <2>1, PlainIr
  <1>10. Idle(f[5], ISC_NOOP, f[3])
    BY <1>4, <1>8, <1>9, PlainIdle
  <1>11. Idle(f[6], BYPASS, f[3])
    <2>1. BYPASS \in Plain
      BY PlainAre
    <2> QED BY <1>4, <1>8, <1>10, <2>1, PlainIr
  <1>12. Idle(f[7], BYPASS, f[3])
    BY <1>4, <1>8, <1>11, PlainIdle
  <1>13. Idle(f[8], IDCODE, f[3])
    <2>1. Ready(f[7]) /\ f[7].hijack /\ f[7].fpga.clear = f[3].fpga.clear
          /\ f[7].fpga.design = f[3].fpga.design
      BY <1>12, Instructions DEF Idle, Reached, Ready
    <2>2. Idle(f[8], IDCODE, f[7])
      BY <1>4, <2>1, CallsReset
    <2> QED BY <2>1, <2>2 DEF Idle, Reached
  <1>14. Idle(f[9], IDCODE, f[3])
    BY <1>4, <1>8, <1>13, PlainIdle
  <1> DEFINE t == f[9]
             r == Ran(Call, t, ReadStatus)
  <1>15. Ready(t) /\ t.hijack /\ ~ t.fpga.clear /\ t.fpga.design = q.fpga.cfg
    BY <1>8, <1>14, Instructions DEF Idle, Reached, Ready
  <1>16. Ran(Call, q, CloseOut) = r
    BY <1>1, <1>3 DEF Way
  <1> HIDE DEF t
  <1>17. Idle(r, IDCODE, t)
    BY <1>15, ReadsStatus
  <1> HIDE DEF r
  <1>18. Idle(r, IDCODE, r) /\ ~ r.fpga.clear /\ r.fpga.design = q.fpga.cfg
    BY <1>15, <1>17 DEF Idle, Reached
  <1> QED BY <1>16, <1>18

LEMMA Finishes ==
  ASSUME NEW q, Reached(q, "exit1Dr", CFG_IN, q), q.fpga.clear
  PROVE  LET r == Ran(Call, q, WriterFinish)
         IN Rested(r, r) /\ r.fpga.design = q.fpga.cfg
  <1> DEFINE a == Ran(Call, q, CloseOut)
             r == Applied(Call, a, Release)
  <1>1. Ran(Call, q, WriterFinish) = r
    <2>1. WriterFinish = Joined(CloseOut, <<Release>>)
      BY DEF WriterFinish, Joined
    <2>2. CloseOut \in Calls /\ <<Release>> \in Calls
      BY Functions
    <2>3. Ran(Call, q, WriterFinish) = Ran(Call, a, <<Release>>)
      BY <2>1, <2>2, CallsTwo
    <2>4. Ran(Call, a, <<Release>>) = r
      BY RanOne
    <2> QED BY <2>3, <2>4
  <1>2. Idle(a, IDCODE, a) /\ a.fpga.design = q.fpga.cfg
    BY ClosesOut
  <1> HIDE DEF a
  <1>3. Rested(r, a)
    BY <1>2, Releasing
  <1> HIDE DEF r
  <1> QED BY <1>1, <1>2, <1>3 DEF Rested

LEMMA Aborts ==
  ASSUME NEW q, Ready(q), q.hijack
  PROVE  Rested(Ran(Call, q, WriterAbort), q)
  <1> DEFINE a == Applied(Call, q, TapReset)
             r == Applied(Call, a, Release)
  <1>1. Ran(Call, q, WriterAbort) = r
    BY RanTwo DEF WriterAbort
  <1>2. Idle(a, IDCODE, q)
    BY CallsReset
  <1> HIDE DEF a
  <1>3. Rested(r, q)
    BY <1>2, Releasing
  <1> QED BY <1>1, <1>3

\* A byte of a payload, and a payload or its beginning.
LEMMA CallsByte ==
  ASSUME NEW p, NEW q, Loading(q, p), NEW pay \in Seq(Nat),
         NEW d \in 0 .. Len(pay) - 1, NEW last \in BOOLEAN
  PROVE  LET r == Applied(Call, q, WriterWrite(pay[d + 1], last))
         IN /\ last => Reached(r, "exit1Dr", CFG_IN, p)
            /\ ~ last => Loading(r, p)
            /\ Keeps(q, p, pay, d) => Holds(r.fpga.cfg, pay, (d + 1) * ByteBits)
  <1> DEFINE steps == WriterWrite(pay[d + 1], last)
             r == Ran(Step, q, steps)
  <1>1. q \in Ports
    BY DEF Loading, Reached
  <1>2. steps \in Seq(Pins)
    <2>1. pay[d + 1] \in Nat
      OBVIOUS
    <2> QED BY <2>1, ByteTicks
  <1>3. /\ last => Reached(r, "exit1Dr", CFG_IN, p)
        /\ ~ last => Loading(r, p)
        /\ Keeps(q, p, pay, d) => Holds(r.fpga.cfg, pay, (d + 1) * ByteBits)
    BY WritesByte
  <1> HIDE DEF steps
  <1>4. Applied(Call, q, steps) = r
    BY <1>1, <1>2, CallIs
  <1> QED BY <1>3, <1>4 DEF steps

LEMMA WritesPayload ==
  ASSUME NEW p, NEW q, Loading(q, p), NEW pay \in Seq(Nat), Len(pay) # 0,
         NEW n \in 0 .. Len(pay)
  PROVE  LET r == Ran(Call, q, Written(pay, n))
         IN /\ Written(pay, n) \in Calls
            /\ n < Len(pay) => Loading(r, p)
            /\ n = Len(pay) => Reached(r, "exit1Dr", CFG_IN, p)
            /\ Keeps(q, p, pay, 0) => Holds(r.fpga.cfg, pay, n * ByteBits)
  <1> DEFINE len == Len(pay)
             s == Written(pay, n)
             kept == Keeps(q, p, pay, 0)
             byte(k) == WriterWrite(pay[k], k = len)
  <1>1. len \in Nat /\ n \in Nat /\ n <= len /\ ByteBits \in Nat /\ len # 0
    BY PortAssumption
  <1>2. ASSUME NEW k \in 1 .. n PROVE byte(k) \in Seq(Pins)
    <2> DEFINE last == k = len
               b == pay[k]
    <2>1. b \in Nat /\ last \in BOOLEAN
      BY <1>1
    <2> HIDE DEF last, b
    <2>2. WriterWrite(b, last) \in Seq(Pins)
      BY <2>1, ByteTicks
    <2> QED BY <2>2, Zenon DEF last, b
  <1>3. s = [k \in 1 .. n |-> byte(k)]
    BY Zenon DEF Written
  <1> HIDE DEF byte
  <1>4. s \in Calls /\ Len(s) = n /\ \A k \in 1 .. n : s[k] = byte(k)
    <2> HIDE DEF s
    <2> QED BY <1>1, <1>2, <1>3 DEF Calls
  <1> HIDE DEF s, len, kept
  <1>5. PICK f : Way(f, Call, q, s, n)
    <2>1. n \in Nat /\ Len(s) = n
      BY <1>1, <1>4
    <2> QED BY ONLY <2>1, RanSteps
  <1> DEFINE So(i) ==
               /\ i < len => Loading(f[i], p)
               /\ i = len => Reached(f[i], "exit1Dr", CFG_IN, p)
               /\ kept => Holds(f[i].fpga.cfg, pay, i * ByteBits)
  <1>6. So(0)
    <2>1. f[0] = q /\ 0 * ByteBits = 0 /\ 0 < len
      BY <1>1, <1>5 DEF Way
    <2>2. kept => Holds(q.fpga.cfg, pay, 0)
      BY <2>1 DEF kept, Keeps
    <2> QED BY <1>1, <2>1, <2>2
  <1>7. ASSUME NEW k \in 0 .. n - 1, So(k) PROVE So(k + 1)
    <2> DEFINE u == f[k]
               last == k + 1 = len
               r == Applied(Call, u, WriterWrite(pay[k + 1], last))
    <2>1. /\ k + 1 \in 1 .. n /\ (k + 1) - 1 = k /\ k \in 0 .. len - 1 /\ k < len
          /\ (k + 1 < len <=> ~ last) /\ last \in BOOLEAN
      BY <1>1
    <2>2. f[k + 1] = Applied(Call, u, s[k + 1]) /\ s[k + 1] = byte(k + 1)
      BY <1>4, <1>5, <2>1 DEF Way
    <2>3. f[k + 1] = r
      BY <2>2, Zenon DEF byte
    <2>4. Loading(u, p) /\ (kept => Holds(u.fpga.cfg, pay, k * ByteBits))
      BY <1>7, <2>1
    <2>5. kept => Keeps(u, p, pay, k)
      BY <2>4 DEF kept, Keeps
    <2> HIDE DEF u
    <2>6. /\ last => Reached(r, "exit1Dr", CFG_IN, p)
          /\ ~ last => Loading(r, p)
          /\ Keeps(u, p, pay, k) => Holds(r.fpga.cfg, pay, (k + 1) * ByteBits)
      <3>1. last \in BOOLEAN /\ k \in 0 .. Len(pay) - 1
        BY <2>1 DEF len
      <3> HIDE DEF last
      <3> QED BY <2>4, <3>1, CallsByte
    <2> HIDE DEF r
    <2>7. (k + 1 < len => Loading(f[k + 1], p))
          /\ (k + 1 = len => Reached(f[k + 1], "exit1Dr", CFG_IN, p))
      BY <2>1, <2>3, <2>6
    <2>8. kept => Holds(f[k + 1].fpga.cfg, pay, (k + 1) * ByteBits)
      BY <2>3, <2>5, <2>6
    <2> QED BY <2>7, <2>8
  <1> DEFINE Good == {i \in 0 .. n : So(i)}
  <1> HIDE DEF So
  <1>8. 0 \in Good /\ 0 \in Nat
    BY <1>1, <1>6
  <1>9. ASSUME NEW k \in 0 .. n - 1, k \in Good PROVE k + 1 \in Good
    <2>1. k + 1 \in 0 .. n
      BY <1>1
    <2> QED BY <1>7, <1>9, <2>1
  <1> HIDE DEF Good
  <1>10. \A i \in 0 .. n : i \in Good
    BY <1>1, <1>8, <1>9, Induction
  <1>11. So(n)
    BY <1>1, <1>10 DEF Good
  <1>12. Ran(Call, q, s) = f[n]
    BY <1>5 DEF Way
  <1> QED BY <1>4, <1>11, <1>12 DEF So, s, len, kept

\* All of it is the payload.
LEMMA HoldsAll ==
  ASSUME NEW pay \in Seq(Nat), NEW cfg, Holds(cfg, pay, Len(pay) * ByteBits)
  PROVE  cfg = Bits(pay) /\ cfg \in Seq(Int)
  <1> DEFINE n == Len(pay) * ByteBits
  <1>1. n \in Nat
    BY PortAssumption
  <1>2. cfg \in Seq(Int) /\ Len(cfg) = n /\ \A k \in 1 .. n : cfg[k] = Bits(pay)[k]
    BY DEF Holds
  <1>3. DOMAIN Bits(pay) = 1 .. n /\ Bits(pay) = [k \in 1 .. n |-> Bits(pay)[k]]
    BY DEF Bits
  <1> HIDE DEF n
  <1>4. cfg = [k \in 1 .. n |-> cfg[k]]
    BY <1>2
  <1> QED BY <1>2, <1>3, <1>4

\* The card's payload, of which n bytes can be read.
LEMMA Programs ==
  ASSUME NEW q, Ready(q), NEW pay \in Seq(Nat), Len(pay) # 0,
         NEW n \in 0 .. Len(pay)
  PROVE  LET r == Ran(Call, q, ProgramStream(pay, n))
         IN /\ Rested(r, r) /\ ProgramStream(pay, n) \in Calls
            /\ n < Len(pay) => r.fpga.design = None
            /\ n = Len(pay) /\ Len(pay) <= MaxBytes =>
                 r.fpga.design = Bits(pay)
  <1> DEFINE end == IF n = Len(pay) THEN WriterFinish ELSE WriterAbort
             a == Ran(Call, q, WriterBegin)
             b == Ran(Call, a, Written(pay, n))
             r == Ran(Call, b, end)
  <1>1. /\ Loading(a, a) /\ a.fpga.clear /\ a.fpga.design = None
        /\ a.fpga.cfg = <<>>
    BY Begins
  <1> HIDE DEF a
  <1>2. /\ Written(pay, n) \in Calls
        /\ n < Len(pay) => Loading(b, a)
        /\ n = Len(pay) => Reached(b, "exit1Dr", CFG_IN, a)
        /\ Keeps(a, a, pay, 0) => Holds(b.fpga.cfg, pay, n * ByteBits)
    BY <1>1, WritesPayload
  <1> HIDE DEF b
  <1>3. /\ Ran(Call, q, ProgramStream(pay, n)) = r
        /\ ProgramStream(pay, n) \in Calls
    <2>1. end \in Calls /\ WriterBegin \in Calls
      BY Functions
    <2>2. ProgramStream(pay, n) = WriterBegin \o Written(pay, n) \o end
      BY DEF ProgramStream
    <2> HIDE DEF end, r
    <2>3. Ran(Call, q, ProgramStream(pay, n)) =
            Ran(Call, Ran(Call, Ran(Call, q, WriterBegin), Written(pay, n)), end)
          /\ ProgramStream(pay, n) \in Calls
      BY <1>2, <2>1, <2>2, CallsThree
    <2> QED BY <2>3 DEF a, b, r
  <1>4. ASSUME n < Len(pay) PROVE Rested(r, r) /\ r.fpga.design = None
    <2>1. Loading(b, a) /\ end = WriterAbort
      BY <1>2, <1>4
    <2>2. Ready(b) /\ b.hijack /\ b.fpga.design = None
      BY <1>1, <2>1, Instructions DEF Loading, Reached, Ready
    <2>3. Rested(r, b)
      BY <2>1, <2>2, Aborts
    <2> HIDE DEF r
    <2> QED BY <2>2, <2>3 DEF Rested
  <1>5. ASSUME n = Len(pay)
        PROVE  /\ Rested(r, r)
               /\ Len(pay) <= MaxBytes => r.fpga.design = Bits(pay)
    <2>1. Reached(b, "exit1Dr", CFG_IN, a) /\ end = WriterFinish
      BY <1>2, <1>5
    <2>2. Reached(b, "exit1Dr", CFG_IN, b) /\ b.fpga.clear
      BY <1>1, <2>1 DEF Reached
    <2>3. Rested(r, r) /\ r.fpga.design = b.fpga.cfg
      BY <2>1, <2>2, Finishes
    <2> HIDE DEF r
    <2>4. ASSUME Len(pay) <= MaxBytes PROVE b.fpga.cfg = Bits(pay)
      <3>1. Holds(<<>>, pay, 0 * ByteBits)
        <4>1. 0 * ByteBits = 0
          BY PortAssumption
        <4> QED BY <4>1 DEF Holds
      <3>2. Keeps(a, a, pay, 0)
        BY <1>1, <2>4, <3>1 DEF Keeps
      <3>3. Holds(b.fpga.cfg, pay, Len(pay) * ByteBits)
        BY <1>2, <1>5, <3>2
      <3> QED BY <3>3, HoldsAll
    <2> QED BY <2>3, <2>4
  <1>6. n < Len(pay) \/ n = Len(pay)
    OBVIOUS
  <1> HIDE DEF r
  <1> QED BY <1>3, <1>4, <1>5, <1>6

-----------------------------------------------------------------------------
(* The helpers between claim and release.                                  *)

\* The switch is as it was, and with the switch released nothing reaches the
\* FPGA.
Kept(q, p) ==
  q \in Ports /\ (q.hijack <=> p.hijack) /\ (~ p.hijack => q.fpga = p.fpga)

\* The helpers that leave the switch alone.
Tame ==
  {h \in Seq(Pins) : \A q, p \in Ports :
     Kept(q, p) => Kept(Applied(Call, q, h), p)}

LEMMA KeptStep ==
  \A q, p : \A s \in Pins :
    Kept(q, p) /\ s.pins \in {"tick", "payload"} => Kept(Applied(Step, q, s), p)
  <1> SUFFICES ASSUME NEW q, NEW p, NEW s \in Pins, Kept(q, p),
                      s.pins \in {"tick", "payload"}
               PROVE  Kept(Applied(Step, q, s), p)
    OBVIOUS
  <1> DEFINE r == Applied(Step, q, s)
  <1>1. q \in Ports /\ (q.hijack <=> p.hijack)
        /\ (~ p.hijack => q.fpga = p.fpga)
    BY DEF Kept
  <1>2. LET v == IF s.pins \in {"payload", "release"} THEN q.tms ELSE s.tms
        IN /\ r \in Ports
           /\ r.hijack = IF s.pins = "claim" THEN TRUE
                         ELSE IF s.pins = "release" THEN FALSE ELSE q.hijack
           /\ r.fpga = IF s.pins \in {"tick", "payload"} /\ q.hijack
                         THEN Clocked(q.fpga, v, s.tdi)
                         ELSE q.fpga
    BY <1>1, StepIs
  <1> HIDE DEF r
  <1> QED BY <1>1, <1>2 DEF Kept, r

LEMMA KeptTick ==
  \A q, p : \A v \in {0, 1} : \A tdi \in Int :
    Kept(q, p) => Kept(Applied(Step, q, Tick(v, tdi)), p)
  BY KeptStep, TickIs

\* A sequence of such steps.
LEMMA KeptRun ==
  ASSUME NEW h \in Seq(Pins), \A i \in 1 .. Len(h) : h[i].pins \in {"tick", "payload"}
  PROVE  h \in Tame
  <1> SUFFICES ASSUME NEW q \in Ports, NEW p \in Ports, Kept(q, p)
               PROVE  Kept(Applied(Call, q, h), p)
    BY DEF Tame
  <1> DEFINE S == {r \in Ports : Kept(r, p)}
             n == Len(h)
  <1>1. \A r \in S : \A i \in 1 .. n : Applied(Step, r, h[i]) \in S
    BY KeptStep DEF Kept
  <1>2. q \in S /\ n \in Nat /\ Len(h) = n
    OBVIOUS
  <1> HIDE DEF S, n
  <1>3. Ran(Step, q, h) \in S
    BY <1>1, <1>2, RanStays
  <1> QED BY <1>3, CallIs DEF S

LEMMA TameHelpers ==
  /\ TapReset \in Tame /\ IdleClocks \in Tame
  /\ \A instr \in 0 .. 63 : ShiftIr(instr) \in Tame
  /\ ShiftDrRead \in Tame /\ ShiftDrWrite \in Tame
  /\ LeaveShiftDr \in Tame
  <1>1. /\ Tick(0, 0).pins = "tick" /\ Tick(1, 0).pins = "tick"
        /\ Tick(0, 0) \in Pins /\ Tick(1, 0) \in Pins
    BY TickIs
  <1>2. TapReset \in Tame
    BY <1>1, TapResetSteps, KeptRun
  <1>3. IdleClocks \in Tame
    <2>1. IdleClocks \in Seq(Pins)
      BY Helpers
    <2>2. \A i \in 1 .. Len(IdleClocks) : IdleClocks[i].pins \in {"tick", "payload"}
      BY <1>1, PortAssumption DEF IdleClocks
    <2> QED BY <2>1, <2>2, KeptRun
  <1>5. ASSUME NEW q \in Ports, NEW p \in Ports, Kept(q, p)
        PROVE  /\ Kept(Ran(Step, q, EnterShiftDr), p)
               /\ Kept(Ran(Step, q, LeaveShiftDr), p)
    <2>1. Ran(Step, q, EnterShiftDr) =
            Applied(Step, Applied(Step, Applied(Step, q, Tick(1, 0)),
                                  Tick(0, 0)), Tick(0, 0))
      BY TicksAre, RanThree
    <2>2. Ran(Step, q, LeaveShiftDr) =
            Applied(Step, Applied(Step, q, Tick(1, 0)), Tick(0, 0))
      BY TicksAre, RanTwo
    <2> QED BY <1>5, <2>1, <2>2, KeptTick
  <1>6. LeaveShiftDr \in Tame
    BY <1>5, Helpers, CallIs DEF Tame
  <1>7. ShiftDrRead \in Tame
    <2> SUFFICES ASSUME NEW q \in Ports, NEW p \in Ports, Kept(q, p)
                 PROVE  Kept(Applied(Call, q, ShiftDrRead), p)
      BY Helpers DEF Tame
    <2> DEFINE a == Ran(Step, q, EnterShiftDr)
               b == Applied(Step, a, Tick(1, 0))
    <2>1. Kept(a, p)
      BY <1>5
    <2> HIDE DEF a
    <2>2. Kept(b, p)
      BY <2>1, KeptTick
    <2> HIDE DEF b
    <2>3. Kept(Ran(Step, b, LeaveShiftDr), p)
      BY <1>5, <2>2 DEF Kept
    <2>4. Applied(Call, q, ShiftDrRead) = Ran(Step, b, LeaveShiftDr)
      BY Helpers, CallIs, ReadsAre DEF a, b
    <2> QED BY <2>3, <2>4
  <1>8. ShiftDrWrite \in Tame
    <2> SUFFICES ASSUME NEW q \in Ports, NEW p \in Ports, Kept(q, p)
                 PROVE  Kept(Applied(Call, q, ShiftDrWrite), p)
      BY Helpers DEF Tame
    <2> DEFINE s == PayloadTick(0, FALSE)
               t == PayloadTick(0, TRUE)
               a == Ran(Step, q, EnterShiftDr)
               b == Applied(Step, a, s)
               c == Applied(Step, b, t)
    <2>1. /\ s \in Pins /\ t \in Pins
          /\ s.pins \in {"tick", "payload"} /\ t.pins \in {"tick", "payload"}
      <3>1. s \in Pins /\ s.pins = "payload" /\ t \in Pins /\ t.pins = "tick"
        BY ZeroIsInt, PayloadTickIs, Zenon
      <3> HIDE DEF s, t
      <3> QED BY <3>1
    <2> HIDE DEF s, t
    <2>2. Kept(a, p)
      BY <1>5
    <2> HIDE DEF a
    <2>3. Kept(b, p)
      BY <2>1, <2>2, KeptStep
    <2> HIDE DEF b
    <2>4. Kept(c, p)
      BY <2>1, <2>3, KeptStep
    <2> HIDE DEF c
    <2>5. Kept(Ran(Step, c, LeaveShiftDr), p)
      BY <1>5, <2>4 DEF Kept
    <2>6. Applied(Call, q, ShiftDrWrite) = Ran(Step, c, LeaveShiftDr)
      <3>1. Applied(Call, q, ShiftDrWrite) = Ran(Step, q, ShiftDrWrite)
        BY Helpers, CallIs
      <3>2. Ran(Step, q, ShiftDrWrite) = Ran(Step, c, LeaveShiftDr)
        BY WritesAre DEF a, b, c, s, t
      <3> QED BY <3>1, <3>2
    <2> QED BY <2>5, <2>6
  <1>9. ASSUME NEW instr \in 0 .. 63 PROVE ShiftIr(instr) \in Tame
    <2> SUFFICES ASSUME NEW q \in Ports, NEW p \in Ports, Kept(q, p)
                 PROVE  Kept(Applied(Call, q, ShiftIr(instr)), p)
      BY Helpers DEF Tame
    <2> DEFINE a == Ran(Step, q, EnterShiftIr)
               b == Ran(Step, a, IrTicks(instr))
    <2>1. Kept(a, p)
      <3>1. a = Applied(Step, Applied(Step, Applied(Step, Applied(Step, q,
                  Tick(1, 0)), Tick(1, 0)), Tick(0, 0)), Tick(0, 0))
        BY RanFour DEF EnterShiftIr
      <3> QED BY <3>1, KeptTick
    <2> HIDE DEF a
    <2>2. Kept(b, p)
      <3> DEFINE bit(i) == IrBit(instr, i)
      <3>1. b = Applied(Step, Applied(Step, Applied(Step, Applied(Step,
                  Applied(Step, Applied(Step, a, Tick(0, bit(1))),
                    Tick(0, bit(2))), Tick(0, bit(3))), Tick(0, bit(4))),
                    Tick(0, bit(5))), Tick(1, bit(6)))
        BY RanSix DEF IrTicks
      <3>2. /\ bit(1) \in Int /\ bit(2) \in Int /\ bit(3) \in Int
            /\ bit(4) \in Int /\ bit(5) \in Int /\ bit(6) \in Int
        <4>1. \A i \in 1 .. 6 : bit(i) \in {0, 1}
          BY IrBitsAre
        <4> HIDE DEF bit
        <4> QED BY <4>1
      <3> HIDE DEF bit, b
      <3> QED BY <2>1, <3>1, <3>2, KeptTick
    <2> HIDE DEF b
    <2>3. Kept(Ran(Step, b, LeaveShiftDr), p)
      BY <1>5, <2>2 DEF Kept
    <2>4. Applied(Call, q, ShiftIr(instr)) = Ran(Step, b, LeaveShiftDr)
      BY Helpers, CallIs, ShiftIrIs DEF a, b
    <2> QED BY <2>3, <2>4
  <1> QED BY <1>2, <1>3, <1>6, <1>7, <1>8, <1>9

LEMMA TameByte ==
  ASSUME NEW b \in Nat, NEW last \in BOOLEAN
  PROVE  WriterWrite(b, last) \in Tame
  <1> DEFINE h == WriterWrite(b, last)
  <1>1. h \in Seq(Pins) /\ Len(h) = ByteBits
        /\ \A i \in 1 .. ByteBits :
             h[i].pins = (IF last /\ i = ByteBits THEN "tick" ELSE "payload")
    BY ByteTicks
  <1> HIDE DEF h
  <1>2. \A i \in 1 .. Len(h) : h[i].pins \in {"tick", "payload"}
    BY <1>1
  <1> QED BY <1>1, <1>2, KeptRun DEF h

\* What the functions do between claim and release.
LEMMA KeptCalls ==
  ASSUME NEW calls \in Seq(Tame), NEW p \in Ports, NEW q, Kept(q, p)
  PROVE  Kept(Ran(Call, q, calls), p)
  <1> DEFINE S == {r \in Ports : Kept(r, p)}
             n == Len(calls)
  <1>1. \A r \in S : \A i \in 1 .. n : Applied(Call, r, calls[i]) \in S
    <2> SUFFICES ASSUME NEW r \in S, NEW i \in 1 .. n
                 PROVE  Applied(Call, r, calls[i]) \in S
      OBVIOUS
    <2>1. calls[i] \in Tame
      OBVIOUS
    <2>2. Kept(Applied(Call, r, calls[i]), p)
      BY <2>1 DEF Tame
    <2> QED BY <2>2 DEF Kept
  <1>2. q \in S /\ n \in Nat /\ Len(calls) = n
    BY DEF Kept
  <1> HIDE DEF S, n
  <1>3. Ran(Call, q, calls) \in S
    BY <1>1, <1>2, RanStays
  <1> QED BY <1>3 DEF S

LEMMA TameFunctions ==
  ASSUME NEW p \in Ports, NEW q, Kept(q, p)
  PROVE  /\ Kept(Applied(Call, q, TapReset), p)
         /\ Kept(Ran(Call, q, CloseOut), p)
         /\ p.hijack =>
              LET r == Ran(Call, q, CloseOut)
              IN r.fpga.tap = "idle" /\ r.fpga.ir = IDCODE
  <1> DEFINE begin == <<LeaveShiftDr, ShiftIr(JSTART), IdleClocks,
                        ShiftIr(ISC_NOOP), IdleClocks, ShiftIr(BYPASS),
                        IdleClocks, TapReset, IdleClocks>>
             end == <<ShiftIr(BYPASS), ShiftDrRead, TapReset>>
             a == Ran(Call, q, begin)
             b == Ran(Call, a, ReadIdcode)
             c == Ran(Call, b, ReadConfigReg)
             d == Ran(Call, c, ReadConfigReg)
             e == Applied(Call, d, ShiftIr(BYPASS))
             g == Applied(Call, e, ShiftDrRead)
             r == Applied(Call, g, TapReset)
  <1>1. /\ TapReset \in Tame /\ IdleClocks \in Tame
        /\ ShiftIr(IDCODE) \in Tame /\ ShiftIr(CFG_IN) \in Tame
        /\ ShiftIr(CFG_OUT) \in Tame /\ ShiftIr(BYPASS) \in Tame
        /\ ShiftIr(JSTART) \in Tame /\ ShiftIr(ISC_NOOP) \in Tame
        /\ ShiftDrRead \in Tame /\ ShiftDrWrite \in Tame
        /\ LeaveShiftDr \in Tame
    BY TameHelpers, Instructions
  <1>2. /\ ReadIdcode \in Seq(Tame) /\ ReadConfigReg \in Seq(Tame)
        /\ begin \in Seq(Tame)
    BY <1>1 DEF ReadIdcode, ReadConfigReg
  <1>3. Tame \subseteq Seq(Pins)
    BY DEF Tame
  <1>4. begin \in Calls /\ end \in Calls
    BY <1>1, <1>3 DEF Calls
  <1>5. Ran(Call, q, CloseOut) = r
    <2>1. CloseOut = Joined(begin, ReadStatus)
      BY DEF CloseOut, Joined
    <2>2. ReadStatus = ReadIdcode \o ReadConfigReg \o ReadConfigReg \o end
      BY DEF ReadStatus
    <2> HIDE DEF begin, end
    <2>3. ReadIdcode \in Calls /\ ReadConfigReg \in Calls /\ ReadStatus \in Calls
      BY Functions
    <2>4. Ran(Call, q, CloseOut) = Ran(Call, a, ReadStatus)
      BY <1>4, <2>1, <2>3, CallsTwo
    <2>5. Ran(Call, a, ReadStatus) = Ran(Call, d, end)
      BY <1>4, <2>2, <2>3, CallsFour
    <2>6. Ran(Call, d, end) = r
      BY RanThree DEF end
    <2> QED BY <2>4, <2>5, <2>6
  <1> HIDE DEF begin, end
  <1>6. Kept(a, p)
    BY <1>2, KeptCalls
  <1> HIDE DEF a
  <1>7. Kept(b, p)
    BY <1>2, <1>6, KeptCalls
  <1> HIDE DEF b
  <1>8. Kept(c, p)
    BY <1>2, <1>7, KeptCalls
  <1> HIDE DEF c
  <1>9. Kept(d, p)
    BY <1>2, <1>8, KeptCalls
  <1> HIDE DEF d
  <1>10. \A h \in Tame : \A t : Kept(t, p) => Kept(Applied(Call, t, h), p)
    BY DEF Tame, Kept
  <1>11. Kept(e, p)
    BY <1>1, <1>9, <1>10
  <1> HIDE DEF e
  <1>12. Kept(g, p)
    BY <1>1, <1>10, <1>11
  <1> HIDE DEF g
  <1>13. Kept(r, p) /\ Kept(Applied(Call, q, TapReset), p)
    BY <1>1, <1>10, <1>12
  <1>14. p.hijack => r.fpga.tap = "idle" /\ r.fpga.ir = IDCODE
    BY <1>12, CallsResetAnyway DEF Kept
  <1> HIDE DEF r
  <1> QED BY <1>5, <1>13, <1>14

\* The writer gives the switch back wherever the TAP is, and nothing of what it
\* does reaches the FPGA when the switch was released before.
Returned(r, p) ==
  /\ r \in Ports /\ ~ r.hijack
  /\ p.hijack => r.fpga.tap = "idle" /\ r.fpga.ir = IDCODE
  /\ ~ p.hijack => r.fpga = p.fpga

LEMMA FinishReturns ==
  ASSUME NEW p \in Ports, NEW q, Kept(q, p)
  PROVE  Returned(Ran(Call, q, WriterFinish), p)
  <1> DEFINE a == Ran(Call, q, CloseOut)
             r == Applied(Call, a, Release)
  <1>1. Ran(Call, q, WriterFinish) = r
    <2>1. WriterFinish = Joined(CloseOut, <<Release>>)
      BY DEF WriterFinish, Joined
    <2>2. CloseOut \in Calls /\ <<Release>> \in Calls
      BY Functions
    <2>3. Ran(Call, q, WriterFinish) = Ran(Call, a, <<Release>>)
      BY <2>1, <2>2, CallsTwo
    <2>4. Ran(Call, a, <<Release>>) = r
      BY RanOne
    <2> QED BY <2>3, <2>4
  <1>2. /\ Kept(a, p)
        /\ p.hijack => a.fpga.tap = "idle" /\ a.fpga.ir = IDCODE
    BY TameFunctions
  <1> HIDE DEF a
  <1>3. r \in Ports /\ ~ r.hijack /\ r.fpga = a.fpga
    BY <1>2, CallsRelease DEF Kept
  <1> HIDE DEF r
  <1> QED BY <1>1, <1>2, <1>3 DEF Kept, Returned

LEMMA AbortReturns ==
  ASSUME NEW p \in Ports, ~ p.hijack
  PROVE  Returned(Ran(Call, p, WriterAbort), p)
  <1> DEFINE a == Applied(Call, p, TapReset)
             r == Applied(Call, a, Release)
  <1>1. Ran(Call, p, WriterAbort) = r
    BY RanTwo DEF WriterAbort
  <1>2. Kept(a, p)
    BY TameFunctions DEF Kept
  <1> HIDE DEF a
  <1>3. r \in Ports /\ ~ r.hijack /\ r.fpga = a.fpga
    BY <1>2, CallsRelease DEF Kept
  <1> HIDE DEF r
  <1> QED BY <1>1, <1>2, <1>3 DEF Kept, Returned

-----------------------------------------------------------------------------
(* The invariant.                                                          *)

\* A stream that nobody disturbed has the port, and the bits it has shifted in
\* so far are what the FPGA holds; one that was disturbed has the switch only
\* when the operator took it, and then TMS is high.  However that may be, the
\* TAP can be reset without a start on the way.
Undisturbed ==
  wr.active /\ alone =>
    /\ Loading(port, port) /\ port.fpga.clear /\ port.fpga.design = None
    /\ Holds(port.fpga.cfg, wr.pay, wr.done * ByteBits)
Disturbed == wr.active /\ ~ alone => (port.hijack => held)
Taken == held => port.hijack /\ port.tms = 1
Unfinished == wr.active => wr.done < Len(wr.pay)
AloneAtRest == ~ wr.active => alone

PortInv ==
  /\ TypeOK /\ SwitchGivenBack /\ Ready(port)
  /\ Undisturbed /\ Disturbed /\ Taken /\ Unfinished /\ AloneAtRest

LEMMA LoadingIsReady ==
  \A q, p : Loading(q, p) => Ready(q) /\ q.tms # 1
  BY Instructions DEF Loading, Reached, Ready

\* The writer between two bytes.
LEMMA Streaming ==
  ASSUME PortInv, wr.active
  PROVE  /\ wr = [active |-> TRUE, pay |-> wr.pay, done |-> wr.done]
         /\ wr.pay \in Streams /\ wr.pay \in Seq(Nat) /\ Len(wr.pay) \in 1 .. MaxBytes
         /\ wr.done \in 0 .. Len(wr.pay) - 1
  <1>1. wr \in [active : {TRUE}, pay : Streams, done : Nat]
    <2>1. wr = NoWriter \/ wr \in [active : {TRUE}, pay : Streams, done : Nat]
      BY DEF PortInv, TypeOK
    <2>2. ~ NoWriter.active
      BY DEF NoWriter
    <2> QED BY <2>1, <2>2
  <1>2. wr.pay \in Streams /\ wr.done \in Nat
    BY <1>1
  <1>3. wr.pay \in Seq(Nat) /\ Len(wr.pay) \in 1 .. MaxBytes
    BY <1>2, PortAssumption DEF Payloads
  <1>4. wr.done < Len(wr.pay)
    BY DEF PortInv, Unfinished
  <1>5. wr.done \in 0 .. Len(wr.pay) - 1
    BY <1>2, <1>3, <1>4
  <1>6. wr = [active |-> TRUE, pay |-> wr.pay, done |-> wr.done]
    BY <1>1
  <1> QED BY <1>2, <1>3, <1>5, <1>6

\* A command had the port and gave it back.
Lent ==
  /\ port' \in Ports /\ ~ port'.hijack
  /\ port'.fpga.tap = "idle" /\ port'.fpga.ir = IDCODE
  /\ alone' = ~ wr.active /\ held' = FALSE /\ wr' = wr /\ told' = told

LoadedType ==
  [file : Files \cup {None},
   how : {"none", "sound", "refused"}]

LEMMA LentKeeps ==
  ASSUME PortInv, Lent, loaded' \in LoadedType
  PROVE  PortInv'
  <1>1. TypeOK'
    BY DEF PortInv, TypeOK, Lent, LoadedType
  <1>2. SwitchGivenBack' /\ Disturbed' /\ Taken'
    BY DEF SwitchGivenBack, Disturbed, Taken, Lent
  <1>3. Undisturbed' /\ AloneAtRest'
    BY DEF PortInv, TypeOK, NoWriter, Undisturbed, AloneAtRest, Lent
  <1>4. Ready(port')
    BY Instructions DEF Ready, Lent
  <1>5. Unfinished'
    BY DEF PortInv, Unfinished, Lent
  <1> QED BY <1>1, <1>2, <1>3, <1>4, <1>5 DEF PortInv, Ready

LEMMA NothingIsTyped == NothingLoaded \in LoadedType
  BY DEF NothingLoaded, LoadedType

\* A command that only looks.
LEMMA LookEffect ==
  ASSUME PortInv, NEW reads \in {ReadIdcode, ReadStatus}, Uses(Look(reads))
  PROVE  Lent /\ port'.fpga.design = port.fpga.design
  <1>1. port' = Ran(Call, port, Look(reads))
    BY AfterIs DEF Uses
  <1>2. Rested(Ran(Call, port, Look(reads)), port)
    BY Looks DEF PortInv
  <1> QED BY <1>1, <1>2 DEF Uses, Lent, Rested

\* A command that looks, and then loads n bytes of pay.
LEMMA ShiftsEffect ==
  ASSUME PortInv, NEW pay \in Seq(Nat), Len(pay) # 0, NEW n \in 0 .. Len(pay),
         Shifts(pay, n)
  PROVE  /\ Lent
         /\ n < Len(pay) => port'.fpga.design = None
         /\ n = Len(pay) /\ Len(pay) <= MaxBytes =>
              port'.fpga.design = Bits(pay)
  <1> DEFINE first == Look(ReadIdcode)
             second == ProgramStream(pay, n)
             a == Ran(Call, port, first)
             r == Ran(Call, a, second)
  <1>1. Rested(a, port) /\ first \in Calls
    BY Looks DEF PortInv
  <1>2. Ready(a)
    BY <1>1, RestedIsReady
  <1> HIDE DEF a, first
  <1>3. /\ Rested(r, r) /\ second \in Calls
        /\ n < Len(pay) => r.fpga.design = None
        /\ n = Len(pay) /\ Len(pay) <= MaxBytes => r.fpga.design = Bits(pay)
    BY <1>2, Programs
  <1> HIDE DEF second
  <1>4. port' = r
    <2>1. port' = After(port, first \o second)
      BY DEF Shifts, Uses, first, second
    <2>2. After(port, first \o second) = Ran(Call, port, Joined(first, second))
      BY AfterIs DEF Joined
    <2>3. Ran(Call, port, Joined(first, second)) = r
      BY <1>1, <1>3, CallsTwo DEF a
    <2> QED BY <2>1, <2>2, <2>3
  <1>5. alone' = ~ wr.active /\ held' = FALSE /\ wr' = wr /\ told' = told
    BY DEF Shifts, Uses
  <1> HIDE DEF r
  <1> QED BY <1>3, <1>4, <1>5 DEF Lent, Rested

LEMMA StreamProgramEffect ==
  ASSUME PortInv, StreamProgram
  PROVE  /\ Lent /\ loaded' = NothingLoaded
         /\ port'.fpga.design \in Designs \cup {None}
  <1>1. PICK pay \in Streams : \E n \in 0 .. Len(pay) : Shifts(pay, n)
    BY DEF StreamProgram
  <1>2. PICK n \in 0 .. Len(pay) : Shifts(pay, n)
    BY <1>1
  <1>3. pay \in Seq(Nat) /\ Len(pay) \in 1 .. MaxBytes
    BY PortAssumption DEF Payloads
  <1>4. /\ Lent
        /\ n < Len(pay) => port'.fpga.design = None
        /\ n = Len(pay) /\ Len(pay) <= MaxBytes => port'.fpga.design = Bits(pay)
    BY <1>2, <1>3, ShiftsEffect
  <1>5. Bits(pay) \in Designs
    BY DEF Designs, Payloads
  <1>6. n < Len(pay) \/ n = Len(pay)
    BY <1>3
  <1> QED BY <1>3, <1>4, <1>5, <1>6 DEF StreamProgram

-----------------------------------------------------------------------------
(* Loading a file.                                                         *)

\* A set of numbers that is not empty has a least one.
LEMMA LeastIs ==
  ASSUME NEW S, S \subseteq Nat, S # {}
  PROVE  Least(S) \in S /\ \A i \in S : Least(S) <= i
  <1>1. \E i \in S : \A j \in S : <<j, i>> \notin OpToRel(<, Nat)
    BY NatLessThanWellFounded, WFMin
  <1>2. \A i, j \in Nat : <<j, i>> \notin OpToRel(<, Nat) => i <= j
    BY DEF OpToRel
  <1>3. \E i \in S : \A j \in S : i <= j
    BY <1>1, <1>2
  <1> QED BY <1>3 DEF Least

\* What is in a chunk of the search, and where the chunks begin.
Got(bytes, pos) ==
  IF SearchEnd(bytes) - pos > ChunkSize THEN ChunkSize
  ELSE SearchEnd(bytes) - pos
Hits(bytes, pos) ==
  {i \in pos .. pos + Got(bytes, pos) - Len(Signature) : Occurs(bytes, i)}
Chunks(bytes) ==
  {pos \in {k * Advance(ChunkSize) : k \in 0 .. Len(bytes)} :
     Hits(bytes, pos) # {}}

\* The search finds the first signature that is in the file up to its limit,
\* across the border of two chunks too, and none behind it:
\* find_xilinx_bit_wrapper.
THEOREM WrapperIsFound ==
  ASSUME NEW bytes \in Seq(Nat)
  PROVE  FindWrapper(bytes) = IF Occurrences(bytes) = {} THEN -1
                              ELSE Least(Occurrences(bytes))
  <1> DEFINE a == Advance(ChunkSize)
             size == Len(Signature)
             chunks == Chunks(bytes)
             all == Occurrences(bytes)
  <1>1. /\ a \in Nat \ {0} /\ size \in Nat /\ ChunkSize \in Nat
        /\ ChunkSize = (a + size) - 1 /\ Len(bytes) \in Nat
        /\ SearchEnd(bytes) \in Nat /\ SearchEnd(bytes) <= Len(bytes)
    BY SizesAssumption DEF Advance, SearchEnd
  <1>2. FindWrapper(bytes) =
          IF chunks = {} THEN -1 ELSE Least(Hits(bytes, Least(chunks)))
    BY DEF FindWrapper, Chunks, Hits, Got
  <1>3. \A pos \in chunks : \E k \in 0 .. Len(bytes) : pos = k * a
    BY DEF Chunks
  <1> HIDE DEF a
  <1>4. chunks \subseteq Nat
    BY <1>1, <1>3
  \* What the chunk at pos holds.
  <1>5. ASSUME NEW pos \in Nat, NEW i
        PROVE  i \in Hits(bytes, pos) <=>
                 i \in all /\ pos <= i /\ i <= (pos + a) - 1
    <2>1. i \in Hits(bytes, pos) =>
            i \in all /\ pos <= i /\ i <= (pos + a) - 1
      BY <1>1 DEF Hits, Got, Occurrences
    <2>2. ASSUME i \in all, pos <= i, i <= (pos + a) - 1
          PROVE  i \in Hits(bytes, pos)
      <3>1. i \in Nat /\ i <= SearchEnd(bytes) - size /\ Occurs(bytes, i)
        BY <1>1, <2>2 DEF Occurrences
      <3>2. i <= pos + Got(bytes, pos) - size
        BY <1>1, <2>2, <3>1 DEF Got
      <3>3. Got(bytes, pos) \in Int
        BY <1>1 DEF Got
      <3> QED BY <1>1, <2>2, <3>1, <3>2, <3>3 DEF Hits
    <2> QED BY <2>1, <2>2
  <1>6. all \subseteq Nat
    BY <1>1 DEF Occurrences
  \* Each occurrence is in the chunk below it.
  <1>7. ASSUME NEW i \in all
        PROVE  \E pos \in chunks : i \in Hits(bytes, pos)
    <2> DEFINE k == i \div a
               pos == k * a
    <2>1. i \in Nat /\ i <= Len(bytes)
      BY <1>1 DEF Occurrences
    <2>2. k \in Nat /\ i = pos + (i % a) /\ i % a \in 0 .. a - 1
      <3>1. \A n \in Nat : \A d \in Nat \ {0} :
              /\ n \div d \in Nat /\ n % d \in 0 .. d - 1
              /\ n = ((n \div d) * d) + (n % d)
        OBVIOUS
      <3> QED BY <1>1, <2>1, <3>1
    <2> HIDE DEF k
    <2>3. pos \in Nat /\ pos <= i /\ i <= (pos + a) - 1
      BY <1>1, <2>1, <2>2
    <2>4. k <= Len(bytes)
      <3>1. k * 1 <= k * a
        <4>1. 1 * k <= a * k
          BY <1>1, <2>2, Products
        <4> QED BY <1>1, <2>2, <4>1
      <3>2. k * 1 = k
        BY <2>2
      <3> HIDE DEF pos
      <3>3. pos = k * a
        BY DEF pos
      <3>4. k <= pos
        BY <3>1, <3>2, <3>3
      <3>5. k \in Nat /\ pos \in Nat /\ i \in Nat /\ Len(bytes) \in Nat
        BY <1>1, <2>1, <2>2, <2>3
      <3>6. pos <= i /\ i <= Len(bytes)
        BY <2>1, <2>3
      <3> QED BY <3>4, <3>5, <3>6
    <2>5. i \in Hits(bytes, pos)
      BY <1>5, <2>3
    <2>6. pos \in chunks
      <3>1. k \in 0 .. Len(bytes)
        <4>1. k \in Nat /\ Len(bytes) \in Nat
          BY <1>1, <2>2
        <4> QED BY <4>1, <2>4
      <3>2. Hits(bytes, pos) # {}
        BY ONLY <2>5, Zenon
      <3>3. pos = k * Advance(ChunkSize)
        BY DEF pos, a
      <3> HIDE DEF pos
      <3>4. pos \in Chunks(bytes)
        BY ONLY <3>1, <3>2, <3>3, Zenon DEF Chunks
      <3> QED BY <3>4
    <2> QED BY <2>5, <2>6
  <1> HIDE DEF chunks, all
  <1>8. CASE all = {}
    <2>1. ASSUME NEW pos \in chunks PROVE FALSE
      <3>1. Hits(bytes, pos) # {}
        BY DEF chunks, Chunks
      <3> QED BY <1>4, <1>5, <1>8, <3>1
    <2>2. chunks = {}
      BY <2>1
    <2> QED BY <1>2, <1>8, <2>2 DEF all
  <1>9. CASE all # {}
    <2> DEFINE low == Least(chunks)
               h == Least(Hits(bytes, low))
    <2>1. chunks # {}
      BY <1>7, <1>9
    <2>2. low \in chunks /\ \A pos \in chunks : low <= pos
      BY <1>4, <2>1, LeastIs
    <2> HIDE DEF low
    <2>3. low \in Nat /\ Hits(bytes, low) # {}
      BY <1>4, <2>2 DEF chunks, Chunks
    <2>4. Hits(bytes, low) \subseteq Nat
      BY <1>5, <1>6, <2>3
    <2>5. h \in Hits(bytes, low) /\ \A i \in Hits(bytes, low) : h <= i
      BY <2>3, <2>4, LeastIs
    <2> HIDE DEF h
    <2>6. h \in all /\ h \in Nat /\ h <= (low + a) - 1
      BY <1>5, <1>6, <2>3, <2>5
    <2>7. ASSUME NEW i \in all PROVE h <= i
      <3>1. PICK pos \in chunks : i \in Hits(bytes, pos)
        BY <1>7
      <3>2. pos \in Nat /\ low <= pos /\ pos <= i /\ i \in Nat
        BY <1>4, <1>5, <1>6, <2>2, <3>1
      <3>3. CASE pos = low
        BY <2>5, <3>1, <3>3
      <3>4. CASE pos # low
        <4>0. 0 .. Len(bytes) \subseteq Nat
          OBVIOUS
        <4>1. PICK k \in Nat : pos = k * a
          BY <1>3, <4>0
        <4>2. PICK m \in Nat : low = m * a
          BY <1>3, <2>2, <4>0
        <4>3. ASSUME k <= m PROVE FALSE
          BY <1>1, <2>3, <3>2, <3>4, <4>1, <4>2, <4>3, Products
        <4>4. m + 1 <= k
          BY <4>3
        <4>5. (m + 1) * a <= k * a
          BY <1>1, <4>4, Products
        <4>6. (m + 1) * a = low + a
          BY <1>1, <4>2
        <4>7. low + a <= pos
          BY <4>1, <4>5, <4>6
        <4> QED BY <1>1, <2>3, <2>6, <3>2, <4>7
      <3> QED BY <3>3, <3>4
    <2>8. Least(all) \in all /\ \A i \in all : Least(all) <= i
      BY <1>6, <1>9, LeastIs
    <2>9. h = Least(all)
      <3>1. Least(all) <= h /\ h <= Least(all)
        BY <2>6, <2>7, <2>8
      <3>2. Least(all) \in Nat
        BY <1>6, <2>8
      <3> QED BY <2>6, <3>1, <3>2
    <2> QED BY <1>2, <1>9, <2>1, <2>9 DEF h, low, all
  <1> QED BY <1>8, <1>9

\* What is read at pos, given what is read with fewer records left.
ReadAt(bytes, record, left, pos) ==
  IF left = 0 \/ ~ Has(bytes, pos + 1) THEN NotFound
  ELSE IF At(bytes, pos) \in StringTags
    THEN record[left - 1][pos + 2 + At(bytes, pos + 1)]
  ELSE IF At(bytes, pos) = PayloadTag
    THEN [ok |-> TRUE, offset |-> pos + 2, length |-> At(bytes, pos + 1)]
  ELSE NotFound

Recorded(bytes, record, n) ==
  record = [left \in 0 .. n |-> [pos \in Nat |-> ReadAt(bytes, record, left, pos)]]

LEMMA RecordedExists ==
  ASSUME NEW bytes, NEW n \in Nat
  PROVE  \E record : Recorded(bytes, record, n)
  <1> DEFINE Defined == {m \in Nat : \E f : Recorded(bytes, f, m)}
  <1>1. 0 \in Defined
    <2> DEFINE g == [left \in 0 .. 0 |-> [pos \in Nat |-> NotFound]]
    <2>1. ASSUME NEW left \in 0 .. 0
          PROVE  g[left] = [pos \in Nat |-> ReadAt(bytes, g, left, pos)]
      BY DEF ReadAt
    <2>2. Recorded(bytes, g, 0)
      <3>1. DOMAIN g = 0 .. 0 /\ g = [left \in DOMAIN g |-> g[left]]
        OBVIOUS
      <3> HIDE DEF g
      <3> QED BY <2>1, <3>1 DEF Recorded
    <2> QED BY <2>2
  <1>2. ASSUME NEW m \in 0 .. n - 1, m \in Defined PROVE m + 1 \in Defined
    <2>1. PICK f : Recorded(bytes, f, m)
      BY <1>2
    <2> DEFINE g == [left \in 0 .. m + 1 |->
                       IF left <= m THEN f[left]
                       ELSE [pos \in Nat |-> ReadAt(bytes, f, left, pos)]]
    <2>2. ASSUME NEW left \in 0 .. m + 1
          PROVE  g[left] = [pos \in Nat |-> ReadAt(bytes, g, left, pos)]
      <3>1. g[left] = [pos \in Nat |-> ReadAt(bytes, f, left, pos)]
        <4>1. CASE left <= m
          <5>1. f[left] = [pos \in Nat |-> ReadAt(bytes, f, left, pos)]
            BY <2>1, <4>1 DEF Recorded
          <5> QED BY <4>1, <5>1
        <4>2. CASE ~ left <= m
          BY <4>2
        <4> QED BY <4>1, <4>2
      <3>2. left # 0 => g[left - 1] = f[left - 1]
        OBVIOUS
      <3> HIDE DEF g
      <3>3. ASSUME NEW pos \in Nat
            PROVE  ReadAt(bytes, f, left, pos) = ReadAt(bytes, g, left, pos)
        BY <3>2 DEF ReadAt
      <3> QED BY <3>1, <3>3
    <2>3. Recorded(bytes, g, m + 1)
      <3>1. DOMAIN g = 0 .. m + 1 /\ g = [left \in DOMAIN g |-> g[left]]
        OBVIOUS
      <3> HIDE DEF g
      <3> QED BY <2>2, <3>1 DEF Recorded
    <2> QED BY <2>3
  <1> HIDE DEF Defined
  <1>3. n \in Defined
    BY <1>1, <1>2, Induction
  <1> QED BY <1>3 DEF Defined

\* What is found in a file.
Cores == [ok : BOOLEAN, offset : Nat, length : Nat]

\* What is read with up to n records left.
ReadsRecords(bytes, record, n) ==
  \A left \in 0 .. n : \A i \in Nat :
    record[left][i] = ReadAt(bytes, record, left, i)

LEMMA RecordReads ==
  ASSUME NEW bytes
  PROVE  \E f : ReadsRecords(bytes, f, MaxRecords) /\ Record(bytes) = f[MaxRecords]
  <1> DEFINE f == CHOOSE record : Recorded(bytes, record, MaxRecords)
  <1>1. Recorded(bytes, f, MaxRecords)
    <2>1. \E record : Recorded(bytes, record, MaxRecords)
      BY RecordedExists, SizesAssumption
    <2> QED BY <2>1
  <1>2. Record(bytes) = f[MaxRecords]
    BY DEF Record, Recorded, ReadAt
  <1> HIDE DEF f
  <1>3. ASSUME NEW left \in 0 .. MaxRecords, NEW i \in Nat
        PROVE  f[left][i] = ReadAt(bytes, f, left, i)
    <2>1. f[left] = [pos \in Nat |-> ReadAt(bytes, f, left, pos)]
      BY <1>1 DEF Recorded
    <2> QED BY <2>1
  <1> QED BY <1>2, <1>3 DEF ReadsRecords

LEMMA RecordTyped ==
  ASSUME NEW bytes \in Seq(Nat), NEW pos \in Nat
  PROVE  Record(bytes)[pos] \in Cores
  <1>1. PICK f : ReadsRecords(bytes, f, MaxRecords) /\ Record(bytes) = f[MaxRecords]
    BY RecordReads
  <1> DEFINE Typed == {left \in 0 .. MaxRecords : \A i \in Nat : f[left][i] \in Cores}
  <1>2. Record(bytes) = f[MaxRecords]
    BY <1>1
  <1>3. ASSUME NEW left \in 0 .. MaxRecords, NEW i \in Nat
        PROVE  f[left][i] = ReadAt(bytes, f, left, i)
    BY <1>1 DEF ReadsRecords
  <1>4. NotFound \in Cores
    BY DEF NotFound, Cores
  <1>5. ASSUME NEW i \in Nat, Has(bytes, i + 1)
        PROVE  At(bytes, i + 1) \in Nat
    BY <1>5 DEF Has, At
  <1>6. 0 \in Typed
    <2>1. 0 \in 0 .. MaxRecords
      BY SizesAssumption
    <2> QED BY <1>3, <1>4, <2>1 DEF ReadAt
  <1>7. ASSUME NEW k \in 0 .. MaxRecords - 1, k \in Typed
        PROVE  k + 1 \in Typed
    <2>1. k + 1 \in 0 .. MaxRecords /\ k + 1 # 0 /\ (k + 1) - 1 = k
      BY SizesAssumption
    <2>2. ASSUME NEW i \in Nat PROVE f[k + 1][i] \in Cores
      <3>1. f[k + 1][i] = ReadAt(bytes, f, k + 1, i)
        BY <1>3, <2>1
      <3>2. CASE ~ Has(bytes, i + 1)
        BY <1>4, <3>1, <3>2 DEF ReadAt
      <3>3. CASE Has(bytes, i + 1)
        <4> DEFINE len == At(bytes, i + 1)
                   rest == f[k][i + 2 + len]
                   core == [ok |-> TRUE, offset |-> i + 2, length |-> len]
        <4>1. len \in Nat
          BY <1>5, <3>3
        <4>2. f[k + 1][i] \in {rest, core, NotFound}
          BY <2>1, <3>1, <3>3 DEF ReadAt
        <4> HIDE DEF len
        <4>3. rest \in Cores
          BY <1>7, <4>1
        <4>4. core \in Cores
          BY <4>1 DEF Cores
        <4> HIDE DEF rest, core
        <4> QED BY <1>4, <4>2, <4>3, <4>4
      <3> QED BY <3>2, <3>3
    <2> QED BY <2>1, <2>2
  <1> HIDE DEF Typed
  <1>8. MaxRecords \in Typed
    <2>1. 0 \in Nat /\ MaxRecords \in Nat /\ MaxRecords \in 0 .. MaxRecords
      BY SizesAssumption
    <2>2. \A k \in 0 .. MaxRecords : k \in Typed
      BY <1>6, <1>7, <2>1, Induction
    <2> QED BY <2>1, <2>2
  <1> QED BY <1>2, <1>8 DEF Typed

\* A string before a chain makes it longer by one.
LEMMA ChainGrows ==
  ASSUME NEW bytes \in Seq(Nat), NEW pos \in Tagged(bytes),
         At(bytes, pos) \in StringTags, NEW n \in Nat \ {0},
         NEW at \in Chained(bytes, pos + 2 + At(bytes, pos + 1), n)
  PROVE  \E more \in Chained(bytes, pos, n + 1) : more[n + 1] = at[n]
  <1> DEFINE next == pos + 2 + At(bytes, pos + 1)
             more == [i \in 1 .. n + 1 |-> IF i = 1 THEN pos ELSE at[i - 1]]
  <1>1. /\ at \in [1 .. n -> Tagged(bytes)] /\ at[1] = next
        /\ At(bytes, at[n]) = PayloadTag
    BY DEF Chained
  <1>2. \A i \in 1 .. n - 1 : /\ At(bytes, at[i]) \in StringTags
                              /\ at[i + 1] = at[i] + 2 + At(bytes, at[i] + 1)
    BY DEF Chained
  <1>3. more \in [1 .. n + 1 -> Tagged(bytes)]
    BY <1>1
  <1>4. more[1] = pos /\ \A i \in 1 .. n : more[i + 1] = at[i]
    OBVIOUS
  <1> HIDE DEF more
  <1>5. ASSUME NEW i \in 1 .. n
        PROVE  /\ At(bytes, more[i]) \in StringTags
               /\ more[i + 1] = more[i] + 2 + At(bytes, more[i] + 1)
    <2>1. CASE i = 1
      <3>1. more[i] = pos /\ more[i + 1] = next
        BY <1>1, <1>4, <2>1
      <3> QED BY <3>1
    <2>2. CASE i # 1
      <3> DEFINE j == i - 1
      <3>1. j \in 1 .. n - 1 /\ j \in 1 .. n /\ i = j + 1
        BY <2>2
      <3> HIDE DEF j
      <3>2. more[i] = at[j] /\ more[i + 1] = at[j + 1]
        BY <1>4, <3>1
      <3> QED BY ONLY <1>2, <3>1, <3>2
    <2> QED BY <2>1, <2>2
  <1>6. more[n + 1] = at[n]
    BY <1>4
  <1>7. n + 1 - 1 = n
    OBVIOUS
  <1>8. more \in Chained(bytes, pos, n + 1)
    BY <1>1, <1>3, <1>4, <1>5, <1>6, <1>7 DEF Chained
  <1> QED BY <1>6, <1>8

\* What is left of a chain without its first record, a string.
LEMMA ChainShrinks ==
  ASSUME NEW bytes \in Seq(Nat), NEW pos, NEW n \in Nat \ {0},
         NEW at \in Chained(bytes, pos, n + 1)
  PROVE  /\ pos \in Tagged(bytes) /\ At(bytes, pos) \in StringTags
         /\ \E rest \in Chained(bytes, pos + 2 + At(bytes, pos + 1), n) :
              rest[n] = at[n + 1]
  <1> DEFINE next == pos + 2 + At(bytes, pos + 1)
             rest == [i \in 1 .. n |-> at[i + 1]]
  <1>1. /\ at \in [1 .. n + 1 -> Tagged(bytes)] /\ at[1] = pos
        /\ At(bytes, at[n + 1]) = PayloadTag
    BY DEF Chained
  <1>2. \A i \in 1 .. n : /\ At(bytes, at[i]) \in StringTags
                          /\ at[i + 1] = at[i] + 2 + At(bytes, at[i] + 1)
    <2>1. (n + 1) - 1 = n
      OBVIOUS
    <2> QED BY <2>1 DEF Chained
  <1>3. pos \in Tagged(bytes) /\ At(bytes, pos) \in StringTags /\ at[2] = next
    BY <1>1, <1>2
  <1>4. rest \in [1 .. n -> Tagged(bytes)]
    BY <1>1
  <1>5. \A i \in 1 .. n : rest[i] = at[i + 1]
    OBVIOUS
  <1> HIDE DEF rest, next
  <1>6. rest[1] = next /\ rest[n] = at[n + 1]
    BY <1>3, <1>5
  <1>7. ASSUME NEW i \in 1 .. n - 1
        PROVE  /\ At(bytes, rest[i]) \in StringTags
               /\ rest[i + 1] = rest[i] + 2 + At(bytes, rest[i] + 1)
    <2> DEFINE j == i + 1
    <2>1. j \in 1 .. n /\ i \in 1 .. n
      OBVIOUS
    <2>2. rest[i] = at[j] /\ rest[j] = at[j + 1]
      BY <1>5, <2>1
    <2> HIDE DEF j
    <2>3. /\ At(bytes, rest[i]) \in StringTags
          /\ rest[j] = rest[i] + 2 + At(bytes, rest[i] + 1)
      BY ONLY <1>2, <2>1, <2>2
    <2> QED BY <2>3 DEF j
  <1>8. rest \in Chained(bytes, next, n)
    BY <1>1, <1>4, <1>6, <1>7 DEF Chained
  <1> QED BY <1>3, <1>6, <1>8 DEF next

\* A chain of one record is the payload itself.
LEMMA ChainOfOne ==
  ASSUME NEW bytes, NEW pos
  PROVE  /\ pos \in Tagged(bytes) /\ At(bytes, pos) = PayloadTag =>
              \E at \in Chained(bytes, pos, 1) : at[1] = pos
         /\ \A at \in Chained(bytes, pos, 1) :
              /\ at[1] = pos /\ pos \in Tagged(bytes)
              /\ At(bytes, pos) = PayloadTag
  <1>1. ASSUME pos \in Tagged(bytes), At(bytes, pos) = PayloadTag
        PROVE  \E at \in Chained(bytes, pos, 1) : at[1] = pos
    <2> DEFINE at == [i \in 1 .. 1 |-> pos]
    <2>1. at \in [1 .. 1 -> Tagged(bytes)] /\ at[1] = pos
      BY <1>1
    <2> HIDE DEF at
    <2>2. \A i \in 1 .. 1 - 1 : FALSE
      OBVIOUS
    <2>3. at \in Chained(bytes, pos, 1)
      BY <1>1, <2>1, <2>2 DEF Chained
    <2> QED BY <2>1, <2>3
  <1>2. ASSUME NEW at \in Chained(bytes, pos, 1)
        PROVE  /\ at[1] = pos /\ pos \in Tagged(bytes)
               /\ At(bytes, pos) = PayloadTag
    BY DEF Chained
  <1> QED BY <1>1, <1>2

LEMMA PlacesAre ==
  ASSUME NEW bytes \in Seq(Nat), NEW pos \in Nat
  PROVE  /\ Has(bytes, pos + 1) => At(bytes, pos + 1) \in Nat
         /\ pos \in Tagged(bytes) <=>
              /\ Has(bytes, pos + 1)
              /\ At(bytes, pos) \in StringTags \/ At(bytes, pos) = PayloadTag
         /\ ~ (At(bytes, pos) \in StringTags /\ At(bytes, pos) = PayloadTag)
  <1>1. Has(bytes, pos + 1) => At(bytes, pos + 1) \in Nat
    BY DEF Has, At
  <1>2. Has(bytes, pos + 1) <=> pos \in 0 .. Len(bytes) - 2
    BY DEF Has
  <1>3. PayloadTag \notin StringTags
    BY DEF PayloadTag, StringTags
  <1> QED BY <1>1, <1>2, <1>3 DEF Tagged

\* What a reader with at most left records to go finds at pos.
Found(bytes, f, left, pos) ==
  /\ f[left][pos] = NotFound
       \/ \E n \in 1 .. left : \E at \in Chained(bytes, pos, n) :
            f[left][pos] = Ended(bytes, at[n])
  /\ \A n \in 1 .. left : \A at \in Chained(bytes, pos, n) :
       f[left][pos] = Ended(bytes, at[n])

\* A string leaves the rest to what follows it, a payload ends the records, and
\* there is nothing else.
LEMMA FoundMore ==
  ASSUME NEW bytes \in Seq(Nat), NEW f, NEW m \in Nat,
         ReadsRecords(bytes, f, m + 1), \A i \in Nat : Found(bytes, f, m, i),
         NEW pos \in Nat
  PROVE  Found(bytes, f, m + 1, pos)
  <1> DEFINE k == m + 1
             v == f[k][pos]
             next == pos + 2 + At(bytes, pos + 1)
  <1>1. v = ReadAt(bytes, f, k, pos) /\ k # 0 /\ k - 1 = m /\ k \in Nat
    BY DEF ReadsRecords
  <1>2. CASE pos \notin Tagged(bytes)
    <2>1. v = NotFound
      BY <1>1, <1>2, PlacesAre DEF ReadAt
    <2>2. ASSUME NEW n \in 1 .. k, NEW at \in Chained(bytes, pos, n) PROVE FALSE
      <3>1. at[1] = pos /\ at[1] \in Tagged(bytes)
        BY DEF Chained
      <3> QED BY <1>2, <3>1
    <2> HIDE DEF k
    <2>3. Found(bytes, f, k, pos)
      BY <2>1, <2>2 DEF Found
    <2> QED BY <2>3 DEF k
  <1>3. CASE pos \in Tagged(bytes) /\ At(bytes, pos) = PayloadTag
    <2>1. v = Ended(bytes, pos)
      BY <1>1, <1>3, PlacesAre DEF ReadAt, Ended
    <2>2. \E at \in Chained(bytes, pos, 1) : at[1] = pos
      BY ONLY <1>3, ChainOfOne
    <2>3. 1 \in 1 .. k
      OBVIOUS
    <2>4. ASSUME NEW n \in 1 .. k, NEW at \in Chained(bytes, pos, n)
          PROVE  at[n] = pos
      <3>1. CASE n = 1
        BY <3>1 DEF Chained
      <3>2. CASE n # 1
        <4> DEFINE l == n - 1
        <4>1. l \in Nat \ {0} /\ n = l + 1
          BY <3>2
        <4> HIDE DEF l
        <4>2. at \in Chained(bytes, pos, l + 1)
          BY <4>1
        <4>3. At(bytes, pos) \in StringTags
          BY <4>1, <4>2, ChainShrinks
        <4> QED BY <1>3, <4>3, PlacesAre
      <3> QED BY <3>1, <3>2
    <2> HIDE DEF k
    <2>5. \A n \in 1 .. k : \A at \in Chained(bytes, pos, n) : v = Ended(bytes, at[n])
      BY <2>1, <2>4
    <2>6. \E n \in 1 .. k : \E at \in Chained(bytes, pos, n) : v = Ended(bytes, at[n])
      BY <2>1, <2>2, <2>3
    <2>7. Found(bytes, f, k, pos)
      BY <2>5, <2>6 DEF Found
    <2> QED BY <2>7 DEF k
  <1>4. CASE pos \in Tagged(bytes) /\ At(bytes, pos) \in StringTags
    <2>1. v = f[m][next] /\ next \in Nat
      BY <1>1, <1>4, PlacesAre DEF ReadAt
    <2>2. Found(bytes, f, m, next)
      BY <2>1
    <2> HIDE DEF v, next
    <2>3. ASSUME NEW n \in 1 .. k, NEW at \in Chained(bytes, pos, n)
          PROVE  v = Ended(bytes, at[n])
      <3>1. CASE n = 1
        <4>1. at \in Chained(bytes, pos, 1)
          BY <3>1
        <4>2. At(bytes, pos) = PayloadTag
          BY <4>1, ChainOfOne
        <4> QED BY <1>4, <4>2, PlacesAre
      <3>2. CASE n # 1
        <4> DEFINE l == n - 1
        <4>1. l \in Nat \ {0} /\ n = l + 1 /\ l \in 1 .. m
          BY <3>2
        <4> HIDE DEF l
        <4>2. at \in Chained(bytes, pos, l + 1)
          BY <4>1
        <4>0. \E rest \in Chained(bytes, next, l) : rest[l] = at[l + 1]
          <5>1. l \in Nat \ {0}
            BY <4>1
          <5>2. \E rest \in Chained(bytes, pos + 2 + At(bytes, pos + 1), l) :
                  rest[l] = at[l + 1]
            BY ONLY <4>2, <5>1, bytes \in Seq(Nat), ChainShrinks, ZenonT(40)
          <5> QED BY ONLY <5>2 DEF next
        <4>3. PICK rest \in Chained(bytes, next, l) : rest[l] = at[l + 1]
          BY ONLY <4>0
        <4>4. f[m][next] = Ended(bytes, rest[l])
          BY ONLY <2>2, <4>1, <4>3 DEF Found
        <4> QED BY ONLY <2>1, <4>1, <4>3, <4>4
      <3> QED BY <3>1, <3>2
    <2>4. ASSUME NEW n \in 1 .. m, NEW at \in Chained(bytes, next, n),
                 f[m][next] = Ended(bytes, at[n])
          PROVE  \E l \in 1 .. k : \E more \in Chained(bytes, pos, l) :
                   v = Ended(bytes, more[l])
      <3>1. PICK more \in Chained(bytes, pos, n + 1) : more[n + 1] = at[n]
        <4>1. n \in Nat \ {0}
          OBVIOUS
        <4>2. at \in Chained(bytes, pos + 2 + At(bytes, pos + 1), n)
          BY DEF next
        <4>3. pos \in Tagged(bytes) /\ At(bytes, pos) \in StringTags
          BY <1>4
        <4> QED BY ONLY <4>1, <4>2, <4>3, bytes \in Seq(Nat), ChainGrows
      <3>2. n + 1 \in 1 .. k
        OBVIOUS
      <3> HIDE DEF k
      <3> QED BY <2>1, <2>4, <3>1, <3>2
    <2>5. \/ v = NotFound
          \/ \E n \in 1 .. k : \E at \in Chained(bytes, pos, n) :
               v = Ended(bytes, at[n])
      BY ONLY <2>1, <2>2, <2>4 DEF Found
    <2>6. v = f[k][pos]
      BY DEF v
    <2> HIDE DEF k
    <2>7. Found(bytes, f, k, pos)
      BY ONLY <2>3, <2>5, <2>6 DEF Found
    <2> QED BY <2>7 DEF k
  <1>5. pos \in Tagged(bytes) =>
          At(bytes, pos) \in StringTags \/ At(bytes, pos) = PayloadTag
    BY PlacesAre
  <1> QED BY <1>2, <1>3, <1>4, <1>5

LEMMA RecordFinds ==
  ASSUME NEW bytes \in Seq(Nat), NEW f, ReadsRecords(bytes, f, MaxRecords)
  PROVE  \A pos \in Nat : Found(bytes, f, MaxRecords, pos)
  <1> DEFINE Right == {left \in 0 .. MaxRecords :
                         \A pos \in Nat : Found(bytes, f, left, pos)}
  <1>1. MaxRecords \in Nat /\ 0 \in 0 .. MaxRecords
    BY SizesAssumption
  <1>2. 0 \in Right
    <2>1. ASSUME NEW pos \in Nat PROVE Found(bytes, f, 0, pos)
      <3>1. f[0][pos] = NotFound
        BY <1>1 DEF ReadsRecords, ReadAt
      <3>2. \A n \in 1 .. 0 : FALSE
        OBVIOUS
      <3> QED BY <3>1, <3>2 DEF Found
    <2> QED BY <1>1, <2>1
  <1>3. ASSUME NEW m \in 0 .. MaxRecords - 1, m \in Right PROVE m + 1 \in Right
    <2>1. m \in Nat /\ m + 1 \in 0 .. MaxRecords
      BY <1>1
    <2>2. ReadsRecords(bytes, f, m + 1)
      <3>1. \A left \in 0 .. m + 1 : left \in 0 .. MaxRecords
        BY <1>1
      <3> QED BY <3>1 DEF ReadsRecords
    <2>3. \A pos \in Nat : Found(bytes, f, m, pos)
      BY <1>3
    <2>4. \A pos \in Nat : Found(bytes, f, m + 1, pos)
      BY <2>1, <2>2, <2>3, FoundMore
    <2> QED BY <2>1, <2>4
  <1>4. \A left \in 0 .. MaxRecords : left \in Right
    <2>1. 0 \in Nat
      OBVIOUS
    <2> HIDE DEF Right
    <2> QED BY <1>1, <1>2, <1>3, <2>1, Induction
  <1> QED BY <1>1, <1>4

\* What is wrapped at a place of a file is what parse_xilinx_bit_at finds there.
LEMMA WrappedIsParsed ==
  ASSUME NEW bytes \in Seq(Nat), NEW base \in Nat
  PROVE  LET core == ParseBitAt(bytes, base)
         IN Wrapped(bytes, base) = IF core.ok THEN {core} ELSE {}
  <1> DEFINE core == ParseBitAt(bytes, base)
             marker == base + 1 + At(bytes, base)
             start == marker + 1
             Begun == /\ Has(bytes, base) /\ At(bytes, base) \in 1 .. MaxPreamble
                      /\ Has(bytes, marker) /\ At(bytes, marker) = Marker
  <1>1. ~ NotFound.ok
    BY DEF NotFound
  <1>2. CASE ~ Begun
    <2>1. core = NotFound /\ Wrapped(bytes, base) = {}
      BY <1>2 DEF ParseBitAt, Wrapped
    <2> QED BY <1>1, <2>1
  <1>3. CASE Begun
    <2>1. PICK f : ReadsRecords(bytes, f, MaxRecords) /\ Record(bytes) = f[MaxRecords]
      BY RecordReads
    <2>2. start \in Nat
      BY <1>3 DEF Has, At
    <2>3. core = f[MaxRecords][start]
      BY <1>3, <2>1 DEF ParseBitAt
    <2>4. Found(bytes, f, MaxRecords, start)
      BY <2>1, <2>2, RecordFinds
    <2>5. Wrapped(bytes, base) =
            UNION {{Ended(bytes, at[n]) : at \in Chained(bytes, start, n)} :
                     n \in 1 .. MaxRecords}
      BY <1>3 DEF Wrapped
    <2> HIDE DEF core, start
    <2>6. \A c \in Wrapped(bytes, base) : c = core
      BY ONLY <2>3, <2>4, <2>5 DEF Found
    <2>7. \/ core = NotFound
          \/ core \in Wrapped(bytes, base) /\ core.ok
      <3>1. \/ core = NotFound
            \/ \E n \in 1 .. MaxRecords : \E at \in Chained(bytes, start, n) :
                 core = Ended(bytes, at[n])
        BY ONLY <2>3, <2>4 DEF Found
      <3>2. ASSUME NEW n \in 1 .. MaxRecords,
                   NEW at \in Chained(bytes, start, n),
                   core = Ended(bytes, at[n])
            PROVE  core \in Wrapped(bytes, base) /\ core.ok
        <4>1. core.ok
          BY ONLY <3>2 DEF Ended
        <4>2. core \in Wrapped(bytes, base)
          BY ONLY <2>5, <3>2
        <4> QED BY <4>1, <4>2
      <3> QED BY <3>1, <3>2
    <2>8. \A c \in Wrapped(bytes, base) : c.ok
      BY ONLY <2>5 DEF Ended
    <2> QED BY <1>1, <2>6, <2>7, <2>8 DEF core
  <1> QED BY <1>2, <1>3

LEMMA ParseTyped ==
  ASSUME NEW bytes \in Seq(Nat), NEW base \in Nat
  PROVE  ParseBitAt(bytes, base) \in Cores
  <1> DEFINE after == base + 1 + At(bytes, base)
  <1>1. NotFound \in Cores
    BY DEF NotFound, Cores
  <1>2. Has(bytes, base) => after \in Nat
    BY DEF Has, At
  <1>3. \/ ParseBitAt(bytes, base) = NotFound
        \/ Has(bytes, base) /\ ParseBitAt(bytes, base) = Record(bytes)[after + 1]
    BY DEF ParseBitAt
  <1> HIDE DEF after
  <1>4. Has(bytes, base) => Record(bytes)[after + 1] \in Cores
    BY <1>2, RecordTyped
  <1> QED BY <1>1, <1>3, <1>4

\* The one core that is there, or none.
Same(cores, core) == cores = IF core.ok THEN {core} ELSE {}

\* A container without a wrapper in the usual place.
LEMMA SearchIsFound ==
  ASSUME NEW bytes \in Seq(Nat)
  PROVE  Same(FirstWrapped(bytes), SearchCor(bytes)) /\ SearchCor(bytes) \in Cores
  <1> DEFINE all == Occurrences(bytes)
             first == {p \in all : \A q \in all : p <= q}
             low == Least(all)
  <1>1. all \subseteq Nat
    BY SizesAssumption DEF Occurrences, SearchEnd
  <1>2. FindWrapper(bytes) = IF all = {} THEN -1 ELSE low
    BY WrapperIsFound
  <1>3. FirstWrapped(bytes) = UNION {Wrapped(bytes, pos) : pos \in first}
    BY DEF FirstWrapped
  <1>4. NotFound \in Cores /\ Same({}, NotFound)
    BY DEF NotFound, Cores, Same
  <1> HIDE DEF all
  <1>5. CASE all = {}
    <2>1. FirstWrapped(bytes) = {}
      BY <1>3, <1>5
    <2>2. SearchCor(bytes) = NotFound
      BY <1>2, <1>5 DEF SearchCor
    <2> QED BY <1>4, <2>1, <2>2
  <1>6. CASE all # {}
    <2>1. low \in all /\ \A q \in all : low <= q
      BY <1>1, <1>6, LeastIs
    <2> HIDE DEF low
    <2>2. low \in Nat /\ low # -1
      BY <1>1, <2>1
    <2>3. first = {low}
      <3>1. \A p \in first : p = low
        BY <1>1, <2>1
      <3> QED BY <2>1, <3>1
    <2> HIDE DEF first
    <2>4. FirstWrapped(bytes) = Wrapped(bytes, low)
      BY <1>3, <2>3
    <2>5. SearchCor(bytes) = ParseBitAt(bytes, low)
      BY <1>2, <1>6, <2>2 DEF SearchCor
    <2>6. Same(Wrapped(bytes, low), ParseBitAt(bytes, low))
      BY <2>2, WrappedIsParsed DEF Same
    <2>7. ParseBitAt(bytes, low) \in Cores
      BY <2>2, ParseTyped
    <2> QED BY <2>4, <2>5, <2>6, <2>7
  <1> QED BY <1>5, <1>6

LEMMA CorIsFound ==
  ASSUME NEW bytes \in Seq(Nat)
  PROVE  /\ Same(IF Wrapped(bytes, HeaderSize) # {} THEN Wrapped(bytes, HeaderSize)
                  ELSE FirstWrapped(bytes), ParseCor(bytes))
         /\ ParseCor(bytes) \in Cores
  <1> DEFINE usual == ParseBitAt(bytes, HeaderSize)
             behind == Wrapped(bytes, HeaderSize)
  <1>1. HeaderSize \in Nat
    BY SizesAssumption
  <1>2. Same(behind, usual) /\ usual \in Cores
    BY <1>1, WrappedIsParsed, ParseTyped DEF Same
  <1>3. ParseCor(bytes) = IF usual.ok THEN usual ELSE SearchCor(bytes)
    BY DEF ParseCor
  <1> HIDE DEF usual, behind
  <1>4. behind # {} <=> usual.ok
    BY <1>2 DEF Same
  <1>5. Same(IF behind # {} THEN behind ELSE FirstWrapped(bytes), ParseCor(bytes))
        /\ ParseCor(bytes) \in Cores
    BY <1>2, <1>3, <1>4, SearchIsFound
  <1> QED BY <1>5 DEF behind

\* The payload of a raw file.
RawCore(bytes) == [ok |-> TRUE, offset |-> MagicSize, length |-> bytes[2]]

\* The kinds of a file: at most one of them, and a read that is long enough.
LEMMA Kinds ==
  ASSUME NEW bytes \in Seq(Nat)
  PROVE  /\ IsRaw(bytes) => ~ IsCor(bytes) /\ ~ IsBit(bytes)
                              /\ bytes[2] \in Nat /\ MagicSize \in Nat
         /\ IsCor(bytes) => ~ IsRaw(bytes) /\ ~ IsBit(bytes)
         /\ IsBit(bytes) => ~ IsRaw(bytes) /\ ~ IsCor(bytes)
  <1>1. RawMagic # CorMagic
    BY DEF RawMagic, CorMagic
  <1>2. IsRaw(bytes) => bytes[2] \in Nat /\ MagicSize \in Nat
    BY SizesAssumption DEF IsRaw
  <1> QED BY <1>1, <1>2 DEF IsRaw, IsCor, IsBit

\* core_open finds the payload that the format of a file has, and finds none
\* in a file that has none, is shorter than its header, or whose wrapper has
\* too long a preamble, too many records or its signature behind the limit of
\* the search: for every file and whatever those sizes are.
THEOREM CoreIsFound ==
  ASSUME NEW bytes \in Seq(Nat)
  PROVE  CoresIn(bytes) = IF CoreOpen(bytes).ok THEN {CoreOpen(bytes)} ELSE {}
  <1>1. CASE IsRaw(bytes)
    <2>1. CoresIn(bytes) = {RawCore(bytes)} /\ CoreOpen(bytes) = RawCore(bytes)
      BY <1>1, Kinds DEF CoresIn, CoreOpen, RawCore
    <2> QED BY <2>1 DEF RawCore
  <1>2. CASE IsCor(bytes)
    <2>1. CoreOpen(bytes) = ParseCor(bytes)
      BY <1>2, Kinds DEF CoreOpen
    <2>2. CoresIn(bytes) =
            IF Wrapped(bytes, HeaderSize) # {} THEN Wrapped(bytes, HeaderSize)
            ELSE FirstWrapped(bytes)
      BY <1>2, Kinds DEF CoresIn
    <2> QED BY <2>1, <2>2, CorIsFound DEF Same
  <1>3. CASE IsBit(bytes)
    <2>1. CoresIn(bytes) = Wrapped(bytes, 0) /\ CoreOpen(bytes) = ParseBitAt(bytes, 0)
      BY <1>3, Kinds DEF CoresIn, CoreOpen
    <2> QED BY <2>1, WrappedIsParsed
  <1>4. CASE ~ IsRaw(bytes) /\ ~ IsCor(bytes) /\ ~ IsBit(bytes)
    <2>1. CoresIn(bytes) = {} /\ CoreOpen(bytes) = NotFound
      BY <1>4 DEF CoresIn, CoreOpen
    <2> QED BY <2>1 DEF NotFound
  <1> QED BY <1>1, <1>2, <1>3, <1>4

LEMMA CoreTyped ==
  ASSUME NEW bytes \in Seq(Nat)
  PROVE  CoreOpen(bytes) \in Cores
  <1>1. NotFound \in Cores
    BY DEF NotFound, Cores
  <1>2. ParseBitAt(bytes, 0) \in Cores
    BY ParseTyped
  <1>3. IsRaw(bytes) => RawCore(bytes) \in Cores
    BY Kinds DEF RawCore, Cores
  <1>4. \/ IsRaw(bytes) /\ CoreOpen(bytes) = RawCore(bytes)
        \/ CoreOpen(bytes) = ParseCor(bytes)
        \/ CoreOpen(bytes) = ParseBitAt(bytes, 0)
        \/ CoreOpen(bytes) = NotFound
    <2>1. CASE IsRaw(bytes)
      BY <2>1, Kinds DEF CoreOpen, RawCore
    <2>2. CASE IsCor(bytes)
      BY <2>2, Kinds DEF CoreOpen
    <2>3. CASE IsBit(bytes)
      BY <2>3, Kinds DEF CoreOpen
    <2>4. CASE ~ IsRaw(bytes) /\ ~ IsCor(bytes) /\ ~ IsBit(bytes)
      BY <2>4 DEF CoreOpen
    <2> QED BY <2>1, <2>2, <2>3, <2>4
  <1> QED BY <1>1, <1>2, <1>3, <1>4, CorIsFound

LEMMA PayloadTyped ==
  ASSUME NEW bytes \in Seq(Nat), NEW core,
         core.offset \in Nat, core.length \in Nat
  PROVE  Payload(bytes, core) \in Seq(Nat)
         /\ Len(Payload(bytes, core)) \in 0 .. core.length
  <1> DEFINE first == core.offset + 1
             end == core.offset + core.length
             final == IF end < Len(bytes) THEN end ELSE Len(bytes)
  <1>1. first \in Nat /\ final \in Nat /\ first >= 1 /\ final <= Len(bytes)
        /\ final - first + 1 <= core.length
    OBVIOUS
  <1>2. Payload(bytes, core) = SubSeq(bytes, first, final)
    BY DEF Payload
  <1> HIDE DEF first, final
  <1>3. CASE first <= final
    <2>1. SubSeq(bytes, first, final) \in Seq(Nat)
          /\ Len(SubSeq(bytes, first, final)) = final - first + 1
      BY <1>1, <1>3
    <2> QED BY <1>1, <1>2, <1>3, <2>1
  <1>4. CASE ~ first <= final
    <2>1. SubSeq(bytes, first, final) = <<>>
      BY <1>1, <1>4
    <2> QED BY <1>2, <2>1
  <1> QED BY <1>3, <1>4

\* The bytes that are read, and zeros for those that are not.
Padded(got, len) == got \o [i \in 1 .. len - Len(got) |-> 0]

LEMMA PaddedIs ==
  ASSUME NEW got \in Seq(Nat), NEW len \in Nat, Len(got) <= len
  PROVE  /\ Padded(got, len) \in Seq(Nat) /\ Len(Padded(got, len)) = len
         /\ Len(got) = len => Padded(got, len) = got
  <1> DEFINE n == len - Len(got)
             zeros == [i \in 1 .. n |-> 0]
  <1>1. n \in Nat
    OBVIOUS
  <1>2. zeros \in Seq(Nat) /\ Len(zeros) = n
    <2> HIDE DEF n
    <2> QED BY <1>1
  <1>3. Padded(got, len) = got \o zeros
    BY DEF Padded
  <1> HIDE DEF zeros
  <1>4. Padded(got, len) \in Seq(Nat) /\ Len(Padded(got, len)) = len
    BY <1>1, <1>2, <1>3
  <1>5. ASSUME Len(got) = len PROVE Padded(got, len) = got
    <2>1. zeros = <<>>
      BY <1>2, <1>5
    <2> QED BY <1>3, <2>1
  <1> QED BY <1>4, <1>5

\* What is read of a payload is all of it when the file has it all.
LEMMA PayloadIsWhole ==
  ASSUME NEW bytes \in Seq(Nat), NEW core,
         core.offset \in Nat, core.length \in Nat \ {0}
  PROVE  LET got == Payload(bytes, core)
             end == core.offset + core.length
         IN /\ Len(got) = core.length <=> end <= Len(bytes)
            /\ end <= Len(bytes) => got = SubSeq(bytes, core.offset + 1, end)
  <1> DEFINE first == core.offset + 1
             end == core.offset + core.length
             final == IF end < Len(bytes) THEN end ELSE Len(bytes)
             got == Payload(bytes, core)
  <1>1. /\ first \in Nat /\ end \in Nat /\ final \in Nat /\ Len(bytes) \in Nat
        /\ first >= 1 /\ final <= Len(bytes) /\ end = first + core.length - 1
        /\ core.length \in Nat \ {0}
    <2>1. /\ first \in Nat /\ end \in Nat /\ Len(bytes) \in Nat
          /\ first >= 1 /\ end = first + core.length - 1
      OBVIOUS
    <2> HIDE DEF first, end
    <2> QED BY <2>1
  <1>2. got = SubSeq(bytes, first, final)
    BY DEF Payload
  <1>3. CASE end <= Len(bytes)
    <2>1. final = end
      <3> HIDE DEF end
      <3> QED BY <1>1, <1>3
    <2> HIDE DEF first, end, final, got
    <2>2. Len(SubSeq(bytes, first, end)) = end - first + 1
      BY <1>1, <1>3
    <2>3. end - first + 1 = core.length
      BY <1>1
    <2> QED BY <1>2, <1>3, <2>1, <2>2, <2>3 DEF first, end, got
  <1>4. CASE ~ end <= Len(bytes)
    <2>1. final = Len(bytes) /\ final < end
      BY <1>4
    <2>2. first <= final =>
            Len(SubSeq(bytes, first, final)) = final - first + 1
      BY <1>1
    <2>3. ~ first <= final => Len(SubSeq(bytes, first, final)) = 0
      BY <1>1
    <2> HIDE DEF first, end, final, got
    <2>4. Len(got) # core.length
      BY <1>1, <1>2, <2>1, <2>2, <2>3
    <2> QED BY <1>4, <2>4 DEF end, got
  <1> QED BY <1>3, <1>4

\* Of a core that is found, what is read when that is all of it.
LEMMA WholeIs ==
  ASSUME NEW bytes \in Seq(Nat), NEW core \in Cores, NEW cores, Same(cores, core)
  PROVE  LET got == Payload(bytes, core)
         IN Whole(bytes, cores) =
              IF core.ok /\ core.length # 0 /\ Len(got) = core.length THEN {got}
              ELSE {}
  <1> DEFINE got == Payload(bytes, core)
             Fits(c) == c.length # 0 /\ c.offset + c.length <= Len(bytes)
             whole == Whole(bytes, cores)
  <1>1. cores = IF core.ok THEN {core} ELSE {}
    BY DEF Same
  <1>2. core.offset \in Nat /\ core.length \in Nat
    BY DEF Cores
  <1>3. whole = {SubSeq(bytes, c.offset + 1, c.offset + c.length) :
                   c \in {d \in cores : Fits(d)}}
    BY DEF Whole
  <1> HIDE DEF whole
  <1>4. CASE core.ok /\ Fits(core)
    <2>1. Len(got) = core.length
          /\ got = SubSeq(bytes, core.offset + 1, core.offset + core.length)
      BY <1>2, <1>4, PayloadIsWhole
    <2>2. whole = {got}
      <3>1. {d \in cores : Fits(d)} = {core}
        BY <1>1, <1>4
      <3> HIDE DEF got, Fits
      <3> QED BY <1>3, <2>1, <3>1
    <2> HIDE DEF got
    <2> QED BY <1>4, <2>1, <2>2 DEF got, whole
  <1>5. CASE ~ (core.ok /\ Fits(core))
    <2>1. whole = {}
      <3>1. {d \in cores : Fits(d)} = {}
        BY <1>1, <1>5
      <3> QED BY <1>3, <3>1
    <2>2. ~ (core.ok /\ core.length # 0 /\ Len(got) = core.length)
      BY <1>2, <1>5, PayloadIsWhole
    <2> HIDE DEF got
    <2> QED BY <2>1, <2>2 DEF got, whole
  <1> QED BY <1>4, <1>5

\* The files hold what the port finds in them.
LEMMA FilesAreTrue ==
  ASSUME NEW file \in Files
  PROVE  LET core == CoreOpen(file.bytes)
             got == Payload(file.bytes, core)
         IN IF core.ok /\ core.length # 0 /\ Len(got) = core.length
              THEN file.payload = got /\ file.payload # None
              ELSE file.payload = None
  <1> DEFINE bytes == file.bytes
             core == CoreOpen(bytes)
             got == Payload(bytes, core)
             whole == WholePayloads(bytes)
  <1>1. bytes \in Seq(Nat)
    BY PortAssumption
  <1>2. IF whole = {} THEN file.payload = None
        ELSE file.payload \in whole /\ file.payload # None
    BY FilesAssumption
  <1>3. Same(CoresIn(bytes), core) /\ core \in Cores
    BY <1>1, CoreIsFound, CoreTyped DEF Same
  <1>4. whole = Whole(bytes, CoresIn(bytes))
    BY DEF WholePayloads
  <1> HIDE DEF bytes, whole, core
  <1>5. whole = IF core.ok /\ core.length # 0 /\ Len(got) = core.length THEN {got}
                ELSE {}
    BY <1>1, <1>3, <1>4, WholeIs
  <1> HIDE DEF got
  <1>6. IF core.ok /\ core.length # 0 /\ Len(got) = core.length
          THEN file.payload = got /\ file.payload # None
          ELSE file.payload = None
    BY <1>2, <1>5
  <1> QED BY <1>6 DEF got, core, bytes

\* What is loaded of a file is one of the payloads, also when it was misread.
LEMMA ReadIsPayload ==
  ASSUME NEW file \in Files,
         NEW core \in Misread(file.bytes) \cup {CoreOpen(file.bytes)}
  PROVE  /\ core \in Cores
         /\ core.ok /\ core.length # 0
              /\ Len(Payload(file.bytes, core)) = core.length =>
                Payload(file.bytes, core) \in Payloads
  <1> DEFINE bytes == file.bytes
             got == Payload(bytes, core)
  <1>1. bytes \in Seq(Nat)
    BY PortAssumption
  <1>2. CASE core = CoreOpen(bytes)
    <2>1. core \in Cores
      BY <1>1, <1>2, CoreTyped
    <2>2. core.ok /\ core.length # 0 /\ Len(got) = core.length =>
            file.payload = got /\ file.payload # None
      BY <1>2, FilesAreTrue
    <2> HIDE DEF got
    <2>3. file.payload = got /\ file.payload # None => got \in Payloads
      BY DEF Payloads, FilePayloads
    <2> QED BY <2>1, <2>2, <2>3 DEF got
  <1>3. CASE core = NotFound
    BY <1>3 DEF NotFound, Cores
  <1>4. CASE IsCor(bytes) /\ core = SearchCor(bytes)
    <2>1. Same(FirstWrapped(bytes), core) /\ core \in Cores
      BY <1>1, <1>4, SearchIsFound
    <2>2. Mistakable(bytes) = Whole(bytes, FirstWrapped(bytes))
      BY <1>4 DEF Mistakable
    <2>3. Whole(bytes, FirstWrapped(bytes)) =
            IF core.ok /\ core.length # 0 /\ Len(got) = core.length THEN {got}
            ELSE {}
      BY <1>1, <2>1, WholeIs
    <2> HIDE DEF got
    <2>4. core.ok /\ core.length # 0 /\ Len(got) = core.length =>
            got \in Mistakable(bytes)
      BY <2>2, <2>3
    <2>5. Mistakable(bytes) \subseteq Payloads
      BY DEF Payloads
    <2> QED BY <2>1, <2>4, <2>5 DEF got
  <1> QED BY <1>2, <1>3, <1>4 DEF Misread

\* What a command tells of a file it has read without a failure.
Outcome(file, failed, how) ==
  loaded' = IF failed THEN NothingLoaded ELSE [file |-> file, how |-> how]

LEMMA OutcomeIs ==
  ASSUME NEW file \in Files, NEW failed \in BOOLEAN,
         NEW how \in {"sound", "refused"}, Outcome(file, failed, how)
  PROVE  /\ loaded' \in LoadedType
         /\ loaded'.how # "none" => loaded'.file = file /\ ~ failed
         /\ loaded'.how \in {"none", how}
  <1>1. CASE failed
    <2>1. loaded' = NothingLoaded
      BY <1>1 DEF Outcome
    <2> QED BY <2>1, NothingIsTyped DEF NothingLoaded
  <1>2. CASE ~ failed
    <2>1. loaded' = [file |-> file, how |-> how]
      BY <1>2 DEF Outcome
    <2> QED BY <1>2, <2>1 DEF LoadedType
  <1> QED BY <1>1, <1>2

\* What Program does with the core that it found.
Tried(file, failed, core) ==
  LET got == Payload(file.bytes, core)
      len == core.length
      pay == Padded(got, len)
  IN \/ ~ core.ok /\ UNCHANGED <<port, wr, held, alone, told>>
           /\ Outcome(file, failed, "refused")
     \/ core.ok /\ len = 0 /\ Uses(Look(ReadIdcode))
           /\ Outcome(file, failed, "refused")
     \/ core.ok /\ len # 0 /\ Uses(Look(ReadIdcode) \o Refused)
           /\ loaded' = NothingLoaded
     \/ core.ok /\ len # 0 /\ Len(got) = len /\ Shifts(pay, len)
           /\ Outcome(file, failed, "sound")
     \/ core.ok /\ (\E n \in 0 .. Len(got) : n < len /\ Shifts(pay, n))
           /\ loaded' = NothingLoaded

LEMMA ProgramEffect ==
  ASSUME PortInv, NEW file \in Files, Program(file)
  PROVE  /\ Lent \/ UNCHANGED <<port, wr, held, alone, told>>
         /\ loaded' \in LoadedType
         /\ loaded'.how # "none" => loaded'.file = file
         /\ port'.fpga.design \in Designs \cup {None, port.fpga.design}
         /\ loaded'.how = "sound" => port'.fpga.design = Bits(file.payload)
         /\ loaded'.how = "refused" => file.payload = None
  <1>0. PICK failed \in BOOLEAN :
          \E core \in IF failed THEN Misread(file.bytes)
                     ELSE {CoreOpen(file.bytes)} : Tried(file, failed, core)
    BY DEF Program, Padded, Outcome, Tried
  <1>1. PICK core \in (IF failed THEN Misread(file.bytes)
                      ELSE {CoreOpen(file.bytes)}) : Tried(file, failed, core)
    BY <1>0
  <1> DEFINE got == Payload(file.bytes, core)
             len == core.length
             pay == Padded(got, len)
  <1>2. /\ core \in Cores
        /\ core.ok /\ len # 0 /\ Len(got) = len => got \in Payloads
    <2>1. core \in Misread(file.bytes) \cup {CoreOpen(file.bytes)}
      OBVIOUS
    <2> QED BY <2>1, ReadIsPayload
  <1>3. /\ len \in Nat /\ got \in Seq(Nat) /\ Len(got) \in 0 .. len
        /\ pay \in Seq(Nat) /\ Len(pay) = len
        /\ Len(got) = len => pay = got
    <2>1. core.offset \in Nat /\ core.length \in Nat
      BY <1>2 DEF Cores
    <2>2. file.bytes \in Seq(Nat)
      BY PortAssumption
    <2>3. got \in Seq(Nat) /\ Len(got) \in 0 .. len
      BY <2>1, <2>2, PayloadTyped
    <2> HIDE DEF got
    <2>4. Len(got) <= len
      BY <2>1, <2>3
    <2> QED BY <2>1, <2>3, <2>4, PaddedIs
  <1>4. ~ failed =>
          IF core.ok /\ len # 0 /\ Len(got) = len
            THEN file.payload = got /\ file.payload # None
            ELSE file.payload = None
    <2>1. ~ failed => core = CoreOpen(file.bytes)
      OBVIOUS
    <2> QED BY <2>1, FilesAreTrue
  <1> HIDE DEF got, len, pay
  <1>5. CASE ~ core.ok /\ UNCHANGED <<port, wr, held, alone, told>>
             /\ Outcome(file, failed, "refused")
    <2>1. /\ loaded' \in LoadedType
          /\ loaded'.how # "none" => loaded'.file = file /\ ~ failed
          /\ loaded'.how \in {"none", "refused"}
      BY <1>5, OutcomeIs
    <2> QED BY <1>4, <1>5, <2>1
  <1>6. CASE core.ok /\ len = 0 /\ Uses(Look(ReadIdcode))
             /\ Outcome(file, failed, "refused")
    <2>1. Lent /\ port'.fpga.design = port.fpga.design
      BY <1>6, LookEffect
    <2>2. /\ loaded' \in LoadedType
          /\ loaded'.how # "none" => loaded'.file = file /\ ~ failed
          /\ loaded'.how \in {"none", "refused"}
      BY <1>6, OutcomeIs
    <2> QED BY <1>4, <1>6, <2>1, <2>2
  <1>7. CASE core.ok /\ len # 0 /\ Uses(Look(ReadIdcode) \o Refused)
             /\ loaded' = NothingLoaded
    <2> DEFINE first == Look(ReadIdcode)
               a == Ran(Call, port, first)
               r == Ran(Call, a, first)
    <2>1. Rested(a, port) /\ first \in Calls
      BY Looks DEF PortInv
    <2>2. Ready(a)
      BY <2>1, RestedIsReady
    <2> HIDE DEF a
    <2>3. Rested(r, a)
      BY <2>2, Looks
    <2> HIDE DEF first
    <2>4. port' = r
      <3>1. port' = After(port, first \o first)
        BY <1>7 DEF Uses, Refused, first
      <3>2. After(port, first \o first) = Ran(Call, port, Joined(first, first))
        BY AfterIs DEF Joined
      <3>3. Ran(Call, port, Joined(first, first)) = r
        BY <2>1, CallsTwo DEF a
      <3> QED BY <3>1, <3>2, <3>3
    <2> HIDE DEF r
    <2>5. Lent /\ port'.fpga.design = port.fpga.design
      BY <1>7, <2>1, <2>3, <2>4 DEF Rested, Lent, Uses
    <2> QED BY <1>7, <2>5, NothingIsTyped DEF NothingLoaded
  <1>8. CASE core.ok /\ len # 0 /\ Len(got) = len /\ Shifts(pay, len)
             /\ Outcome(file, failed, "sound")
    <2>1. /\ pay \in Seq(Nat) /\ Len(pay) # 0 /\ len \in 0 .. Len(pay)
          /\ Len(pay) = len /\ pay = got
      BY <1>3, <1>8
    <2>2. /\ Lent
          /\ len = Len(pay) /\ Len(pay) <= MaxBytes =>
               port'.fpga.design = Bits(pay)
      BY <1>8, <2>1, ShiftsEffect
    <2>3. got \in Payloads
      BY <1>2, <1>8
    <2>4. Len(pay) <= MaxBytes
      BY <2>1, <2>3, PortAssumption
    <2>5. port'.fpga.design = Bits(got) /\ Bits(got) \in Designs
      BY <2>1, <2>2, <2>3, <2>4 DEF Designs
    <2>6. ~ failed => file.payload = got
      BY <1>4, <1>8
    <2>7. /\ loaded' \in LoadedType
          /\ loaded'.how # "none" => loaded'.file = file /\ ~ failed
          /\ loaded'.how \in {"none", "sound"}
      BY <1>8, OutcomeIs
    <2> QED BY <2>2, <2>5, <2>6, <2>7
  <1>9. CASE core.ok /\ (\E n \in 0 .. Len(got) : n < len /\ Shifts(pay, n))
             /\ loaded' = NothingLoaded
    <2>1. PICK n \in 0 .. Len(got) : n < len /\ Shifts(pay, n)
      BY <1>9
    <2>2. len \in Nat /\ n \in Nat /\ n < len
      <3>1. len \in Nat /\ Len(got) \in 0 .. len
        BY <1>3
      <3>2. Len(got) \in Nat
        BY <3>1
      <3>3. n \in Nat
        BY <3>2
      <3> QED BY <2>1, <3>1, <3>3
    <2>3. len # 0 /\ n \in 0 .. len
      BY <2>2
    <2>4. pay \in Seq(Nat) /\ Len(pay) = len
      BY <1>3
    <2>5. Lent /\ port'.fpga.design = None
      BY <2>1, <2>2, <2>3, <2>4, ShiftsEffect
    <2> QED BY <1>9, <2>5, NothingIsTyped DEF NothingLoaded
  <1> QED BY <1>1, <1>5, <1>6, <1>7, <1>8, <1>9 DEF Tried, got, len, pay

-----------------------------------------------------------------------------
(* The steps.                                                              *)

LEMMA InitHolds ==
  ASSUME Init
  PROVE  PortInv
  <1>1. IDCODE \in 0 .. 63
    BY Instructions
  <1>2. port \in Ports
    <2>1. [tap |-> "reset", ir |-> IDCODE, sr |-> 0, clear |-> FALSE,
           cfg |-> <<>>, design |-> Before] \in
            [tap : DOMAIN Tap, ir : 0 .. 63, sr : 0 .. 63, clear : BOOLEAN,
             cfg : Seq(Int), design : {Before, None} \cup Seq(Int)]
      <3>1. "reset" \in DOMAIN Tap
        BY DEF Tap
      <3>2. <<>> \in Seq(Int) /\ 0 \in 0 .. 63
        OBVIOUS
      <3> QED BY <1>1, <3>1, <3>2
    <2> QED BY <2>1 DEF Init, Ports
  <1>3. TypeOK
    BY <1>2 DEF Init, TypeOK, NothingLoaded
  <1>4. SwitchGivenBack /\ AloneAtRest
    BY DEF Init, SwitchGivenBack, AloneAtRest
  <1>5. Undisturbed /\ Disturbed /\ Taken /\ Unfinished
    BY DEF Init, NoWriter, Undisturbed, Disturbed, Taken, Unfinished
  <1>6. Ready(port)
    BY <1>2, Instructions DEF Init, Ready
  <1> QED BY <1>3, <1>4, <1>5, <1>6 DEF PortInv

\* The port is at rest, with no stream: what a stream's end leaves.
Freed ==
  /\ Ready(port') /\ ~ port'.hijack
  /\ wr' = NoWriter /\ alone' = TRUE /\ held' = FALSE
  /\ told' \in BOOLEAN /\ loaded' = NothingLoaded

LEMMA FreedKeeps ==
  ASSUME Freed
  PROVE  PortInv'
  <1>1. ~ NoWriter.active
    BY DEF NoWriter
  <1>2. TypeOK'
    BY NothingIsTyped DEF TypeOK, Freed, LoadedType, Ready
  <1>3. SwitchGivenBack' /\ Disturbed' /\ Taken' /\ AloneAtRest'
    BY DEF SwitchGivenBack, Disturbed, Taken, AloneAtRest, Freed
  <1>4. Undisturbed' /\ Unfinished'
    BY <1>1 DEF Undisturbed, Unfinished, Freed
  <1>5. Ready(port)'
    BY DEF Freed, Ready
  <1> QED BY <1>2, <1>3, <1>4, <1>5 DEF PortInv

LEMMA RestedIsFree ==
  ASSUME NEW p, Rested(port', p), wr' = NoWriter, alone' = TRUE, held' = FALSE,
         told' \in BOOLEAN, loaded' = NothingLoaded
  PROVE  Freed
  BY RestedIsReady DEF Freed, Rested

LEMMA ReturnedIsFree ==
  ASSUME NEW p, Returned(port', p), Ready(p),
         wr' = NoWriter, alone' = TRUE, held' = FALSE,
         told' \in BOOLEAN, loaded' = NothingLoaded
  PROVE  Freed
  <1>1. Ready(port')
    BY Instructions DEF Returned, Ready
  <1> QED BY <1>1 DEF Freed, Returned

\* A stream that nobody has disturbed goes on.
GoesOn ==
  /\ wr' \in [active : {TRUE}, pay : Streams, done : Nat]
  /\ wr'.done < Len(wr'.pay)
  /\ Loading(port', port') /\ port'.fpga.clear /\ port'.fpga.design = None
  /\ Holds(port'.fpga.cfg, wr'.pay, wr'.done * ByteBits)
  /\ alone' = TRUE /\ held' = FALSE
  /\ told' \in BOOLEAN /\ loaded' = NothingLoaded

LEMMA GoesOnKeeps ==
  ASSUME GoesOn
  PROVE  PortInv'
  <1>1. wr'.active
    BY DEF GoesOn
  <1>2. Ready(port') /\ port' \in Ports
    BY LoadingIsReady DEF GoesOn, Ready
  <1>3. TypeOK'
    BY <1>2, NothingIsTyped DEF TypeOK, GoesOn, LoadedType
  <1>4. SwitchGivenBack' /\ Disturbed' /\ Taken' /\ AloneAtRest'
    BY <1>1 DEF SwitchGivenBack, Disturbed, Taken, AloneAtRest, GoesOn
  <1>5. Undisturbed' /\ Unfinished'
    BY DEF Undisturbed, Unfinished, GoesOn, Loading, Reached
  <1>6. Ready(port)'
    BY <1>2 DEF Ready
  <1> QED BY <1>3, <1>4, <1>5, <1>6 DEF PortInv

LEMMA HttpBeginEffect ==
  ASSUME PortInv, HttpBegin
  PROVE  /\ PortInv' /\ ~ wr.active /\ alone' = TRUE /\ held' = FALSE
         /\ \/ /\ wr'.active /\ wr'.pay \in Streams
               /\ port'.fpga.design = None /\ told' = FALSE
            \/ UNCHANGED <<wr, told>> /\ port'.fpga.design = port.fpga.design
  <1>1. /\ ~ wr.active
        /\ held' = FALSE /\ alone' = TRUE /\ loaded' = NothingLoaded
        /\ \/ \E pay \in Streams :
                /\ wr' = [active |-> TRUE, pay |-> pay, done |-> 0]
                /\ port' = After(port, WriterBegin)
                /\ told' = FALSE
           \/ port' = After(port, Refused) /\ UNCHANGED <<wr, told>>
    BY DEF HttpBegin
  <1>2. Ready(port)
    BY DEF PortInv
  <1>3. ASSUME NEW pay \in Streams, port' = After(port, WriterBegin),
               wr' = [active |-> TRUE, pay |-> pay, done |-> 0], told' = FALSE
        PROVE  PortInv' /\ port'.fpga.design = None
    <2> DEFINE r == Ran(Call, port, WriterBegin)
    <2>1. port' = r
      BY <1>3, AfterIs
    <2>2. /\ Loading(r, r) /\ r.fpga.clear /\ r.fpga.design = None
          /\ r.fpga.cfg = <<>>
      BY <1>2, Begins
    <2> HIDE DEF r
    <2>3. Holds(<<>>, pay, 0)
      BY DEF Holds
    <2>4. 0 * ByteBits = 0
      BY PortAssumption
    <2>5. 0 < Len(pay)
      BY PortAssumption DEF Payloads
    <2>6. GoesOn
      BY <1>1, <1>3, <2>1, <2>2, <2>3, <2>4, <2>5 DEF GoesOn
    <2> QED BY <2>1, <2>2, <2>6, GoesOnKeeps
  <1>4. ASSUME port' = After(port, Refused), UNCHANGED <<wr, told>>
        PROVE  PortInv' /\ port'.fpga.design = port.fpga.design
    <2> DEFINE r == Ran(Call, port, Look(ReadIdcode))
    <2>1. port' = r
      BY <1>4, AfterIs DEF Refused
    <2>2. Rested(r, port)
      BY <1>2, Looks
    <2> HIDE DEF r
    <2>3. alone' = ~ wr.active
      BY <1>1
    <2>4. Lent
      BY <1>1, <1>4, <2>1, <2>2, <2>3 DEF Lent, Rested
    <2>5. loaded' \in LoadedType
      BY <1>1, NothingIsTyped
    <2> QED BY <2>1, <2>2, <2>4, <2>5, LentKeeps DEF Rested
  <1>5. CASE \E pay \in Streams :
               /\ wr' = [active |-> TRUE, pay |-> pay, done |-> 0]
               /\ port' = After(port, WriterBegin)
               /\ told' = FALSE
    <2>1. PICK pay \in Streams :
            /\ wr' = [active |-> TRUE, pay |-> pay, done |-> 0]
            /\ port' = After(port, WriterBegin)
            /\ told' = FALSE
      BY <1>5
    <2>2. PortInv' /\ port'.fpga.design = None
      BY <1>3, <2>1
    <2>3. wr'.active /\ wr'.pay \in Streams
      BY <2>1
    <2> QED BY <1>1, <2>1, <2>2, <2>3
  <1>6. CASE port' = After(port, Refused) /\ UNCHANGED <<wr, told>>
    BY <1>1, <1>4, <1>6
  <1> QED BY <1>1, <1>5, <1>6

LEMMA HijackEffect ==
  ASSUME PortInv, NEW on \in BOOLEAN, Hijack(on)
  PROVE  /\ PortInv' /\ alone' = ~ wr.active /\ held' \in BOOLEAN
         /\ UNCHANGED <<wr, told>> /\ port'.fpga = port.fpga
  <1>1. /\ port' = After(port, <<IF on THEN Claim ELSE Release>>)
        /\ held' = on /\ loaded' = NothingLoaded
        /\ wr' = wr /\ alone' = ~ wr.active /\ told' = told
    BY DEF Hijack
  <1>2. /\ port \in Ports /\ Ready(port)
        /\ (wr = NoWriter \/ wr \in [active : {TRUE}, pay : Streams, done : Nat])
        /\ told \in BOOLEAN /\ Unfinished
    BY <1>1 DEF PortInv, TypeOK
  <1>3. port' = Applied(Call, port, IF on THEN Claim ELSE Release)
    BY <1>1, AfterIs, RanOne
  <1>4. /\ port' \in Ports /\ port'.fpga = port.fpga
        /\ on => port'.hijack /\ port'.tms = 1
        /\ ~ on => ~ port'.hijack
    <2>1. CASE on
      BY <1>2, <1>3, <2>1, CallsClaim
    <2>2. CASE ~ on
      BY <1>2, <1>3, <2>2, CallsRelease
    <2> QED BY <2>1, <2>2
  <1>5. TypeOK'
    <2>1. alone' \in BOOLEAN
      BY <1>1
    <2> QED BY <1>1, <1>2, <1>4, <2>1, NothingIsTyped DEF TypeOK, LoadedType
  <1>6. SwitchGivenBack' /\ Disturbed' /\ Taken'
    BY <1>1, <1>4 DEF SwitchGivenBack, Disturbed, Taken
  <1>7. Undisturbed' /\ Unfinished' /\ AloneAtRest'
    BY <1>1, <1>2 DEF Undisturbed, Unfinished, AloneAtRest
  <1>8. Ready(port)'
    BY <1>2, <1>4 DEF Ready
  <1> QED BY <1>1, <1>4, <1>5, <1>6, <1>7, <1>8 DEF PortInv

LEMMA OneMore ==
  ASSUME NEW pay, NEW d, NEW w, w = [active |-> TRUE, pay |-> pay, done |-> d],
         NEW v, v = [w EXCEPT !.done = @ + 1]
  PROVE  v = [active |-> TRUE, pay |-> pay, done |-> d + 1]
  OBVIOUS

\* A byte of a stream that nobody disturbed.
LEMMA ByteAlone ==
  ASSUME PortInv, HttpByte, alone
  PROVE  /\ PortInv'
         /\ IsLast(wr) => port'.fpga.design = Bits(wr.pay)
         /\ ~ IsLast(wr) => port'.fpga.design = port.fpga.design
  <1> DEFINE pay == wr.pay
             d == wr.done
             last == IsLast(wr)
             written == WriterWrite(pay[d + 1], last)
             q == Applied(Call, port, written)
  <1>1. /\ wr.active /\ loaded' = NothingLoaded
        /\ last => /\ port' = After(port, <<written>> \o WriterFinish)
                   /\ wr' = NoWriter /\ alone' = TRUE /\ held' = FALSE
                   /\ told' = TRUE
        /\ ~ last => /\ port' = After(port, <<written>>)
                     /\ wr' = [wr EXCEPT !.done = @ + 1]
                     /\ held' = held /\ alone' = alone /\ told' = told
    BY DEF HttpByte
  <1>2. /\ wr = [active |-> TRUE, pay |-> pay, done |-> d]
        /\ pay \in Streams /\ pay \in Seq(Nat) /\ Len(pay) \in 1 .. MaxBytes
        /\ d \in 0 .. Len(pay) - 1
    BY <1>1, Streaming
  <1>3. /\ last \in BOOLEAN
        /\ last <=> d + 1 = Len(pay)
    BY DEF IsLast
  <1>4. /\ port \in Ports /\ Loading(port, port) /\ port.fpga.clear
        /\ port.fpga.design = None /\ Holds(port.fpga.cfg, pay, d * ByteBits)
        /\ held = FALSE /\ told \in BOOLEAN /\ alone = TRUE
    BY <1>1, LoadingIsReady DEF PortInv, TypeOK, Undisturbed, Taken
  <1>5. Keeps(port, port, pay, d)
    <2>1. Len(pay) <= MaxBytes
      BY <1>2
    <2> QED BY <1>4, <2>1 DEF Keeps
  <1>6. pay[d + 1] \in Nat
    BY <1>2
  <1>7. written \in Seq(Pins)
    BY <1>3, <1>6, ByteTicks
  <1>8. /\ last => Reached(q, "exit1Dr", CFG_IN, port)
        /\ ~ last => Loading(q, port)
        /\ Holds(q.fpga.cfg, pay, (d + 1) * ByteBits)
    BY <1>2, <1>3, <1>4, <1>5, CallsByte
  <1> HIDE DEF last, written, q
  <1>9. Ran(Call, port, <<written>>) = q
    BY RanOne DEF q
  <1>10. CASE last
    <2> DEFINE r == Ran(Call, q, WriterFinish)
    <2>1. Reached(q, "exit1Dr", CFG_IN, q) /\ q.fpga.clear
      BY <1>4, <1>8, <1>10 DEF Reached
    <2>2. Rested(r, r) /\ r.fpga.design = q.fpga.cfg
      BY <2>1, Finishes
    <2>3. q.fpga.cfg = Bits(pay)
      <3>1. d + 1 = Len(pay)
        BY <1>3, <1>10
      <3>2. Holds(q.fpga.cfg, pay, Len(pay) * ByteBits)
        BY <1>8, <3>1
      <3> HIDE DEF pay
      <3> QED BY <1>2, <3>2, HoldsAll
    <2>4. port' = r
      <3>1. port' = After(port, <<written>> \o WriterFinish)
        BY <1>1, <1>10
      <3>2. After(port, <<written>> \o WriterFinish) =
              Ran(Call, port, Joined(<<written>>, WriterFinish))
        BY AfterIs DEF Joined
      <3>3. <<written>> \in Calls /\ WriterFinish \in Calls
        BY <1>7, Functions DEF Calls
      <3>4. Ran(Call, port, Joined(<<written>>, WriterFinish)) = r
        BY <1>9, <3>3, CallsTwo
      <3> QED BY <3>1, <3>2, <3>4
    <2> HIDE DEF r
    <2>5. Freed
      BY <1>1, <1>10, <2>2, <2>4, RestedIsFree
    <2>6. PortInv'
      BY <2>5, FreedKeeps
    <2> QED BY <1>10, <2>2, <2>3, <2>4, <2>6 DEF last
  <1>11. CASE ~ last
    <2>1. port' = q
      BY <1>1, <1>9, <1>11, AfterIs
    <2>2. Loading(q, q) /\ q.fpga.clear /\ q.fpga.design = None
      BY <1>4, <1>8, <1>11 DEF Loading, Reached
    <2>3. wr' = [active |-> TRUE, pay |-> pay, done |-> d + 1]
      <3>1. wr' = [wr EXCEPT !.done = @ + 1]
        BY <1>1, <1>11
      <3>2. wr = [active |-> TRUE, pay |-> pay, done |-> d]
        BY <1>2
      <3> HIDE DEF pay, d
      <3> QED BY <3>1, <3>2, OneMore
    <2>4. d + 1 \in Nat /\ d + 1 < Len(pay)
      BY <1>2, <1>3, <1>11
    <2>5. /\ wr' \in [active : {TRUE}, pay : Streams, done : Nat]
          /\ wr'.pay = pay /\ wr'.done = d + 1
      BY <1>2, <2>3, <2>4
    <2> HIDE DEF pay, d
    <2>6. GoesOn
      BY <1>1, <1>4, <1>8, <1>11, <2>1, <2>2, <2>4, <2>5 DEF GoesOn
    <2>7. PortInv'
      BY <2>6, GoesOnKeeps
    <2> QED BY <1>4, <1>11, <2>1, <2>2, <2>7 DEF last
  <1> QED BY <1>10, <1>11

\* Bytes that go by while TMS is high.
LEMMA ByteStill ==
  ASSUME NEW p, Ready(p), p.hijack, p.tms = 1, NEW b \in Nat, NEW last \in BOOLEAN
  PROVE  LET r == Applied(Call, p, WriterWrite(b, last))
         IN Still(r, p) /\ r.tms = 1
  <1> DEFINE h == WriterWrite(b, last)
             n == ByteBits
             S == {r \in Ports : Still(r, p) /\ r.tms = 1}
  <1>1. /\ h \in Seq(Pins) /\ Len(h) = n /\ n \in Nat
        /\ \A i \in 1 .. n : /\ h[i] \in Pins /\ h[i].tms = 1
                             /\ h[i].pins \in {"tick", "payload"}
    BY ByteTicks
  <1>2. p \in Ports /\ p \in S
    BY DEF Ready, Still
  <1> HIDE DEF h, n
  <1>3. ASSUME NEW q \in S, NEW i \in 1 .. n PROVE Applied(Step, q, h[i]) \in S
    <2>1. Still(q, p) /\ q.tms = 1
      OBVIOUS
    <2>2. h[i] \in Pins /\ h[i].pins \in {"tick", "payload"} /\ h[i].tms = 1
      BY <1>1
    <2>3. 1 = IF h[i].pins = "payload" THEN q.tms ELSE h[i].tms
      BY <2>1, <2>2
    <2>4. Still(Applied(Step, q, h[i]), p) /\ Applied(Step, q, h[i]).tms = 1
      BY <2>1, <2>2, <2>3, StaysStill
    <2> QED BY <2>4 DEF Still, Ready
  <1> HIDE DEF S
  <1>4. Ran(Step, p, h) \in S
    BY <1>1, <1>2, <1>3, RanStays
  <1>5. Applied(Call, p, h) = Ran(Step, p, h)
    BY <1>1, <1>2, CallIs
  <1> QED BY <1>4, <1>5 DEF S, h

\* A byte of a stream that was disturbed: the FPGA does not see it, or the
\* operator has the port and sees to it that TMS is high.
LEMMA ByteDisturbed ==
  ASSUME PortInv, HttpByte, ~ alone
  PROVE  /\ PortInv'
         /\ ~ held \/ ~ IsLast(wr) => port'.fpga.design = port.fpga.design
  <1> DEFINE pay == wr.pay
             d == wr.done
             last == IsLast(wr)
             written == WriterWrite(pay[d + 1], last)
  <1>1. /\ wr.active /\ loaded' = NothingLoaded
        /\ last => /\ port' = After(port, <<written>> \o WriterFinish)
                   /\ wr' = NoWriter /\ alone' = TRUE /\ held' = FALSE
                   /\ told' = TRUE
        /\ ~ last => /\ port' = After(port, <<written>>)
                     /\ wr' = [wr EXCEPT !.done = @ + 1]
                     /\ held' = held /\ alone' = alone /\ told' = told
    BY DEF HttpByte
  <1>2. /\ wr = [active |-> TRUE, pay |-> pay, done |-> d]
        /\ pay \in Streams /\ pay \in Seq(Nat) /\ Len(pay) \in 1 .. MaxBytes
        /\ d \in 0 .. Len(pay) - 1
    BY <1>1, Streaming
  <1>3. /\ last \in BOOLEAN
        /\ last <=> d + 1 = Len(pay)
    BY DEF IsLast
  <1>4. /\ port \in Ports /\ Ready(port)
        /\ port.hijack => held
        /\ held => port.hijack /\ port.tms = 1
        /\ held \in BOOLEAN /\ told \in BOOLEAN /\ alone = FALSE
    BY <1>1 DEF PortInv, TypeOK, Disturbed, Taken
  <1>5. pay[d + 1] \in Nat
    BY <1>2
  <1>6. written \in Tame
    BY <1>3, <1>5, TameByte
  <1> DEFINE q == Applied(Call, port, written)
  <1>7. held => Still(q, port) /\ q.tms = 1
    BY <1>3, <1>4, <1>5, ByteStill
  <1> HIDE DEF last, written
  <1>8. Kept(q, port) /\ Ran(Call, port, <<written>>) = q
    <2>1. Kept(port, port)
      BY <1>4 DEF Kept
    <2> QED BY <1>4, <1>6, <2>1, RanOne DEF Tame
  <1> HIDE DEF q
  <1>9. CASE last
    <2> DEFINE r == Ran(Call, q, WriterFinish)
    <2>1. Returned(r, port)
      BY <1>4, <1>8, FinishReturns
    <2>2. port' = r
      <3>1. port' = After(port, <<written>> \o WriterFinish)
        BY <1>1, <1>9
      <3>2. After(port, <<written>> \o WriterFinish) =
              Ran(Call, port, Joined(<<written>>, WriterFinish))
        BY AfterIs DEF Joined
      <3>3. <<written>> \in Calls /\ WriterFinish \in Calls
        BY <1>6, Functions DEF Calls, Tame
      <3>4. Ran(Call, port, Joined(<<written>>, WriterFinish)) = r
        BY <1>8, <3>3, CallsTwo
      <3> QED BY <3>1, <3>2, <3>4
    <2> HIDE DEF r
    <2>3. Freed
      BY <1>1, <1>4, <1>9, <2>1, <2>2, ReturnedIsFree
    <2>4. ~ held => port'.fpga.design = port.fpga.design
      BY <1>4, <2>1, <2>2 DEF Returned
    <2>5. PortInv'
      BY <2>3, FreedKeeps
    <2> QED BY <1>9, <2>4, <2>5 DEF last
  <1>10. CASE ~ last
    <2>1. wr' = [active |-> TRUE, pay |-> pay, done |-> d + 1]
      <3>1. wr' = [wr EXCEPT !.done = @ + 1]
        BY <1>1, <1>10
      <3>2. wr = [active |-> TRUE, pay |-> pay, done |-> d]
        BY <1>2
      <3> HIDE DEF pay, d
      <3> QED BY <3>1, <3>2, OneMore
    <2>2. d + 1 \in Nat /\ d + 1 < Len(pay)
      BY <1>2, <1>3, <1>10
    <2>3. /\ wr' \in [active : {TRUE}, pay : Streams, done : Nat]
          /\ wr'.active /\ wr'.pay = pay /\ wr'.done = d + 1
      BY <1>2, <2>1, <2>2
    <2> HIDE DEF pay, d
    <2>4. /\ port' = q /\ q \in Ports /\ Ready(q)
          /\ q.hijack <=> held
          /\ held => q.tms = 1
          /\ q.fpga.design = port.fpga.design
      <3>1. port' = q
        BY <1>1, <1>8, <1>10, AfterIs
      <3>2. CASE held
        BY <1>7, <3>1, <3>2 DEF Still, Ready
      <3>3. CASE ~ held
        BY <1>4, <1>8, <3>1, <3>3 DEF Kept, Ready
      <3> QED BY <1>4, <3>2, <3>3
    <2>5. /\ held' = held /\ told' = told /\ alone' = FALSE
          /\ loaded' = NothingLoaded
      BY <1>1, <1>4, <1>10
    <2>6. TypeOK'
      BY <1>4, <2>3, <2>4, <2>5, NothingIsTyped DEF TypeOK, LoadedType
    <2>7. SwitchGivenBack' /\ Disturbed' /\ Undisturbed' /\ Taken'
      BY <2>3, <2>4, <2>5 DEF SwitchGivenBack, Disturbed, Undisturbed, Taken
    <2>8. Unfinished' /\ AloneAtRest' /\ Ready(port)'
      BY <2>2, <2>3, <2>4 DEF Unfinished, AloneAtRest, Ready
    <2> QED BY <2>4, <2>6, <2>7, <2>8 DEF PortInv
  <1> QED BY <1>9, <1>10

LEMMA HttpDropEffect ==
  ASSUME PortInv, HttpDrop
  PROVE  PortInv' /\ port'.fpga.design = port.fpga.design
  <1>1. /\ wr.active /\ port' = After(port, WriterAbort)
        /\ wr' = NoWriter /\ alone' = TRUE /\ held' = FALSE
        /\ loaded' = NothingLoaded /\ told' = told
    BY DEF HttpDrop
  <1>2. port' = Ran(Call, port, WriterAbort)
    BY <1>1, AfterIs
  <1>3. port \in Ports /\ told \in BOOLEAN /\ alone \in BOOLEAN
    BY DEF PortInv, TypeOK
  <1>4. CASE port.hijack
    <2>1. Rested(port', port)
      BY <1>2, <1>4, Aborts DEF PortInv
    <2>2. Freed
      BY <1>1, <1>3, <2>1, RestedIsFree
    <2> QED BY <2>1, <2>2, FreedKeeps DEF Rested
  <1>5. CASE ~ port.hijack
    <2>1. Returned(port', port)
      BY <1>2, <1>3, <1>5, AbortReturns
    <2>2. Freed
      BY <1>1, <1>3, <2>1, ReturnedIsFree DEF PortInv
    <2> QED BY <1>5, <2>1, <2>2, FreedKeeps DEF Returned
  <1> QED BY <1>4, <1>5

\* Every step keeps the invariant.
LEMMA StepKeeps ==
  ASSUME PortInv, [Next]_vars
  PROVE  PortInv'
  <1>1. CASE HttpBegin
    BY <1>1, HttpBeginEffect
  <1>2. CASE HttpByte
    BY <1>2, ByteAlone, ByteDisturbed
  <1>3. CASE HttpDrop
    BY <1>3, HttpDropEffect
  <1>4. CASE JtagId
    <2>1. Uses(Look(ReadIdcode)) /\ loaded' = NothingLoaded
      BY <1>4 DEF JtagId
    <2> QED BY <2>1, LookEffect, LentKeeps, NothingIsTyped
  <1>5. CASE XilinxStatus
    <2>1. Uses(Look(ReadStatus)) /\ loaded' = NothingLoaded
      BY <1>5 DEF XilinxStatus
    <2> QED BY <2>1, LookEffect, LentKeeps, NothingIsTyped
  <1>6. CASE StreamProgram
    BY <1>6, StreamProgramEffect, LentKeeps, NothingIsTyped
  <1>7. ASSUME NEW on \in BOOLEAN, Hijack(on) PROVE PortInv'
    BY <1>7, HijackEffect
  <1>8. ASSUME NEW file \in Files, Program(file) PROVE PortInv'
    <2>1. /\ Lent \/ UNCHANGED <<port, wr, held, alone, told>>
          /\ loaded' \in LoadedType
      BY <1>8, ProgramEffect
    <2>2. CASE Lent
      BY <2>1, <2>2, LentKeeps
    <2>3. CASE UNCHANGED <<port, wr, held, alone, told>>
      <3>1. /\ port' = port /\ wr' = wr /\ held' = held /\ alone' = alone
            /\ told' = told
        BY <2>3
      <3>2. TypeOK'
        BY <2>1, <3>1 DEF PortInv, TypeOK, LoadedType
      <3>3. SwitchGivenBack' /\ Disturbed' /\ Taken' /\ AloneAtRest'
        BY <3>1 DEF PortInv, SwitchGivenBack, Disturbed, Taken, AloneAtRest
      <3>4. Undisturbed' /\ Unfinished' /\ Ready(port)'
        BY <3>1 DEF PortInv, Undisturbed, Unfinished
      <3> QED BY <3>2, <3>3, <3>4 DEF PortInv
    <2> QED BY <2>1, <2>2, <2>3
  <1>9. CASE UNCHANGED vars
    <2>1. /\ port' = port /\ wr' = wr /\ held' = held /\ alone' = alone
          /\ told' = told /\ loaded' = loaded
      BY <1>9 DEF vars
    <2>2. TypeOK'
      BY <2>1 DEF PortInv, TypeOK
    <2>3. SwitchGivenBack' /\ Disturbed' /\ Taken' /\ AloneAtRest'
      BY <2>1 DEF PortInv, SwitchGivenBack, Disturbed, Taken, AloneAtRest
    <2>4. Undisturbed' /\ Unfinished' /\ Ready(port)'
      BY <2>1 DEF PortInv, Undisturbed, Unfinished
    <2> QED BY <2>2, <2>3, <2>4 DEF PortInv
  <1> QED BY <1>1, <1>2, <1>3, <1>4, <1>5, <1>6, <1>7, <1>8, <1>9 DEF Next

THEOREM PortInvHolds == Spec => []PortInv
  BY InitHolds, StepKeeps, PTL DEF Spec

\* The variables of the port are what their comments say: jtag_gpio.c,
\* http_conn.jtag and the commands that use the port.
THEOREM TypeCorrect == Spec => []TypeOK
  <1>1. PortInv => TypeOK
    BY DEF PortInv
  <1> QED BY <1>1, PortInvHolds, PTL

\* Whichever way a load ends, and whoever came between, the connector has its
\* JTAG pins back: jtag_program_writer_finish, _abort and the readers.
THEOREM SwitchIsGivenBack == Spec => []SwitchGivenBack
  <1>1. PortInv => SwitchGivenBack
    BY DEF PortInv
  <1> QED BY <1>1, PortInvHolds, PTL

\* A core file that is whole is loaded whole, so that the FPGA runs the payload
\* it was built around, and it is not refused: core_open, cmd_program.
THEOREM FilesAreLoaded == Spec => []LoadsThePayload
  <1>1. ASSUME loaded = NothingLoaded PROVE LoadsThePayload
    BY <1>1 DEF NothingLoaded, LoadsThePayload
  <1>2. Init => LoadsThePayload
    BY <1>1 DEF Init
  <1>3. ASSUME PortInv, LoadsThePayload, [Next]_vars
        PROVE  LoadsThePayload'
    <2>1. ASSUME loaded' = NothingLoaded PROVE LoadsThePayload'
      BY <2>1 DEF NothingLoaded, LoadsThePayload
    <2>2. CASE UNCHANGED vars
      BY <1>3, <2>2 DEF vars, LoadsThePayload
    <2>3. ASSUME NEW file \in Files, Program(file) PROVE LoadsThePayload'
      <3>1. /\ loaded'.how # "none" => loaded'.file = file
            /\ loaded'.how = "sound" => port'.fpga.design = Bits(file.payload)
            /\ loaded'.how = "refused" => file.payload = None
        BY <1>3, <2>3, ProgramEffect
      <3> QED BY <3>1 DEF LoadsThePayload
    <2>4. CASE HttpBegin \/ HttpByte \/ HttpDrop
      BY <2>1, <2>4 DEF HttpBegin, HttpByte, HttpDrop
    <2>5. CASE JtagId \/ XilinxStatus \/ StreamProgram
      BY <2>1, <2>5 DEF JtagId, XilinxStatus, StreamProgram
    <2>6. ASSUME NEW on \in BOOLEAN, Hijack(on) PROVE LoadsThePayload'
      BY <2>1, <2>6 DEF Hijack
    <2> QED BY <1>3, <2>2, <2>3, <2>4, <2>5, <2>6 DEF Next
  <1> QED BY <1>2, <1>3, PortInvHolds, PTL DEF Spec

-----------------------------------------------------------------------------
(* The port implements Programming.                                        *)

\* The design that is being streamed.
Stream == IF wr.active THEN Bits(wr.pay) ELSE None

LEMMA StreamIsDesign ==
  ASSUME PortInv, wr.active
  PROVE  Stream \in Designs /\ Stream # None
  <1>1. wr.pay \in Streams
    BY Streaming
  <1>2. Bits(wr.pay) \in Designs
    BY <1>1 DEF Designs, Payloads
  <1> QED BY <1>2, NoneAssumption DEF Stream

\* A command that keeps the stream, or that finds none.
LEMMA AloneIsShown ==
  ASSUME PortInv, wr' = wr, alone' = ~ wr.active
  PROVE  Stream' = Stream /\ alone' = (Stream = None)
  <1>1. Stream' = Stream
    BY DEF Stream
  <1>2. alone' = (Stream = None)
    <2>1. wr.active => Stream # None
      BY StreamIsDesign
    <2>2. ~ wr.active => Stream = None
      BY DEF Stream
    <2>3. wr.active \in BOOLEAN
      <3>1. wr = NoWriter \/ wr \in [active : {TRUE}, pay : Streams, done : Nat]
        BY DEF PortInv, TypeOK
      <3>2. NoWriter.active = FALSE
        BY DEF NoWriter
      <3>3. wr \in [active : {TRUE}, pay : Streams, done : Nat] =>
              wr.active = TRUE
        OBVIOUS
      <3> QED BY <3>1, <3>2, <3>3
    <2> QED BY <2>1, <2>2, <2>3
  <1> QED BY <1>1, <1>2

LEMMA ShownAsConsole ==
  ASSUME PortInv, wr' = wr, told' = told, alone' = ~ wr.active, held' = FALSE,
         port'.fpga.design \in Designs \cup {None, port.fpga.design}
  PROVE  Abstract!Console
  <1>1. Stream' = Stream /\ alone' = (Stream = None)
    BY AloneIsShown
  <1> QED BY <1>1 DEF Abstract!Console, Stream

LEMMA ShownAsNothing ==
  ASSUME port'.fpga.design = port.fpga.design, Stream' = Stream,
         alone' = alone, held' = held, told' = told
  PROVE  UNCHANGED Abstract!vars
  BY DEF Abstract!vars, Stream

LEMMA BeginShown ==
  ASSUME PortInv, HttpBegin
  PROVE  Abstract!Begin \/ Abstract!Console
  <1>1. /\ PortInv' /\ ~ wr.active /\ alone' = TRUE /\ held' = FALSE
        /\ \/ /\ wr'.active /\ wr'.pay \in Streams
              /\ port'.fpga.design = None /\ told' = FALSE
           \/ UNCHANGED <<wr, told>> /\ port'.fpga.design = port.fpga.design
    BY HttpBeginEffect
  <1>2. CASE /\ wr'.active /\ wr'.pay \in Streams
             /\ port'.fpga.design = None /\ told' = FALSE
    <2>1. Stream = None
      BY <1>1 DEF Stream
    <2>2. Stream' = Bits(wr'.pay)
      BY <1>2 DEF Stream
    <2>3. Bits(wr'.pay) \in Designs
      BY <1>2 DEF Designs, Payloads
    <2>4. Abstract!Begin
      BY <1>1, <1>2, <2>1, <2>2, <2>3 DEF Abstract!Begin, Stream
    <2> QED BY <2>4
  <1>3. CASE UNCHANGED <<wr, told>> /\ port'.fpga.design = port.fpga.design
    <2>1. alone' = ~ wr.active
      BY <1>1
    <2> QED BY <1>1, <1>3, <2>1, ShownAsConsole
  <1> QED BY <1>1, <1>2, <1>3

LEMMA ByteShown ==
  ASSUME PortInv, HttpByte
  PROVE  Abstract!End \/ UNCHANGED Abstract!vars
  <1>1. /\ wr.active
        /\ IsLast(wr) => /\ wr' = NoWriter /\ alone' = TRUE /\ told' = TRUE
                         /\ held' = FALSE
        /\ ~ IsLast(wr) => /\ wr' = [wr EXCEPT !.done = @ + 1]
                           /\ alone' = alone /\ held' = held /\ told' = told
    BY DEF HttpByte
  <1>2. Stream # None /\ Stream = Bits(wr.pay)
    BY <1>1, StreamIsDesign DEF Stream
  <1>3. CASE IsLast(wr)
    <2>1. Stream' = None
      BY <1>1, <1>3 DEF Stream, NoWriter
    <2>2. /\ alone => port'.fpga.design = Stream
          /\ ~ alone /\ ~ held => port'.fpga.design = port.fpga.design
      <3>1. CASE alone
        BY <1>2, <1>3, <3>1, ByteAlone
      <3>2. CASE ~ alone
        BY <3>2, ByteDisturbed
      <3> QED BY <3>1, <3>2
    <2> QED BY <1>1, <1>2, <1>3, <2>1, <2>2 DEF Abstract!End, Stream
  <1>4. CASE ~ IsLast(wr)
    <2>1. port'.fpga.design = port.fpga.design
      <3>1. CASE alone
        BY <1>4, <3>1, ByteAlone
      <3>2. CASE ~ alone
        BY <1>4, <3>2, ByteDisturbed
      <3> QED BY <3>1, <3>2
    <2>2. wr'.active = wr.active /\ wr'.pay = wr.pay
      <3>1. wr = [active |-> TRUE, pay |-> wr.pay, done |-> wr.done]
        BY <1>1, Streaming
      <3>2. wr' = [active |-> TRUE, pay |-> wr.pay, done |-> wr.done + 1]
        BY <1>1, <1>4, <3>1, OneMore
      <3> QED BY <1>1, <3>1, <3>2
    <2>3. Stream' = Stream
      BY <2>2 DEF Stream
    <2> QED BY <1>1, <1>4, <2>1, <2>3, ShownAsNothing
  <1> QED BY <1>3, <1>4

LEMMA DropShown ==
  ASSUME PortInv, HttpDrop
  PROVE  Abstract!Abandon
  <1>1. /\ wr.active /\ wr' = NoWriter /\ alone' = TRUE /\ held' = FALSE
        /\ told' = told
    BY DEF HttpDrop
  <1>2. Stream # None
    BY <1>1, StreamIsDesign
  <1>3. Stream' = None
    BY <1>1 DEF Stream, NoWriter
  <1>4. port'.fpga.design = port.fpga.design
    BY HttpDropEffect
  <1> QED BY <1>1, <1>2, <1>3, <1>4 DEF Abstract!Abandon, Stream

LEMMA StepShown ==
  ASSUME PortInv, [Next]_vars
  PROVE  [Abstract!Next]_(Abstract!vars)
  <1>1. CASE HttpBegin
    BY <1>1, BeginShown DEF Abstract!Next
  <1>2. CASE HttpByte
    BY <1>2, ByteShown DEF Abstract!Next
  <1>3. CASE HttpDrop
    BY <1>3, DropShown DEF Abstract!Next
  <1>4. ASSUME Lent, port'.fpga.design \in Designs \cup {None, port.fpga.design}
        PROVE  Abstract!Console
    BY <1>4, ShownAsConsole DEF Lent
  <1>5. CASE JtagId
    <2>1. Uses(Look(ReadIdcode))
      BY <1>5 DEF JtagId
    <2> QED BY <1>4, <2>1, LookEffect DEF Abstract!Next
  <1>6. CASE XilinxStatus
    <2>1. Uses(Look(ReadStatus))
      BY <1>6 DEF XilinxStatus
    <2> QED BY <1>4, <2>1, LookEffect DEF Abstract!Next
  <1>7. CASE StreamProgram
    BY <1>4, <1>7, StreamProgramEffect DEF Abstract!Next
  <1>8. ASSUME NEW on \in BOOLEAN, Hijack(on)
        PROVE  Abstract!Switch
    <2>1. /\ alone' = ~ wr.active /\ held' \in BOOLEAN
          /\ wr' = wr /\ told' = told /\ port'.fpga = port.fpga
      BY <1>8, HijackEffect
    <2>2. Stream' = Stream /\ alone' = (Stream = None)
      BY <2>1, AloneIsShown
    <2> QED BY <2>1, <2>2 DEF Abstract!Switch, Stream
  <1>9. ASSUME NEW file \in Files, Program(file)
        PROVE  Abstract!Console \/ UNCHANGED Abstract!vars
    <2>1. /\ Lent \/ UNCHANGED <<port, wr, held, alone, told>>
          /\ port'.fpga.design \in Designs \cup {None, port.fpga.design}
      BY <1>9, ProgramEffect
    <2>2. CASE Lent
      BY <1>4, <2>1, <2>2
    <2>3. CASE UNCHANGED <<port, wr, held, alone, told>>
      BY <2>3, ShownAsNothing DEF Stream
    <2> QED BY <2>1, <2>2, <2>3
  <1>10. CASE UNCHANGED vars
    BY <1>10, ShownAsNothing DEF vars, Stream
  <1> QED BY <1>1, <1>2, <1>3, <1>5, <1>6, <1>7, <1>8, <1>9, <1>10
          DEF Next, Abstract!Next

\* The port keeps the promise of Programming: what the FPGA is configured with
\* is one whole payload or nothing, also when console commands come between
\* the pieces of a web stream, AT+HIJACK among them, unless the operator keeps
\* the port until the stream ends; and a client whose stream nobody disturbed
\* is told that it is done only when the FPGA runs what it sent.
THEOREM PortImplements == Spec => Implements
  <1>1. Init => Abstract!Init
    BY DEF Init, Abstract!Init, NoWriter
  <1>2. ASSUME PortInv, [Next]_vars PROVE [Abstract!Next]_(Abstract!vars)
    BY <1>2, StepShown
  <1> QED BY <1>1, <1>2, PortInvHolds, PTL DEF Spec, Implements, Abstract!Spec

=============================================================================
