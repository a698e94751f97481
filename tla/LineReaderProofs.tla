-------------------------- MODULE LineReaderProofs --------------------------
(***************************************************************************)
(* The lines and the data of the two ports, for every length of a line, of *)
(* the data and of what waits.                                             *)
(***************************************************************************)
EXTENDS LineReader, WellFoundedInduction, TLAPS

-----------------------------------------------------------------------------
(* Lines as sequences.                                                     *)

\* A set of numbers with first and, with each number below final, the next one
\* has them all.
LEMMA Induction ==
  ASSUME NEW S, NEW first \in Nat, NEW final \in Nat, first \in S,
         \A k \in first .. final - 1 : k \in S => k + 1 \in S
  PROVE  \A k \in first .. final : k \in S
  <1> DEFINE Missed == {k \in first .. final : k \notin S}
  <1>1. ASSUME Missed # {} PROVE FALSE
    <2>1. Missed \in SUBSET Nat
      OBVIOUS
    <2>2. \E i \in Missed : \A j \in Missed : <<j, i>> \notin OpToRel(<, Nat)
      BY <1>1, <2>1, NatLessThanWellFounded, WFMin
    <2>3. \A i, j \in Nat : <<j, i>> \notin OpToRel(<, Nat) => i <= j
      BY DEF OpToRel
    <2>4. PICK i \in Missed : \A j \in Missed : i <= j
      BY <2>1, <2>2, <2>3
    <2>5. i - 1 \in first .. final - 1 /\ i - 1 \notin Missed
      BY <2>1, <2>4
    <2> QED BY <2>5
  <1> QED BY <1>1

\* A suffix, by its elements.
LEMMA SuffixByElements ==
  ASSUME NEW s \in Seq(Chars), NEW t \in Seq(Chars)
  PROVE  IsSuffix(s, t) <=>
           /\ Len(s) <= Len(t)
           /\ \A i \in 1 .. Len(s) : s[i] = t[Len(t) - Len(s) + i]
  <1> DEFINE rs == Reverse(s)
             rt == Reverse(t)
  <1>1. /\ rs \in Seq(Chars) /\ Len(rs) = Len(s)
        /\ rt \in Seq(Chars) /\ Len(rt) = Len(t)
        /\ \A i \in 1 .. Len(s) : rs[i] = s[Len(s) - i + 1]
        /\ \A i \in 1 .. Len(t) : rt[i] = t[Len(t) - i + 1]
    BY DEF Reverse
  <1> HIDE DEF rs, rt
  <1>2. IsPrefix(rs, rt) <=>
          /\ Len(s) <= Len(t) /\ \A i \in 1 .. Len(s) : rs[i] = rt[i]
    <2>1. SubSeq(rs, 1, Len(rs)) = rs
      BY <1>1
    <2>2. ASSUME Len(s) <= Len(t)
          PROVE  /\ SubSeq(rt, 1, Len(rs)) \in Seq(Chars)
                 /\ Len(SubSeq(rt, 1, Len(rs))) = Len(s)
                 /\ \A i \in 1 .. Len(s) : SubSeq(rt, 1, Len(rs))[i] = rt[i]
      BY <1>1, <2>2
    <2> QED BY <1>1, <2>1, <2>2 DEF IsPrefix
  <1>3. ASSUME Len(s) <= Len(t)
        PROVE  (\A i \in 1 .. Len(s) : rs[i] = rt[i]) <=>
                 \A i \in 1 .. Len(s) : s[i] = t[Len(t) - Len(s) + i]
    <2>1. ASSUME \A i \in 1 .. Len(s) : rs[i] = rt[i], NEW i \in 1 .. Len(s)
          PROVE  s[i] = t[Len(t) - Len(s) + i]
      <3> DEFINE j == Len(s) - i + 1
      <3>1. /\ j \in 1 .. Len(s) /\ j \in 1 .. Len(t)
            /\ Len(s) - j + 1 = i /\ Len(t) - j + 1 = Len(t) - Len(s) + i
        BY <1>3
      <3> HIDE DEF j
      <3>2. rs[j] = s[i] /\ rt[j] = t[Len(t) - Len(s) + i]
        BY <1>1, <3>1
      <3> QED BY <2>1, <3>1, <3>2
    <2>2. ASSUME \A i \in 1 .. Len(s) : s[i] = t[Len(t) - Len(s) + i],
                 NEW i \in 1 .. Len(s)
          PROVE  rs[i] = rt[i]
      <3>1. Len(s) - i + 1 \in 1 .. Len(s)
        OBVIOUS
      <3>2. s[Len(s) - i + 1] = t[Len(t) - Len(s) + (Len(s) - i + 1)]
        BY <2>2, <3>1
      <3>3. Len(t) - Len(s) + (Len(s) - i + 1) = Len(t) - i + 1 /\ i \in 1 .. Len(t)
        BY <1>3
      <3> QED BY <1>1, <3>2, <3>3
    <2> QED BY <2>1, <2>2
  <1> QED BY <1>2, <1>3 DEF IsSuffix, rs, rt

\* The empty line is a suffix of every line, and a line of itself.
LEMMA EmptyIsLine == <<>> \in Seq(Chars) /\ Len(<<>>) = 0
  OBVIOUS

LEMMA TrivialSuffixes ==
  ASSUME NEW l \in Seq(Chars)
  PROVE  IsSuffix(<<>>, l) /\ IsSuffix(l, l)
  <1>1. IsSuffix(l, l)
    <2>1. \A i \in 1 .. Len(l) : Len(l) - Len(l) + i = i
      OBVIOUS
    <2>2. \A i \in 1 .. Len(l) : l[i] = l[Len(l) - Len(l) + i]
      BY <2>1
    <2> QED BY <2>2, SuffixByElements
  <1>2. ASSUME NEW e \in Seq(Chars), Len(e) = 0 PROVE IsSuffix(e, l)
    <2>1. Len(e) <= Len(l) /\ 1 .. Len(e) = {}
      BY <1>2
    <2>2. \A i \in 1 .. Len(e) : e[i] = l[Len(l) - Len(e) + i]
      BY <2>1
    <2> QED BY <2>1, <2>2, SuffixByElements
  <1> QED BY <1>1, <1>2, EmptyIsLine

\* Lines with the same characters are the same.
LEMMA SameElements ==
  ASSUME NEW s \in Seq(Chars), NEW t \in Seq(Chars), Len(s) = Len(t),
         \A i \in 1 .. Len(s) : s[i] = t[i]
  PROVE  s = t
  <1>1. /\ s = [i \in 1 .. Len(s) |-> s[i]]
        /\ t = [i \in 1 .. Len(t) |-> t[i]]
    OBVIOUS
  <1> QED BY <1>1

\* All of a line but its last character.
LEMMA FrontElements ==
  ASSUME NEW l \in Seq(Chars), Len(l) > 0
  PROVE  /\ Front(l) \in Seq(Chars) /\ Len(Front(l)) = Len(l) - 1
         /\ \A i \in 1 .. Len(l) - 1 : Front(l)[i] = l[i]
  <1> DEFINE n == Len(l) - 1
  <1>1. n \in Nat /\ n <= Len(l) /\ Front(l) = SubSeq(l, 1, n)
    BY DEF Front
  <1> HIDE DEF n
  <1>2. \A i \in 1 .. n : l[i] \in Chars
    BY <1>1
  <1>3. SubSeq(l, 1, n) \in Seq(Chars) /\ Len(SubSeq(l, 1, n)) = n
    BY <1>1, <1>2
  <1>4. \A i \in 1 .. n : SubSeq(l, 1, n)[i] = l[i]
    BY <1>1
  <1> QED BY <1>1, <1>3, <1>4 DEF n

\* Typing a character keeps a line a suffix of another.
LEMMA EditedIsLine ==
  ASSUME NEW l \in Seq(Chars), NEW ch \in Chars
  PROVE  Edited(l, ch) \in Seq(Chars)
  BY DEF Edited, Front

LEMMA EditedSuffix ==
  ASSUME NEW l \in Seq(Chars), NEW m \in Seq(Chars), IsSuffix(l, m),
         NEW ch \in Chars
  PROVE  IsSuffix(Edited(l, ch), Edited(m, ch))
  <1>1. /\ Len(l) <= Len(m)
        /\ \A i \in 1 .. Len(l) : l[i] = m[Len(m) - Len(l) + i]
    BY SuffixByElements
  <1>2. CASE ch \in Ends
    <2>1. Edited(l, ch) = l /\ Edited(m, ch) = m
      BY <1>2 DEF Edited, Ends
    <2> QED BY <2>1
  <1>3. CASE ch = "kill"
    <2>1. Edited(l, ch) = <<>> /\ Edited(m, ch) = <<>>
      BY <1>3 DEF Edited, Ends
    <2>2. IsSuffix(<<>>, <<>>)
      BY TrivialSuffixes, EmptyIsLine
    <2> QED BY <2>1, <2>2
  <1>4. CASE ch = "back"
    <2>1. /\ Edited(l, ch) = IF l = <<>> THEN l ELSE Front(l)
          /\ Edited(m, ch) = IF m = <<>> THEN m ELSE Front(m)
      BY <1>4 DEF Edited, Ends
    <2>2. CASE l = <<>>
      <3>1. Edited(m, ch) \in Seq(Chars)
        BY EditedIsLine
      <3> QED BY <2>1, <2>2, <3>1, TrivialSuffixes
    <2>3. CASE l # <<>>
      <3>1. Len(l) > 0 /\ Len(m) > 0 /\ m # <<>>
        BY <1>1, <2>3
      <3>2. /\ Front(l) \in Seq(Chars) /\ Len(Front(l)) = Len(l) - 1
            /\ \A i \in 1 .. Len(l) - 1 : Front(l)[i] = l[i]
        BY <3>1, FrontElements
      <3>3. /\ Front(m) \in Seq(Chars) /\ Len(Front(m)) = Len(m) - 1
            /\ \A i \in 1 .. Len(m) - 1 : Front(m)[i] = m[i]
        BY <3>1, FrontElements
      <3>4. ASSUME NEW i \in 1 .. Len(Front(l))
            PROVE  Front(l)[i] = Front(m)[Len(Front(m)) - Len(Front(l)) + i]
        <4>1. /\ i \in 1 .. Len(l) - 1 /\ i \in 1 .. Len(l)
              /\ Len(m) - Len(l) + i \in 1 .. Len(m) - 1
              /\ Len(Front(m)) - Len(Front(l)) + i = Len(m) - Len(l) + i
          BY <1>1, <3>1, <3>2, <3>3
        <4> QED BY <1>1, <3>2, <3>3, <4>1
      <3>5. Len(Front(l)) <= Len(Front(m))
        BY <1>1, <3>2, <3>3
      <3>6. IsSuffix(Front(l), Front(m))
        BY <3>2, <3>3, <3>4, <3>5, SuffixByElements
      <3> QED BY <2>1, <2>3, <3>1, <3>6
    <2> QED BY <2>2, <2>3
  <1>5. CASE ch \notin Ends \cup Edits
    <2>1. Edited(l, ch) = Append(l, ch) /\ Edited(m, ch) = Append(m, ch)
      BY <1>5 DEF Edited, Edits
    <2>2. /\ Append(l, ch) \in Seq(Chars) /\ Len(Append(l, ch)) = Len(l) + 1
          /\ \A i \in 1 .. Len(l) : Append(l, ch)[i] = l[i]
          /\ Append(l, ch)[Len(l) + 1] = ch
      OBVIOUS
    <2>3. /\ Append(m, ch) \in Seq(Chars) /\ Len(Append(m, ch)) = Len(m) + 1
          /\ \A i \in 1 .. Len(m) : Append(m, ch)[i] = m[i]
          /\ Append(m, ch)[Len(m) + 1] = ch
      OBVIOUS
    <2>4. ASSUME NEW i \in 1 .. Len(l) + 1
          PROVE  Append(l, ch)[i] = Append(m, ch)[(Len(m) + 1) - (Len(l) + 1) + i]
      <3>0. i \in 1 .. Len(l) \/ i = Len(l) + 1
        OBVIOUS
      <3>1. CASE i = Len(l) + 1
        <4>1. (Len(m) + 1) - (Len(l) + 1) + i = Len(m) + 1
          BY <3>1
        <4> QED BY <2>2, <2>3, <3>1, <4>1
      <3>2. CASE i \in 1 .. Len(l)
        <4>1. /\ (Len(m) + 1) - (Len(l) + 1) + i = Len(m) - Len(l) + i
              /\ Len(m) - Len(l) + i \in 1 .. Len(m)
          BY <1>1, <3>2
        <4> QED BY <1>1, <2>2, <2>3, <3>2, <4>1
      <3> QED BY <3>0, <3>1, <3>2
    <2> DEFINE al == Append(l, ch)
               am == Append(m, ch)
    <2>5. /\ al \in Seq(Chars) /\ am \in Seq(Chars) /\ Len(al) <= Len(am)
          /\ \A i \in 1 .. Len(al) : al[i] = am[Len(am) - Len(al) + i]
      <3>1. Len(al) = Len(l) + 1 /\ Len(am) = Len(m) + 1
        BY <2>2, <2>3
      <3>2. \A i \in 1 .. Len(l) + 1 : al[i] = am[(Len(m) + 1) - (Len(l) + 1) + i]
        BY <2>4
      <3>3. al \in Seq(Chars) /\ am \in Seq(Chars)
        BY <2>2, <2>3
      <3> HIDE DEF al, am
      <3>4. \A i \in 1 .. Len(al) : al[i] = am[Len(am) - Len(al) + i]
        BY <3>1, <3>2
      <3>5. Len(al) <= Len(am)
        BY <1>1, <3>1
      <3> QED BY <3>3, <3>4, <3>5
    <2> HIDE DEF al, am
    <2>6. IsSuffix(al, am)
      BY <2>5, SuffixByElements
    <2> QED BY <2>1, <2>6 DEF al, am
  <1> QED BY <1>2, <1>3, <1>4, <1>5 DEF Edits


-----------------------------------------------------------------------------
(* The line that somebody means.                                           *)

\* What the lines are that the first characters mean.
MeansBy(f, raw) ==
  f = [k \in 0 .. Len(raw) |->
         IF k = 0 THEN <<>> ELSE Edited(f[k - 1], raw[k])]

LEMMA MeansByExists ==
  ASSUME NEW raw \in Seq(Chars)
  PROVE  \E f : MeansBy(f, raw)
  <1> DEFINE To(f, m) == f = [k \in 0 .. m |-> IF k = 0 THEN <<>>
                                               ELSE Edited(f[k - 1], raw[k])]
             Defined == {m \in Nat : \E f : To(f, m)}
  <1>1. 0 \in Defined
    <2>1. To([k \in 0 .. 0 |-> <<>>], 0)
      OBVIOUS
    <2> QED BY <2>1
  <1>2. ASSUME NEW m \in 0 .. Len(raw) - 1, m \in Defined PROVE m + 1 \in Defined
    <2>1. PICK f : To(f, m)
      BY <1>2
    <2> DEFINE g == [k \in 0 .. m + 1 |->
                       IF k <= m THEN f[k] ELSE Edited(f[k - 1], raw[k])]
    <2>2. ASSUME NEW k \in 0 .. m + 1
          PROVE  g[k] = IF k = 0 THEN <<>> ELSE Edited(g[k - 1], raw[k])
      <3>1. CASE k <= m
        <4>1. f[k] = IF k = 0 THEN <<>> ELSE Edited(f[k - 1], raw[k])
          BY <2>1, <3>1
        <4>2. g[k] = f[k] /\ (k # 0 => g[k - 1] = f[k - 1])
          BY <3>1
        <4> QED BY <4>1, <4>2
      <3>2. CASE k = m + 1
        <4>1. g[k - 1] = f[k - 1] /\ k # 0
          BY <3>2
        <4> QED BY <3>2, <4>1
      <3> QED BY <3>1, <3>2
    <2>3. To(g, m + 1)
      <3> HIDE DEF g
      <3>1. DOMAIN g = 0 .. m + 1 /\ g = [k \in DOMAIN g |-> g[k]]
        BY DEF g
      <3> QED BY <2>2, <3>1
    <2>4. m + 1 \in Nat
      OBVIOUS
    <2> HIDE DEF g, To
    <2> QED BY <2>3, <2>4
  <1>3. Len(raw) \in Defined
    <2> HIDE DEF Defined
    <2>1. Len(raw) \in Nat /\ Len(raw) \in 0 .. Len(raw)
      OBVIOUS
    <2> DEFINE n == Len(raw)
    <2>2. \A k \in 0 .. n - 1 : k \in Defined => k + 1 \in Defined
      BY <1>2
    <2> HIDE DEF n
    <2>3. \A k \in 0 .. n : k \in Defined
      BY <1>1, <2>1, <2>2, Induction DEF n
    <2> QED BY <2>1, <2>3 DEF n
  <1> QED BY <1>3 DEF MeansBy

LEMMA MeantReads ==
  ASSUME NEW raw \in Seq(Chars)
  PROVE  \E f : MeansBy(f, raw) /\ Meant(raw) = f[Len(raw)]
  <1> DEFINE line == CHOOSE f : MeansBy(f, raw)
  <1>1. MeansBy(line, raw)
    BY MeansByExists
  <1>2. Meant(raw) = line[Len(raw)]
    BY DEF Meant, MeansBy
  <1> QED BY <1>1, <1>2

\* Nothing typed means the empty line.
LEMMA MeantOfNone == Meant(<<>>) = <<>>
  <1>1. PICK f : MeansBy(f, <<>>) /\ Meant(<<>>) = f[Len(<<>>)]
    BY MeantReads, EmptyIsLine
  <1>2. Len(<<>>) = 0
    OBVIOUS
  <1> QED BY <1>1, <1>2 DEF MeansBy

\* Each character edits what those before it mean.
LEMMA MeantOfMore ==
  ASSUME NEW raw \in Seq(Chars), NEW ch \in Chars
  PROVE  Meant(Append(raw, ch)) = Edited(Meant(raw), ch)
  <1> DEFINE more == Append(raw, ch)
             n == Len(raw)
  <1>1. /\ more \in Seq(Chars) /\ Len(more) = n + 1 /\ n \in Nat
        /\ more[n + 1] = ch /\ \A k \in 1 .. n : more[k] = raw[k]
    OBVIOUS
  <1> HIDE DEF more
  <1>2. PICK f : MeansBy(f, raw) /\ Meant(raw) = f[n]
    BY MeantReads
  <1>3. PICK g : MeansBy(g, more) /\ Meant(more) = g[n + 1]
    BY <1>1, MeantReads
  <1>4. \A k \in 0 .. n : f[k] = IF k = 0 THEN <<>> ELSE Edited(f[k - 1], raw[k])
    BY <1>2 DEF MeansBy
  <1>5. \A k \in 0 .. n + 1 :
          g[k] = IF k = 0 THEN <<>> ELSE Edited(g[k - 1], more[k])
    BY <1>1, <1>3 DEF MeansBy
  <1> HIDE DEF n
  <1> DEFINE Same == {k \in 0 .. n : f[k] = g[k]}
  <1>6. 0 \in Same
    BY <1>1, <1>4, <1>5
  <1>7. ASSUME NEW k \in 0 .. n - 1, k \in Same PROVE k + 1 \in Same
    <2>1. k + 1 \in 1 .. n /\ k + 1 \in 0 .. n /\ k + 1 \in 0 .. n + 1
          /\ (k + 1) - 1 = k /\ k + 1 # 0
      BY <1>1
    <2>2. f[k + 1] = Edited(f[k], raw[k + 1]) /\ g[k + 1] = Edited(g[k], more[k + 1])
      BY <1>4, <1>5, <2>1
    <2> QED BY <1>1, <1>7, <2>1, <2>2
  <1>8. n \in Same
    <2> HIDE DEF Same
    <2>1. \A k \in 0 .. n : k \in Same
      BY <1>1, <1>6, <1>7, Induction
    <2> QED BY <1>1, <2>1
  <1>9. g[n + 1] = Edited(g[n], ch)
    <2>1. n + 1 \in 0 .. n + 1 /\ n + 1 # 0 /\ (n + 1) - 1 = n
      BY <1>1
    <2> QED BY <1>1, <1>5, <2>1
  <1> QED BY <1>2, <1>3, <1>8, <1>9 DEF more

LEMMA MeantIsLine ==
  ASSUME NEW raw \in Seq(Chars)
  PROVE  Meant(raw) \in Seq(Chars)
  <1>1. PICK f : MeansBy(f, raw) /\ Meant(raw) = f[Len(raw)]
    BY MeantReads
  <1> DEFINE n == Len(raw)
  <1>2. n \in Nat /\ \A k \in 0 .. n :
          f[k] = IF k = 0 THEN <<>> ELSE Edited(f[k - 1], raw[k])
    <2>1. n \in Nat
      OBVIOUS
    <2>2. \A k \in 0 .. n :
            f[k] = IF k = 0 THEN <<>> ELSE Edited(f[k - 1], raw[k])
      BY <1>1 DEF MeansBy
    <2> QED BY <2>1, <2>2
  <1>3. \A k \in 1 .. n : raw[k] \in Chars
    OBVIOUS
  <1> HIDE DEF n
  <1> DEFINE Right == {k \in 0 .. n : f[k] \in Seq(Chars)}
  <1>4. 0 \in Right
    <2>1. f[0] = <<>> /\ 0 \in 0 .. n
      BY <1>2
    <2> QED BY <2>1, EmptyIsLine
  <1>5. ASSUME NEW k \in 0 .. n - 1, k \in Right PROVE k + 1 \in Right
    <2>1. k + 1 \in 1 .. n /\ k + 1 \in 0 .. n /\ (k + 1) - 1 = k /\ k + 1 # 0
      BY <1>2
    <2>2. f[k + 1] = Edited(f[k], raw[k + 1])
      BY <1>2, <2>1
    <2> QED BY <1>3, <1>5, <2>1, <2>2, EditedIsLine
  <1>6. n \in Right
    <2> HIDE DEF Right
    <2>1. \A k \in 0 .. n : k \in Right
      BY <1>2, <1>4, <1>5, Induction
    <2> QED BY <1>2, <2>1
  <1> QED BY <1>1, <1>6 DEF n


-----------------------------------------------------------------------------
(* The inductive invariant.                                                *)

Positions == [pos : 0 .. LineMax, cr : BOOLEAN]
Readers == [port : [Ports -> Positions], buf : [0 .. LineMax -> Chars],
            own : [Ports -> Lines], ready : Ports \cup {"none"}, was : Lines]

\* The first characters of a buffer, and the unfinished line of port p.
First(b, n) == [i \in 1 .. n |-> b[i - 1]]
Line(s, p) == First(s.buf, s.port[p].pos)

\* The data of this host may be taken for a line.
Loose(h, p) == h[p].broken \/ h[p].ahead

\* The n characters at the head of a buffer belong to this line.
Belongs(b, n, l) ==
  /\ \A i \in 0 .. n - 1 : b[i] \in Letters \cup Data
  /\ ~ l.lost => /\ IsSuffix(First(b, n), Meant(l.raw))
                 /\ ~ l.long => First(b, n) = Meant(l.raw)

NoDataIn(b, n) == \A i \in 0 .. n - 1 : b[i] # "data"

\* The unfinished line of a port that the other port has not touched.
LineRight(s, p, h) ==
  ~ s.own[p].spoiled =>
    /\ Belongs(s.buf, s.port[p].pos, s.own[p])
    /\ ~ Loose(h, p) => NoDataIn(s.buf, s.port[p].pos)

\* The line that is ready.
ReadyRight(s, h) ==
  s.ready # "none" =>
    /\ s.port[s.ready].pos = 0
    /\ \E n \in 0 .. LineMax :
         /\ s.buf[n] \in Ends
         /\ ~ s.was.spoiled =>
              /\ Belongs(s.buf, n, s.was)
              /\ ~ Loose(h, s.ready) => NoDataIn(s.buf, n)

ReaderRight(s, h) == ReadyRight(s, h) /\ \A p \in Ports : LineRight(s, p, h)

\* How much of its data the command in progress has still to get from port p.
Awaited(p) == IF p = source THEN wanted ELSE 0

\* What waits in a port is the data that the command waits for, and then no
\* data: whose host neither typed on nor was broken off.
Flow ==
  \A p \in Ports : ~ Loose(host, p) =>
    /\ \A i \in 1 .. Len(fifo[p]) : fifo[p][i] = "data" <=> i <= Awaited(p)
    /\ IF host[p].left > 0 THEN Len(fifo[p]) + host[p].left = Awaited(p)
       ELSE Len(fifo[p]) >= Awaited(p)

\* What the command has got is data, unless its host typed on.
Gotten ==
  /\ ~ host[source].ahead => \A i \in 1 .. Len(got) : got[i] = "data"
  /\ wanted > 0 => ~ host[source].broken

IInv ==
  /\ TypeOK /\ ReaderRight(Reader, host) /\ Flow /\ Gotten
  /\ LineIsOwn /\ DataIsNotRun

-----------------------------------------------------------------------------
(* What a character does to the reader.                                    *)

LEMMA CharacterFacts ==
  /\ "uart" # "usb" /\ \A p \in Ports : Other(p) \in Ports /\ Other(p) # p
  /\ \A p, q \in Ports : q = p \/ q = Other(p)
  /\ Fresh \in Lines /\ ~ Fresh.spoiled /\ Fresh.raw = <<>>
  /\ ~ Fresh.long /\ ~ Fresh.lost
  /\ LineMax \in Nat \ {0}
  /\ \A ch \in Chars :
       \/ ch \in Ends /\ ch \notin Edits /\ ch \notin Letters \cup Data
       \/ ch \in Edits /\ ch \notin Ends /\ ch \notin Letters \cup Data
       \/ ch \in Letters \cup Data /\ ch \notin Ends /\ ch \notin Edits
  /\ Bulk \in Letters /\ "data" \notin Letters
  /\ "data" \in Chars /\ "lf" \in Chars /\ "lf" \in Ends
  <1>1. /\ "uart" # "usb" /\ \A p \in Ports : Other(p) \in Ports /\ Other(p) # p
        /\ \A p, q \in Ports : q = p \/ q = Other(p)
    BY DEF Ports, Other
  <1>2. Fresh \in Lines /\ ~ Fresh.spoiled /\ Fresh.raw = <<>>
        /\ ~ Fresh.long /\ ~ Fresh.lost
    BY EmptyIsLine DEF Fresh, Lines
  <1>3. LineMax \in Nat \ {0} /\ Bulk \in Letters
        /\ Letters \cap (Ends \cup Edits \cup Data) = {}
    BY ReaderAssumption
  <1>4. \A ch \in Chars :
          \/ ch \in Ends /\ ch \notin Edits /\ ch \notin Letters \cup Data
          \/ ch \in Edits /\ ch \notin Ends /\ ch \notin Letters \cup Data
          \/ ch \in Letters \cup Data /\ ch \notin Ends /\ ch \notin Edits
    BY <1>3 DEF Chars, Ends, Edits, Data
  <1>5. /\ "data" \notin Letters
        /\ "data" \in Chars /\ "lf" \in Chars /\ "lf" \in Ends
    BY <1>3 DEF Chars, Ends, Data
  <1> QED BY <1>1, <1>2, <1>3, <1>4, <1>5

\* A line with a character more.
With(l, ch) == [l EXCEPT !.raw = Append(@, ch)]

LEMMA WithFacts ==
  ASSUME NEW l \in Lines, NEW ch \in Chars
  PROVE  /\ With(l, ch) \in Lines /\ With(l, ch).raw = Append(l.raw, ch)
         /\ With(l, ch).long = l.long /\ With(l, ch).spoiled = l.spoiled
         /\ With(l, ch).lost = l.lost /\ l.raw \in Seq(Chars)
  <1>1. l.raw \in Seq(Chars) /\ Append(l.raw, ch) \in Seq(Chars)
    BY DEF Lines
  <1> QED BY <1>1 DEF With, Lines


\* The reader that has noted a character of port p.
Heard(s, p, ch) ==
  [s EXCEPT !.port[p].cr = (ch = "cr"), !.own[p].raw = Append(@, ch)]

\* The port that has brought nothing.
OtherKept(r, s, p) ==
  /\ r.port[Other(p)] = s.port[Other(p)]
  /\ r.own[Other(p)].raw = s.own[Other(p)].raw
  /\ r.own[Other(p)].long = s.own[Other(p)].long
  /\ r.own[Other(p)].lost = s.own[Other(p)].lost

LEMMA HeardFacts ==
  ASSUME NEW s \in Readers, NEW p \in Ports, NEW ch \in Chars
  PROVE  LET r == Heard(s, p, ch) IN
         /\ r \in Readers /\ r.buf = s.buf /\ r.ready = s.ready /\ r.was = s.was
         /\ r.port[p].pos = s.port[p].pos /\ r.port[Other(p)] = s.port[Other(p)]
         /\ r.own[p] = With(s.own[p], ch) /\ r.own[Other(p)] = s.own[Other(p)]
  <1> DEFINE r == Heard(s, p, ch)
             place == [s.port[p] EXCEPT !.cr = (ch = "cr")]
             line == With(s.own[p], ch)
             places == [s.port EXCEPT ![p] = place]
             lines == [s.own EXCEPT ![p] = line]
  <1>1. /\ s.port \in [Ports -> Positions] /\ s.own \in [Ports -> Lines]
        /\ s.buf \in [0 .. LineMax -> Chars] /\ s.ready \in Ports \cup {"none"}
        /\ s.was \in Lines
    BY DEF Readers
  <1>2. place \in Positions /\ place.pos = s.port[p].pos
    <2>1. s.port[p] \in Positions
      BY <1>1
    <2>2. (ch = "cr") \in BOOLEAN
      OBVIOUS
    <2> QED BY <2>1, <2>2 DEF Positions
  <1>3. line \in Lines
    BY <1>1, WithFacts
  <1>4. r = [s EXCEPT !.port = places, !.own = lines]
    BY DEF Heard, With
  <1> HIDE DEF place, line
  <1>5. /\ places \in [Ports -> Positions] /\ places[p] = place
        /\ places[Other(p)] = s.port[Other(p)]
    BY <1>1, <1>2, CharacterFacts
  <1>6. /\ lines \in [Ports -> Lines] /\ lines[p] = line
        /\ lines[Other(p)] = s.own[Other(p)]
    BY <1>1, <1>3, CharacterFacts
  <1> HIDE DEF places, lines, r
  <1>7. /\ r.port = places /\ r.own = lines /\ r.buf = s.buf
        /\ r.ready = s.ready /\ r.was = s.was
    BY <1>4 DEF Readers
  <1>8. r \in Readers
    BY <1>1, <1>4, <1>5, <1>6 DEF Readers
  <1> QED BY <1>2, <1>5, <1>6, <1>7, <1>8 DEF r, line

LEMMA PutFacts ==
  ASSUME NEW s \in Readers, NEW p \in Ports, NEW i \in 0 .. LineMax,
         NEW ch \in Chars
  PROVE  LET r == Put(s, p, i, ch) IN
         /\ r \in Readers /\ r.buf = [s.buf EXCEPT ![i] = ch]
         /\ r.ready = s.ready /\ r.was = s.was /\ r.port = s.port
         /\ r.own[p] = s.own[p] /\ OtherKept(r, s, p)
         /\ r.own[Other(p)].spoiled
              = (s.own[Other(p)].spoiled \/ i < s.port[Other(p)].pos)
  <1> DEFINE r == Put(s, p, i, ch)
             q == Other(p)
             spoiled == s.own[q].spoiled \/ i < s.port[q].pos
             line == [s.own[q] EXCEPT !.spoiled = spoiled]
             lines == [s.own EXCEPT ![q] = line]
             chars == [s.buf EXCEPT ![i] = ch]
  <1>1. /\ s.port \in [Ports -> Positions] /\ s.own \in [Ports -> Lines]
        /\ s.buf \in [0 .. LineMax -> Chars] /\ s.ready \in Ports \cup {"none"}
        /\ s.was \in Lines
    BY DEF Readers
  <1>2. q \in Ports /\ q # p
    BY CharacterFacts
  <1>3. r = [s EXCEPT !.buf = chars, !.own = lines]
    BY DEF Put
  <1> HIDE DEF q
  <1>4. spoiled \in BOOLEAN
    <2>1. s.own[q].spoiled \in BOOLEAN
      BY <1>1, <1>2 DEF Lines
    <2> QED BY <2>1
  <1> HIDE DEF spoiled
  <1>5. /\ line \in Lines /\ line.spoiled = spoiled /\ line.raw = s.own[q].raw
        /\ line.long = s.own[q].long /\ line.lost = s.own[q].lost
    <2>1. s.own[q] \in Lines
      BY <1>1, <1>2
    <2> QED BY <1>4, <2>1 DEF Lines
  <1> HIDE DEF line
  <1>6. /\ lines \in [Ports -> Lines] /\ lines[p] = s.own[p] /\ lines[q] = line
        /\ chars \in [0 .. LineMax -> Chars]
    BY <1>1, <1>2, <1>5
  <1> HIDE DEF lines, chars, r
  <1>7. /\ r.own = lines /\ r.buf = chars /\ r.port = s.port
        /\ r.ready = s.ready /\ r.was = s.was
    BY <1>3 DEF Readers
  <1>8. r \in Readers
    BY <1>1, <1>3, <1>6 DEF Readers
  <1>9. OtherKept(r, s, p)
    BY <1>5, <1>6, <1>7 DEF OtherKept, q
  <1> QED BY <1>5, <1>6, <1>7, <1>8, <1>9 DEF r, chars, q, spoiled


LEMMA LineEndFacts ==
  ASSUME NEW s \in Readers, NEW p \in Ports
  PROVE  LET r == LineEnd(s, p) IN
         /\ r \in Readers /\ r.buf = [s.buf EXCEPT ![s.port[p].pos] = "lf"]
         /\ r.ready = p /\ r.was = s.own[p] /\ r.port[p].pos = 0
         /\ r.own[p] = Fresh /\ OtherKept(r, s, p)
         /\ r.own[Other(p)].spoiled
              = (s.own[Other(p)].spoiled \/ s.port[Other(p)].pos > 0)
  <1> DEFINE r == LineEnd(s, p)
             q == Other(p)
             i == s.port[p].pos
             t == Put(s, p, i, "lf")
             spoiled == t.own[q].spoiled \/ s.port[q].pos > 0
             line == [t.own[q] EXCEPT !.spoiled = spoiled]
             lines == [t.own EXCEPT ![p] = Fresh, ![q] = line]
             place == [t.port[p] EXCEPT !.pos = 0]
             places == [t.port EXCEPT ![p] = place]
  <1>1. /\ s.port \in [Ports -> Positions] /\ s.own \in [Ports -> Lines]
        /\ s.buf \in [0 .. LineMax -> Chars] /\ s.was \in Lines
    BY DEF Readers
  <1>2. q \in Ports /\ q # p
    BY CharacterFacts
  <1>3. /\ i \in 0 .. LineMax /\ s.port[q].pos \in 0 .. LineMax
        /\ s.own[p] \in Lines
    BY <1>1, <1>2 DEF Positions
  <1>4. /\ t \in Readers /\ t.buf = [s.buf EXCEPT ![i] = "lf"]
        /\ t.ready = s.ready /\ t.was = s.was /\ t.port = s.port
        /\ t.own[p] = s.own[p] /\ OtherKept(t, s, p)
        /\ t.own[q].spoiled = (s.own[q].spoiled \/ i < s.port[q].pos)
    BY <1>3, CharacterFacts, PutFacts
  <1>5. /\ t.port \in [Ports -> Positions] /\ t.own \in [Ports -> Lines]
        /\ t.own[q] \in Lines /\ t.buf \in [0 .. LineMax -> Chars]
    BY <1>2, <1>4 DEF Readers
  <1>6. r = [t EXCEPT !.port = places, !.ready = p, !.own = lines,
                      !.was = s.own[p]]
    BY <1>2, ZenonT(60) DEF LineEnd
  <1>7. t.own[q].spoiled \in BOOLEAN /\ s.own[q].spoiled \in BOOLEAN
    BY <1>1, <1>2, <1>5 DEF Lines
  <1>8. spoiled = (s.own[q].spoiled \/ s.port[q].pos > 0)
    BY <1>3, <1>4, <1>7
  <1> HIDE DEF q, t, i
  <1>9. spoiled \in BOOLEAN
    BY <1>7
  <1> HIDE DEF spoiled
  <1>10. /\ line \in Lines /\ line.spoiled = spoiled /\ line.raw = t.own[q].raw
         /\ line.long = t.own[q].long /\ line.lost = t.own[q].lost
    BY <1>5, <1>9 DEF Lines
  <1>11. place \in Positions /\ place.pos = 0
    <2>1. t.port[p] \in Positions /\ 0 \in 0 .. LineMax
      BY <1>5, CharacterFacts
    <2> QED BY <2>1 DEF Positions
  <1> HIDE DEF line, place
  <1>12. /\ lines \in [Ports -> Lines] /\ lines[p] = Fresh /\ lines[q] = line
         /\ places \in [Ports -> Positions] /\ places[p] = place
         /\ places[q] = t.port[q]
    BY <1>2, <1>5, <1>10, <1>11, CharacterFacts
  <1> HIDE DEF lines, places, r
  <1>13. /\ r.own = lines /\ r.buf = t.buf /\ r.port = places
         /\ r.ready = p /\ r.was = s.own[p]
    BY <1>4, <1>6 DEF Readers
  <1>14. r \in Readers
    BY <1>3, <1>4, <1>6, <1>12 DEF Readers
  <1>15. OtherKept(r, s, p)
    BY <1>4, <1>10, <1>12, <1>13 DEF OtherKept, q
  <1> QED BY <1>4, <1>8, <1>10, <1>11, <1>12, <1>13, <1>14, <1>15
          DEF r, q, i

\* The LF of CR LF is skipped.
LEMMA FeedSkip ==
  ASSUME NEW s \in Readers, NEW p \in Ports, s.port[p].cr
  PROVE  LET r == Feed(s, p, "lf") IN
         /\ r \in Readers /\ r.buf = s.buf /\ r.ready = s.ready /\ r.was = s.was
         /\ r.own = s.own /\ r.port[Other(p)] = s.port[Other(p)]
         /\ r.port[p].pos = s.port[p].pos
  <1> DEFINE r == Feed(s, p, "lf")
             place == [s.port[p] EXCEPT !.cr = FALSE]
             places == [s.port EXCEPT ![p] = place]
  <1>1. /\ s.port \in [Ports -> Positions] /\ s.own \in [Ports -> Lines]
        /\ s.buf \in [0 .. LineMax -> Chars] /\ s.was \in Lines
        /\ s.ready \in Ports \cup {"none"}
    BY DEF Readers
  <1>2. r = [s EXCEPT !.port = places]
    <2>1. "lf" \notin Letters \cup Data
      BY CharacterFacts
    <2> QED BY <2>1 DEF Feed
  <1>3. place \in Positions /\ place.pos = s.port[p].pos
    <2>1. s.port[p] \in Positions
      BY <1>1
    <2> QED BY <2>1 DEF Positions
  <1> HIDE DEF place
  <1>4. /\ places \in [Ports -> Positions] /\ places[p] = place
        /\ places[Other(p)] = s.port[Other(p)]
    BY <1>1, <1>3, CharacterFacts
  <1> HIDE DEF places, r
  <1>5. /\ r.own = s.own /\ r.buf = s.buf /\ r.port = places
        /\ r.ready = s.ready /\ r.was = s.was
    BY <1>2 DEF Readers
  <1>6. r \in Readers
    BY <1>1, <1>2, <1>4 DEF Readers
  <1> QED BY <1>3, <1>4, <1>5, <1>6 DEF r

\* CR, or an LF of its own, ends the line.
LEMMA FeedEnd ==
  ASSUME NEW s \in Readers, NEW p \in Ports, NEW ch \in Ends,
         ~ (ch = "lf" /\ s.port[p].cr)
  PROVE  LET r == Feed(s, p, ch) IN
         /\ r \in Readers /\ r.buf = [s.buf EXCEPT ![s.port[p].pos] = "lf"]
         /\ r.ready = p /\ r.was = With(s.own[p], ch) /\ r.port[p].pos = 0
         /\ r.own[p] = Fresh /\ OtherKept(r, s, p)
         /\ r.own[Other(p)].spoiled
              = (s.own[Other(p)].spoiled \/ s.port[Other(p)].pos > 0)
  <1> DEFINE t == Heard(s, p, ch)
  <1>1. ch \in Chars
    BY DEF Chars
  <1>2. /\ t \in Readers /\ t.buf = s.buf /\ t.ready = s.ready /\ t.was = s.was
        /\ t.port[p].pos = s.port[p].pos /\ t.port[Other(p)] = s.port[Other(p)]
        /\ t.own[p] = With(s.own[p], ch) /\ t.own[Other(p)] = s.own[Other(p)]
    BY <1>1, HeardFacts
  <1>3. Feed(s, p, ch) = LineEnd(t, p)
    <2>1. ch \notin Edits /\ ch \notin Letters \cup Data
      BY <1>1, CharacterFacts
    <2>2. CASE ch = "cr"
      BY <2>1, <2>2 DEF Feed, Heard, Edits, Ends
    <2>3. CASE ch = "lf"
      BY <2>1, <2>3 DEF Feed, Heard, Edits, Ends
    <2> QED BY <2>2, <2>3 DEF Ends
  <1> HIDE DEF t
  <1> DEFINE r == LineEnd(t, p)
  <1>4. /\ r \in Readers /\ r.buf = [t.buf EXCEPT ![t.port[p].pos] = "lf"]
        /\ r.ready = p /\ r.was = t.own[p] /\ r.port[p].pos = 0
        /\ r.own[p] = Fresh /\ OtherKept(r, t, p)
        /\ r.own[Other(p)].spoiled
             = (t.own[Other(p)].spoiled \/ t.port[Other(p)].pos > 0)
    BY <1>2, LineEndFacts
  <1> HIDE DEF r
  <1>5. OtherKept(r, s, p)
    BY <1>2, <1>4 DEF OtherKept
  <1> QED BY <1>2, <1>3, <1>4, <1>5 DEF r


\* The reader whose position of port p is n.
Moved(s, p, n) == [s EXCEPT !.port[p].pos = n]

LEMMA MovedFacts ==
  ASSUME NEW s \in Readers, NEW p \in Ports, NEW n \in 0 .. LineMax
  PROVE  LET r == Moved(s, p, n) IN
         /\ r \in Readers /\ r.buf = s.buf /\ r.ready = s.ready /\ r.was = s.was
         /\ r.own = s.own /\ r.port[Other(p)] = s.port[Other(p)]
         /\ r.port[p].pos = n
  <1> DEFINE r == Moved(s, p, n)
             place == [s.port[p] EXCEPT !.pos = n]
             places == [s.port EXCEPT ![p] = place]
  <1>1. /\ s.port \in [Ports -> Positions] /\ s.own \in [Ports -> Lines]
        /\ s.buf \in [0 .. LineMax -> Chars] /\ s.was \in Lines
        /\ s.ready \in Ports \cup {"none"}
    BY DEF Readers
  <1>2. r = [s EXCEPT !.port = places]
    BY DEF Moved
  <1>3. place \in Positions /\ place.pos = n
    <2>1. s.port[p] \in Positions
      BY <1>1
    <2> QED BY <2>1 DEF Positions
  <1> HIDE DEF place
  <1>4. /\ places \in [Ports -> Positions] /\ places[p] = place
        /\ places[Other(p)] = s.port[Other(p)]
    BY <1>1, <1>3, CharacterFacts
  <1> HIDE DEF places, r
  <1>5. /\ r.own = s.own /\ r.buf = s.buf /\ r.port = places
        /\ r.ready = s.ready /\ r.was = s.was
    BY <1>2 DEF Readers
  <1>6. r \in Readers
    BY <1>1, <1>2, <1>4 DEF Readers
  <1> QED BY <1>3, <1>4, <1>5, <1>6 DEF r

\* A character is taken back, or the line is.
LEMMA FeedEdit ==
  ASSUME NEW s \in Readers, NEW p \in Ports, NEW ch \in Edits
  PROVE  LET r == Feed(s, p, ch) IN
         /\ r \in Readers /\ r.buf = s.buf /\ r.ready = s.ready /\ r.was = s.was
         /\ r.port[Other(p)] = s.port[Other(p)]
         /\ r.port[p].pos = IF ch = "kill" \/ s.port[p].pos = 0 THEN 0
                            ELSE s.port[p].pos - 1
         /\ r.own[p] = With(s.own[p], ch) /\ r.own[Other(p)] = s.own[Other(p)]
  <1> DEFINE t == Heard(s, p, ch)
             n == IF ch = "kill" \/ t.port[p].pos = 0 THEN 0
                  ELSE t.port[p].pos - 1
  <1>1. ch \in Chars
    BY DEF Chars
  <1>2. /\ t \in Readers /\ t.buf = s.buf /\ t.ready = s.ready /\ t.was = s.was
        /\ t.port[p].pos = s.port[p].pos /\ t.port[Other(p)] = s.port[Other(p)]
        /\ t.own[p] = With(s.own[p], ch) /\ t.own[Other(p)] = s.own[Other(p)]
    BY <1>1, HeardFacts
  <1>3. /\ ch = "back" => Feed(s, p, ch) = IF t.port[p].pos > 0
                                           THEN Moved(t, p, t.port[p].pos - 1)
                                           ELSE t
        /\ ch = "kill" => Feed(s, p, ch) = Moved(t, p, 0)
    <2>1. ch \notin Ends /\ ch \notin Letters \cup Data /\ "back" # "kill"
          /\ "lf" \notin Edits
      BY <1>1, CharacterFacts DEF Edits
    <2>2. ASSUME ch = "back"
          PROVE  Feed(s, p, ch) = IF t.port[p].pos > 0
                                  THEN Moved(t, p, t.port[p].pos - 1) ELSE t
      BY <2>1, <2>2 DEF Feed, Heard, Moved
    <2>3. ASSUME ch = "kill" PROVE Feed(s, p, ch) = Moved(t, p, 0)
      BY <2>1, <2>3 DEF Feed, Heard, Moved
    <2> QED BY <2>2, <2>3
  <1>4. t.port[p] \in Positions
    BY <1>2 DEF Readers
  <1>5. t.port[p].pos \in 0 .. LineMax
    BY <1>4 DEF Positions
  <1> HIDE DEF t
  <1>6. n \in 0 .. LineMax
    BY <1>5, CharacterFacts
  <1>7. CASE ch = "back" /\ t.port[p].pos = 0
    <2>1. Feed(s, p, ch) = t /\ ch # "kill"
      BY <1>3, <1>7
    <2> QED BY <1>2, <1>7, <2>1
  <1>8. CASE ch = "kill" \/ t.port[p].pos > 0
    <2>1. Feed(s, p, ch) = Moved(t, p, n)
      BY <1>3, <1>5, <1>8 DEF Edits
    <2> DEFINE r == Moved(t, p, n)
    <2>2. /\ r \in Readers /\ r.buf = t.buf /\ r.ready = t.ready /\ r.was = t.was
          /\ r.own = t.own /\ r.port[Other(p)] = t.port[Other(p)]
          /\ r.port[p].pos = n
      BY <1>2, <1>6, MovedFacts
    <2> HIDE DEF r
    <2>3. n = IF ch = "kill" \/ s.port[p].pos = 0 THEN 0 ELSE s.port[p].pos - 1
      BY <1>2
    <2> QED BY <1>2, <2>1, <2>2, <2>3 DEF r
  <1> QED BY <1>5, <1>7, <1>8 DEF Edits

\* A character that fits.
LEMMA FeedWrite ==
  ASSUME NEW s \in Readers, NEW p \in Ports, NEW ch \in Letters \cup Data,
         s.port[p].pos < LineMax
  PROVE  LET r == Feed(s, p, ch) IN
         /\ r \in Readers /\ r.buf = [s.buf EXCEPT ![s.port[p].pos] = ch]
         /\ r.ready = s.ready /\ r.was = s.was
         /\ r.port[p].pos = s.port[p].pos + 1
         /\ r.own[p] = With(s.own[p], ch) /\ OtherKept(r, s, p)
         /\ r.own[Other(p)].spoiled
              = (s.own[Other(p)].spoiled \/ s.port[p].pos < s.port[Other(p)].pos)
  <1> DEFINE t == Heard(s, p, ch)
             i == t.port[p].pos
             u == Put(t, p, i, ch)
             r == Moved(u, p, i + 1)
  <1>1. ch \in Chars
    BY DEF Chars
  <1>2. /\ t \in Readers /\ t.buf = s.buf /\ t.ready = s.ready /\ t.was = s.was
        /\ t.port[p].pos = s.port[p].pos /\ t.port[Other(p)] = s.port[Other(p)]
        /\ t.own[p] = With(s.own[p], ch) /\ t.own[Other(p)] = s.own[Other(p)]
    BY <1>1, HeardFacts
  <1>3. Feed(s, p, ch) = [u EXCEPT !.port[p].pos = @ + 1]
    <2>1. ch \notin Ends /\ ch \notin Edits /\ ch # "lf"
      BY <1>1, CharacterFacts
    <2>2. HasRoom(i)
      BY <1>2 DEF HasRoom
    <2> QED BY <2>1, <2>2 DEF Feed, Heard, Edits
  <1>4. t.port[p] \in Positions
    BY <1>2 DEF Readers
  <1>5. i \in 0 .. LineMax
    BY <1>4 DEF Positions
  <1>6. i + 1 \in 0 .. LineMax
    BY <1>2, <1>5, CharacterFacts
  <1> HIDE DEF t, i
  <1>7. /\ u \in Readers /\ u.buf = [t.buf EXCEPT ![i] = ch]
        /\ u.ready = t.ready /\ u.was = t.was /\ u.port = t.port
        /\ u.own[p] = t.own[p] /\ OtherKept(u, t, p)
        /\ u.own[Other(p)].spoiled
             = (t.own[Other(p)].spoiled \/ i < t.port[Other(p)].pos)
    BY <1>1, <1>2, <1>5, PutFacts
  <1> HIDE DEF u
  <1>8. Feed(s, p, ch) = r
    BY <1>3, <1>7 DEF Moved, i
  <1>9. /\ r \in Readers /\ r.buf = u.buf /\ r.ready = u.ready /\ r.was = u.was
        /\ r.own = u.own /\ r.port[Other(p)] = u.port[Other(p)]
        /\ r.port[p].pos = i + 1
    BY <1>6, <1>7, MovedFacts
  <1> HIDE DEF r
  <1>10. OtherKept(r, s, p)
    BY <1>2, <1>7, <1>9 DEF OtherKept
  <1> QED BY <1>2, <1>7, <1>8, <1>9, <1>10 DEF i

\* A character that does not fit: the line starts again without it.
LEMMA FeedOverflow ==
  ASSUME NEW s \in Readers, NEW p \in Ports, NEW ch \in Letters \cup Data,
         s.port[p].pos >= LineMax
  PROVE  LET r == Feed(s, p, ch) IN
         /\ r \in Readers /\ r.buf = s.buf /\ r.ready = s.ready /\ r.was = s.was
         /\ r.port[p].pos = 0 /\ r.port[Other(p)] = s.port[Other(p)]
         /\ r.own[p] = [With(s.own[p], ch) EXCEPT !.long = TRUE]
         /\ r.own[Other(p)] = s.own[Other(p)]
  <1> DEFINE t == Heard(s, p, ch)
             u == [t EXCEPT !.own[p].long = TRUE]
             line == [t.own[p] EXCEPT !.long = TRUE]
             lines == [t.own EXCEPT ![p] = line]
             r == Moved(u, p, 0)
  <1>1. ch \in Chars
    BY DEF Chars
  <1>2. /\ t \in Readers /\ t.buf = s.buf /\ t.ready = s.ready /\ t.was = s.was
        /\ t.port[p].pos = s.port[p].pos /\ t.port[Other(p)] = s.port[Other(p)]
        /\ t.own[p] = With(s.own[p], ch) /\ t.own[Other(p)] = s.own[Other(p)]
    BY <1>1, HeardFacts
  <1>3. Feed(s, p, ch) = Overflow(t, p)
    <2>1. ch \notin Ends /\ ch \notin Edits /\ ch # "lf"
      BY <1>1, CharacterFacts
    <2>2. s.port[p] \in Positions
      BY DEF Readers
    <2>3. ~ HasRoom(t.port[p].pos)
      BY <1>2, <2>2, CharacterFacts DEF HasRoom, Positions
    <2> QED BY <2>1, <2>3 DEF Feed, Heard, Edits
  <1>4. /\ t.port \in [Ports -> Positions] /\ t.own \in [Ports -> Lines]
        /\ t.buf \in [0 .. LineMax -> Chars] /\ t.was \in Lines
        /\ t.ready \in Ports \cup {"none"}
    BY <1>2 DEF Readers
  <1> HIDE DEF t
  <1>5. line \in Lines
    <2>1. t.own[p] \in Lines
      BY <1>4
    <2> QED BY <2>1 DEF Lines
  <1>6. u = [t EXCEPT !.own = lines]
    OBVIOUS
  <1> HIDE DEF line
  <1>7. /\ lines \in [Ports -> Lines] /\ lines[p] = line
        /\ lines[Other(p)] = t.own[Other(p)]
    BY <1>4, <1>5, CharacterFacts
  <1> HIDE DEF lines, u
  <1>8. /\ u.own = lines /\ u.buf = t.buf /\ u.port = t.port
        /\ u.ready = t.ready /\ u.was = t.was /\ u \in Readers
    BY <1>2, <1>4, <1>6, <1>7 DEF Readers
  <1>9. Overflow(t, p) = r
    BY DEF Overflow, Moved, u
  <1>10. /\ r \in Readers /\ r.buf = u.buf /\ r.ready = u.ready /\ r.was = u.was
         /\ r.own = u.own /\ r.port[Other(p)] = u.port[Other(p)]
         /\ r.port[p].pos = 0
    <2>1. 0 \in 0 .. LineMax
      BY CharacterFacts
    <2> QED BY <1>8, <2>1, MovedFacts
  <1> HIDE DEF r
  <1> QED BY <1>2, <1>3, <1>7, <1>8, <1>9, <1>10 DEF line


-----------------------------------------------------------------------------
(* Lines stay right.                                                       *)

LEMMA FirstFacts ==
  ASSUME NEW b \in [0 .. LineMax -> Chars], NEW n \in 0 .. LineMax
  PROVE  /\ First(b, n) \in Seq(Chars) /\ Len(First(b, n)) = n
         /\ \A i \in 1 .. n : First(b, n)[i] = b[i - 1]
  <1>1. n \in Nat
    BY CharacterFacts
  <1>2. \A i \in 1 .. n : i - 1 \in 0 .. LineMax /\ b[i - 1] \in Chars
    BY CharacterFacts
  <1> QED BY <1>1, <1>2 DEF First

\* Only the first n characters matter.
LEMMA FirstSame ==
  ASSUME NEW b, NEW c, NEW n \in Nat, \A i \in 0 .. n - 1 : c[i] = b[i]
  PROVE  First(c, n) = First(b, n)
  <1>1. \A i \in 1 .. n : c[i - 1] = b[i - 1]
    <2>1. \A i \in 1 .. n : i - 1 \in 0 .. n - 1
      OBVIOUS
    <2> QED BY <2>1
  <1> QED BY <1>1 DEF First

LEMMA FirstKept ==
  ASSUME NEW b, NEW c, NEW n \in Nat, \A i \in 0 .. n - 1 : c[i] = b[i]
  PROVE  /\ NoDataIn(c, n) <=> NoDataIn(b, n)
         /\ \A l : Belongs(c, n, l) <=> Belongs(b, n, l)
  <1>2. First(c, n) = First(b, n)
    BY FirstSame
  <1>3. NoDataIn(c, n) <=> NoDataIn(b, n)
    BY DEF NoDataIn
  <1> QED BY <1>2, <1>3 DEF Belongs

LEMMA NothingBelongs ==
  ASSUME NEW b
  PROVE  Belongs(b, 0, Fresh) /\ NoDataIn(b, 0)
  <1>1. First(b, 0) = <<>>
    BY DEF First
  <1>2. IsSuffix(<<>>, <<>>)
    BY EmptyIsLine, TrivialSuffixes
  <1>3. \A i \in 0 .. 0 - 1 : FALSE
    OBVIOUS
  <1> QED BY <1>1, <1>2, <1>3, CharacterFacts, MeantOfNone DEF Belongs, NoDataIn

\* A line that is edited as its characters say belongs to them.
LEMMA EditedBelongs ==
  ASSUME NEW b \in [0 .. LineMax -> Chars], NEW n \in 0 .. LineMax,
         NEW c \in [0 .. LineMax -> Chars], NEW m \in 0 .. LineMax,
         NEW l \in Lines, NEW ch \in Chars, Belongs(b, n, l),
         First(c, m) = Edited(First(b, n), ch),
         \A i \in 0 .. m - 1 : c[i] \in Letters \cup Data
  PROVE  Belongs(c, m, With(l, ch))
  <1>1. /\ l.raw \in Seq(Chars) /\ With(l, ch).raw = Append(l.raw, ch)
        /\ With(l, ch).long = l.long /\ With(l, ch).lost = l.lost
    BY WithFacts
  <1>2. Meant(With(l, ch).raw) = Edited(Meant(l.raw), ch)
        /\ Meant(l.raw) \in Seq(Chars)
    BY <1>1, MeantOfMore, MeantIsLine
  <1>3. First(b, n) \in Seq(Chars)
    BY FirstFacts
  <1>4. ASSUME IsSuffix(First(b, n), Meant(l.raw))
        PROVE  IsSuffix(First(c, m), Meant(With(l, ch).raw))
    BY <1>2, <1>3, <1>4, EditedSuffix
  <1> QED BY <1>1, <1>2, <1>4 DEF Belongs

\* The port that has brought nothing keeps its line, or the line is spoiled.
LEMMA OtherRight ==
  ASSUME NEW s \in Readers, NEW r \in Readers, NEW p \in Ports, NEW h,
         OtherKept(r, s, p), LineRight(s, Other(p), h),
         ~ r.own[Other(p)].spoiled =>
           /\ ~ s.own[Other(p)].spoiled
           /\ \A i \in 0 .. s.port[Other(p)].pos - 1 : r.buf[i] = s.buf[i]
  PROVE  LineRight(r, Other(p), h)
  <1> DEFINE q == Other(p)
             n == s.port[q].pos
  <1> SUFFICES ASSUME ~ r.own[q].spoiled
               PROVE  /\ Belongs(r.buf, r.port[q].pos, r.own[q])
                      /\ ~ Loose(h, q) => NoDataIn(r.buf, r.port[q].pos)
    BY DEF LineRight
  <1>1. r.port[q].pos = n /\ r.own[q].raw = s.own[q].raw
        /\ r.own[q].long = s.own[q].long /\ r.own[q].lost = s.own[q].lost
    BY DEF OtherKept
  <1>2. n \in Nat
    <2>1. q \in Ports
      BY CharacterFacts
    <2>2. s.port[q] \in Positions
      BY <2>1 DEF Readers
    <2> QED BY <2>2, CharacterFacts DEF Positions
  <1>3. Belongs(s.buf, n, s.own[q]) /\ (~ Loose(h, q) => NoDataIn(s.buf, n))
    BY DEF LineRight
  <1>4. \A i \in 0 .. n - 1 : r.buf[i] = s.buf[i]
    OBVIOUS
  <1> HIDE DEF n, q
  <1>5. /\ NoDataIn(r.buf, n) <=> NoDataIn(s.buf, n)
        /\ Belongs(r.buf, n, s.own[q]) <=> Belongs(s.buf, n, s.own[q])
    <2> DEFINE b == s.buf
               c == r.buf
    <2>1. \A i \in 0 .. n - 1 : c[i] = b[i]
      BY <1>4
    <2> HIDE DEF b, c
    <2>2. NoDataIn(c, n) <=> NoDataIn(b, n)
      BY <1>2, <2>1, FirstKept
    <2>3. \A l : Belongs(c, n, l) <=> Belongs(b, n, l)
      BY <1>2, <2>1, FirstKept
    <2> QED BY <2>2, <2>3 DEF b, c
  <1>6. Belongs(r.buf, n, r.own[q])
    BY <1>1, <1>3, <1>5 DEF Belongs
  <1> QED BY <1>1, <1>3, <1>5, <1>6


\* The characters at the head of the buffer after an edit.
LEMMA EditedFirst ==
  ASSUME NEW b \in [0 .. LineMax -> Chars], NEW n \in 0 .. LineMax,
         NEW ch \in Edits
  PROVE  LET m == IF ch = "kill" \/ n = 0 THEN 0 ELSE n - 1 IN
         /\ m \in 0 .. n /\ First(b, m) = Edited(First(b, n), ch)
  <1> DEFINE m == IF ch = "kill" \/ n = 0 THEN 0 ELSE n - 1
             l == First(b, n)
  <1>1. n \in Nat /\ m \in 0 .. n /\ m \in 0 .. LineMax
    BY CharacterFacts
  <1>2. /\ l \in Seq(Chars) /\ Len(l) = n
        /\ \A i \in 1 .. n : l[i] = b[i - 1]
    BY FirstFacts
  <1>3. First(b, 0) = <<>>
    BY DEF First
  <1>4. ch \notin Ends
    BY CharacterFacts DEF Chars
  <1>5. CASE ch = "kill"
    BY <1>1, <1>3, <1>4, <1>5 DEF Edited
  <1>6. CASE ch # "kill" /\ n = 0
    <2>1. ch = "back" /\ l = <<>>
      BY <1>3, <1>6 DEF Edits
    <2>2. Edited(l, ch) = <<>>
      BY <1>4, <2>1 DEF Edited
    <2> QED BY <1>1, <1>3, <1>6, <2>2
  <1>7. CASE ch # "kill" /\ n # 0
    <2>1. ch = "back" /\ m = n - 1 /\ n > 0
      BY <1>1, <1>7 DEF Edits
    <2> HIDE DEF l, m
    <2>2. l # <<>>
      BY <1>2, <2>1
    <2>3. Edited(l, ch) = Front(l)
      BY <1>4, <2>1, <2>2 DEF Edited
    <2>4. /\ Front(l) \in Seq(Chars) /\ Len(Front(l)) = m
          /\ \A i \in 1 .. m : Front(l)[i] = l[i]
      BY <1>2, <2>1, FrontElements
    <2>5. /\ First(b, m) \in Seq(Chars) /\ Len(First(b, m)) = m
          /\ \A i \in 1 .. m : First(b, m)[i] = b[i - 1]
      BY <1>1, FirstFacts
    <2>6. \A i \in 1 .. m : i \in 1 .. n
      BY <1>1
    <2>7. First(b, m) = Front(l)
      <3>1. \A i \in 1 .. m : First(b, m)[i] = Front(l)[i]
        BY <1>2, <2>4, <2>5, <2>6
      <3> QED BY <2>4, <2>5, <3>1, SameElements
    <2> QED BY <1>1, <2>3, <2>7 DEF m, l
  <1> QED BY <1>5, <1>6, <1>7

\* The characters at the head of the buffer after one is written behind them.
LEMMA WrittenFirst ==
  ASSUME NEW b \in [0 .. LineMax -> Chars], NEW n \in 0 .. LineMax,
         n < LineMax, NEW ch \in Letters \cup Data
  PROVE  First([b EXCEPT ![n] = ch], n + 1) = Edited(First(b, n), ch)
  <1> DEFINE c == [b EXCEPT ![n] = ch]
             l == First(b, n)
  <1>1. n \in Nat /\ n + 1 \in 0 .. LineMax /\ ch \in Chars
    BY CharacterFacts DEF Chars
  <1>2. /\ c \in [0 .. LineMax -> Chars] /\ c[n] = ch
        /\ \A i \in 0 .. n - 1 : c[i] = b[i]
    BY <1>1
  <1>3. /\ l \in Seq(Chars) /\ Len(l) = n
        /\ \A i \in 1 .. n : l[i] = b[i - 1]
    BY FirstFacts
  <1> HIDE DEF c, l
  <1>4. /\ First(c, n + 1) \in Seq(Chars) /\ Len(First(c, n + 1)) = n + 1
        /\ \A i \in 1 .. n + 1 : First(c, n + 1)[i] = c[i - 1]
    BY <1>1, <1>2, FirstFacts
  <1>5. Edited(l, ch) = Append(l, ch)
    <2>1. ch \notin Ends /\ ch # "kill" /\ ch # "back"
      BY <1>1, CharacterFacts DEF Edits
    <2> QED BY <2>1 DEF Edited
  <1>6. /\ Append(l, ch) \in Seq(Chars) /\ Len(Append(l, ch)) = n + 1
        /\ \A i \in 1 .. n : Append(l, ch)[i] = l[i]
        /\ Append(l, ch)[n + 1] = ch
    BY <1>1, <1>3
  <1>7. ASSUME NEW i \in 1 .. n + 1
        PROVE  First(c, n + 1)[i] = Append(l, ch)[i]
    <2>1. CASE i = n + 1
      <3>1. i - 1 = n
        BY <1>1, <2>1
      <3> QED BY <1>2, <1>4, <1>6, <2>1, <3>1
    <2>2. CASE i \in 1 .. n
      <3>1. i - 1 \in 0 .. n - 1
        BY <1>1, <2>2
      <3> QED BY <1>2, <1>3, <1>4, <1>6, <2>2, <3>1
    <2>3. i = n + 1 \/ i \in 1 .. n
      BY <1>1
    <2> QED BY <2>1, <2>2, <2>3
  <1>8. First(c, n + 1) = Append(l, ch)
    BY <1>4, <1>6, <1>7, SameElements
  <1> QED BY <1>5, <1>8 DEF c, l

-----------------------------------------------------------------------------
(* A character keeps the reader right.                                     *)

Fed(s, p, ch, h) ==
  /\ s \in Readers /\ p \in Ports /\ ch \in Chars /\ s.ready = "none"
  /\ LineRight(s, p, h) /\ LineRight(s, Other(p), h)
  /\ ch = "data" => Loose(h, p)

Good(r, p, h) ==
  /\ r \in Readers /\ r.ready \in {"none", p} /\ ReaderRight(r, h)

LEMMA PositionFacts ==
  ASSUME NEW s \in Readers, NEW p \in Ports
  PROVE  /\ s.port[p].pos \in 0 .. LineMax /\ s.port[p].pos \in Nat
         /\ s.own[p] \in Lines /\ s.buf \in [0 .. LineMax -> Chars]
  <1>1. s.port[p] \in Positions
    BY DEF Readers
  <1> QED BY <1>1, CharacterFacts DEF Readers, Positions

LEMMA BothRight ==
  ASSUME NEW r, NEW p \in Ports, NEW h,
         LineRight(r, p, h), LineRight(r, Other(p), h)
  PROVE  \A q \in Ports : LineRight(r, q, h)
  <1> TAKE q \in Ports
  <1>1. q = p \/ q = Other(p)
    BY CharacterFacts
  <1> QED BY <1>1

LEMMA SkipRight ==
  ASSUME NEW s, NEW p, NEW h, Fed(s, p, "lf", h), s.port[p].cr
  PROVE  Good(Feed(s, p, "lf"), p, h)
  <1> DEFINE r == Feed(s, p, "lf")
             q == Other(p)
  <1>1. s \in Readers /\ p \in Ports /\ s.ready = "none"
        /\ LineRight(s, p, h) /\ LineRight(s, q, h)
    BY DEF Fed
  <1>2. /\ r \in Readers /\ r.buf = s.buf /\ r.ready = s.ready /\ r.was = s.was
        /\ r.own = s.own /\ r.port[q] = s.port[q]
        /\ r.port[p].pos = s.port[p].pos
    BY <1>1, FeedSkip
  <1> HIDE DEF r, q
  <1>3. LineRight(r, p, h) /\ LineRight(r, q, h)
    BY <1>1, <1>2 DEF LineRight
  <1>4. \A x \in Ports : LineRight(r, x, h)
    BY <1>1, <1>3, BothRight DEF q
  <1> QED BY <1>1, <1>2, <1>4 DEF Good, ReaderRight, ReadyRight, r

LEMMA EditRight ==
  ASSUME NEW s, NEW p, NEW h, NEW ch \in Edits, Fed(s, p, ch, h)
  PROVE  Good(Feed(s, p, ch), p, h)
  <1> DEFINE r == Feed(s, p, ch)
             q == Other(p)
             n == s.port[p].pos
             m == IF ch = "kill" \/ n = 0 THEN 0 ELSE n - 1
  <1>1. s \in Readers /\ p \in Ports /\ s.ready = "none" /\ ch \in Chars
        /\ LineRight(s, p, h) /\ LineRight(s, q, h)
    BY DEF Fed
  <1>2. /\ r \in Readers /\ r.buf = s.buf /\ r.ready = s.ready /\ r.was = s.was
        /\ r.port[q] = s.port[q] /\ r.port[p].pos = m
        /\ r.own[p] = With(s.own[p], ch) /\ r.own[q] = s.own[q]
    BY <1>1, FeedEdit
  <1>3. n \in 0 .. LineMax /\ n \in Nat /\ s.own[p] \in Lines
        /\ s.buf \in [0 .. LineMax -> Chars]
    BY <1>1, PositionFacts
  <1> HIDE DEF r, q, n
  <1>4. m \in 0 .. n /\ First(s.buf, m) = Edited(First(s.buf, n), ch)
    BY <1>3, EditedFirst
  <1> HIDE DEF m
  <1>5. m \in 0 .. LineMax
    BY <1>3, <1>4, CharacterFacts
  <1>6. LineRight(r, q, h)
    BY <1>1, <1>2 DEF LineRight
  <1>7. ASSUME ~ r.own[p].spoiled
        PROVE  /\ Belongs(r.buf, m, r.own[p])
               /\ ~ Loose(h, p) => NoDataIn(r.buf, m)
    <2>1. ~ s.own[p].spoiled
      BY <1>1, <1>2, <1>3, <1>7, WithFacts
    <2>2. Belongs(s.buf, n, s.own[p]) /\ (~ Loose(h, p) => NoDataIn(s.buf, n))
      BY <1>1, <2>1 DEF LineRight, n
    <2>3. \A i \in 0 .. m - 1 : i \in 0 .. n - 1
      BY <1>3, <1>4
    <2>4. \A i \in 0 .. m - 1 : s.buf[i] \in Letters \cup Data
      BY <2>2, <2>3 DEF Belongs
    <2>5. Belongs(s.buf, m, With(s.own[p], ch))
      BY <1>1, <1>3, <1>4, <1>5, <2>2, <2>4, EditedBelongs
    <2>6. ~ Loose(h, p) => NoDataIn(s.buf, m)
      BY <2>2, <2>3 DEF NoDataIn
    <2> QED BY <1>2, <2>5, <2>6
  <1>8. LineRight(r, p, h)
    BY <1>2, <1>7 DEF LineRight
  <1>9. \A x \in Ports : LineRight(r, x, h)
    BY <1>1, <1>6, <1>8, BothRight DEF q
  <1> QED BY <1>1, <1>2, <1>9 DEF Good, ReaderRight, ReadyRight, r


LEMMA WriteRight ==
  ASSUME NEW s, NEW p, NEW h, NEW ch \in Letters \cup Data, Fed(s, p, ch, h),
         s.port[p].pos < LineMax
  PROVE  Good(Feed(s, p, ch), p, h)
  <1> DEFINE r == Feed(s, p, ch)
             q == Other(p)
             n == s.port[p].pos
             c == [s.buf EXCEPT ![n] = ch]
  <1>1. s \in Readers /\ p \in Ports /\ s.ready = "none" /\ ch \in Chars
        /\ LineRight(s, p, h) /\ LineRight(s, q, h)
        /\ (ch = "data" => Loose(h, p))
    BY DEF Fed
  <1>2. /\ r \in Readers /\ r.buf = c /\ r.ready = s.ready /\ r.was = s.was
        /\ r.port[p].pos = n + 1 /\ r.own[p] = With(s.own[p], ch)
        /\ OtherKept(r, s, p)
        /\ r.own[q].spoiled = (s.own[q].spoiled \/ n < s.port[q].pos)
    BY <1>1, FeedWrite
  <1>3. n \in 0 .. LineMax /\ n \in Nat /\ s.own[p] \in Lines /\ n < LineMax
        /\ s.buf \in [0 .. LineMax -> Chars]
    BY <1>1, PositionFacts
  <1>4. q \in Ports /\ s.port[q].pos \in Nat /\ s.port[q].pos \in 0 .. LineMax
    BY <1>1, CharacterFacts, PositionFacts
  <1>5. First(c, n + 1) = Edited(First(s.buf, n), ch)
    BY <1>3, WrittenFirst
  <1>6. /\ c \in [0 .. LineMax -> Chars] /\ c[n] = ch
        /\ \A i \in 0 .. LineMax : i # n => c[i] = s.buf[i]
    BY <1>1, <1>3
  <1> HIDE DEF r, n, c
  <1>7. LineRight(r, q, h)
    <2>1. ASSUME ~ r.own[q].spoiled
          PROVE  /\ ~ s.own[q].spoiled
                 /\ \A i \in 0 .. s.port[q].pos - 1 : r.buf[i] = s.buf[i]
      <3>1. ~ s.own[q].spoiled /\ ~ n < s.port[q].pos
        BY <1>2, <2>1
      <3>2. \A i \in 0 .. s.port[q].pos - 1 : i \in 0 .. LineMax /\ i # n
        BY <1>3, <1>4, <3>1, CharacterFacts
      <3> QED BY <1>2, <1>6, <3>1, <3>2
    <2> QED BY <1>1, <1>2, <2>1, OtherRight
  <1>8. ASSUME ~ r.own[p].spoiled
        PROVE  /\ Belongs(r.buf, n + 1, r.own[p])
               /\ ~ Loose(h, p) => NoDataIn(r.buf, n + 1)
    <2>1. ~ s.own[p].spoiled
      BY <1>1, <1>2, <1>3, <1>8, WithFacts
    <2>2. Belongs(s.buf, n, s.own[p]) /\ (~ Loose(h, p) => NoDataIn(s.buf, n))
      BY <1>1, <2>1 DEF LineRight, n
    <2>3. ASSUME NEW i \in 0 .. (n + 1) - 1
          PROVE  i = n \/ (i \in 0 .. n - 1 /\ i \in 0 .. LineMax /\ i # n)
      <3>1. LineMax \in Nat /\ n \in Nat /\ n <= LineMax
        BY <1>3, CharacterFacts
      <3> QED BY <3>1
    <2>4. \A i \in 0 .. (n + 1) - 1 : c[i] \in Letters \cup Data
      BY <1>6, <2>2, <2>3 DEF Belongs
    <2>5. n + 1 \in 0 .. LineMax
      <3>1. LineMax \in Nat
        BY CharacterFacts
      <3> QED BY <1>3, <3>1
    <2>6. Belongs(c, n + 1, With(s.own[p], ch))
      BY <1>1, <1>3, <1>5, <1>6, <2>2, <2>4, <2>5, EditedBelongs
    <2>7. ~ Loose(h, p) => NoDataIn(c, n + 1)
      BY <1>1, <1>6, <2>2, <2>3 DEF NoDataIn
    <2> QED BY <1>2, <2>6, <2>7
  <1>9. LineRight(r, p, h)
    BY <1>2, <1>8 DEF LineRight
  <1>10. \A x \in Ports : LineRight(r, x, h)
    BY <1>1, <1>7, <1>9, BothRight
  <1> QED BY <1>1, <1>2, <1>10 DEF Good, ReaderRight, ReadyRight, r

LEMMA OverflowRight ==
  ASSUME NEW s, NEW p, NEW h, NEW ch \in Letters \cup Data, Fed(s, p, ch, h),
         s.port[p].pos >= LineMax
  PROVE  Good(Feed(s, p, ch), p, h)
  <1> DEFINE r == Feed(s, p, ch)
             q == Other(p)
             l == With(s.own[p], ch)
  <1>1. s \in Readers /\ p \in Ports /\ s.ready = "none" /\ ch \in Chars
        /\ LineRight(s, p, h) /\ LineRight(s, q, h)
    BY DEF Fed
  <1>2. /\ r \in Readers /\ r.buf = s.buf /\ r.ready = s.ready /\ r.was = s.was
        /\ r.port[p].pos = 0 /\ r.port[q] = s.port[q]
        /\ r.own[p] = [l EXCEPT !.long = TRUE] /\ r.own[q] = s.own[q]
    BY <1>1, FeedOverflow
  <1>3. l \in Lines /\ l.raw \in Seq(Chars)
    <2>1. s.own[p] \in Lines
      BY <1>1, PositionFacts
    <2> QED BY <1>1, <2>1, WithFacts DEF Lines
  <1> HIDE DEF r, q, l
  <1>4. r.own[p].long /\ r.own[p].raw = l.raw
    BY <1>2, <1>3 DEF Lines
  <1>5. LineRight(r, q, h)
    BY <1>1, <1>2 DEF LineRight
  <1>6. LineRight(r, p, h)
    <2>1. First(r.buf, 0) = <<>> /\ NoDataIn(r.buf, 0)
      BY NothingBelongs DEF First
    <2>2. IsSuffix(<<>>, Meant(l.raw))
      BY <1>3, MeantIsLine, TrivialSuffixes
    <2>3. Belongs(r.buf, 0, r.own[p])
      <3>1. \A i \in 0 .. 0 - 1 : FALSE
        OBVIOUS
      <3> QED BY <1>4, <2>1, <2>2, <3>1 DEF Belongs
    <2> QED BY <1>2, <2>1, <2>3 DEF LineRight
  <1>7. \A x \in Ports : LineRight(r, x, h)
    BY <1>1, <1>5, <1>6, BothRight DEF q
  <1> QED BY <1>1, <1>2, <1>7 DEF Good, ReaderRight, ReadyRight, r

LEMMA EndRight ==
  ASSUME NEW s, NEW p, NEW h, NEW ch \in Ends, Fed(s, p, ch, h),
         ~ (ch = "lf" /\ s.port[p].cr)
  PROVE  Good(Feed(s, p, ch), p, h)
  <1> DEFINE r == Feed(s, p, ch)
             q == Other(p)
             n == s.port[p].pos
             c == [s.buf EXCEPT ![n] = "lf"]
  <1>1. s \in Readers /\ p \in Ports /\ s.ready = "none" /\ ch \in Chars
        /\ LineRight(s, p, h) /\ LineRight(s, q, h)
    BY DEF Fed
  <1>2. /\ r \in Readers /\ r.buf = c /\ r.ready = p
        /\ r.was = With(s.own[p], ch) /\ r.port[p].pos = 0
        /\ r.own[p] = Fresh /\ OtherKept(r, s, p)
        /\ r.own[q].spoiled = (s.own[q].spoiled \/ s.port[q].pos > 0)
    BY <1>1, FeedEnd
  <1>3. n \in 0 .. LineMax /\ n \in Nat /\ s.own[p] \in Lines
        /\ s.buf \in [0 .. LineMax -> Chars]
    BY <1>1, PositionFacts
  <1>4. q \in Ports /\ s.port[q].pos \in Nat
    BY <1>1, CharacterFacts, PositionFacts
  <1>5. /\ c \in [0 .. LineMax -> Chars] /\ c[n] \in Ends
        /\ \A i \in 0 .. n - 1 : c[i] = s.buf[i]
    BY <1>3, CharacterFacts
  <1> HIDE DEF r, c
  <1>6. LineRight(r, q, h)
    <2>1. ASSUME ~ r.own[q].spoiled
          PROVE  /\ ~ s.own[q].spoiled
                 /\ \A i \in 0 .. s.port[q].pos - 1 : r.buf[i] = s.buf[i]
      <3>0. ~ s.own[q].spoiled /\ ~ s.port[q].pos > 0
        BY <1>2, <2>1
      <3>1. ~ s.own[q].spoiled /\ s.port[q].pos = 0
        BY <1>4, <3>0
      <3>2. \A i \in 0 .. s.port[q].pos - 1 : FALSE
        BY <3>1
      <3> QED BY <3>1, <3>2
    <2> QED BY <1>1, <1>2, <2>1, OtherRight
  <1>7. LineRight(r, p, h)
    BY <1>2, NothingBelongs DEF LineRight
  <1>8. \A x \in Ports : LineRight(r, x, h)
    BY <1>1, <1>6, <1>7, BothRight
  <1> HIDE DEF n, q
  <1>9. ASSUME ~ r.was.spoiled
        PROVE  Belongs(c, n, r.was) /\ (~ Loose(h, p) => NoDataIn(c, n))
    <2>1. ~ s.own[p].spoiled
      BY <1>1, <1>2, <1>3, <1>9, WithFacts
    <2>2. Belongs(s.buf, n, s.own[p]) /\ (~ Loose(h, p) => NoDataIn(s.buf, n))
      BY <1>1, <2>1 DEF LineRight, n
    <2> DEFINE b == s.buf
    <2>3. \A i \in 0 .. n - 1 : c[i] = b[i]
      BY <1>5
    <2> HIDE DEF b
    <2>4. First(c, n) = First(b, n) /\ (NoDataIn(c, n) <=> NoDataIn(b, n))
      <3>1. n \in Nat
        BY <1>3
      <3>2. First(c, n) = First(b, n)
        BY <2>3, <3>1, FirstSame
      <3>3. NoDataIn(c, n) <=> NoDataIn(b, n)
        BY <2>3 DEF NoDataIn
      <3> QED BY <3>2, <3>3
    <2>5. First(b, n) = Edited(First(b, n), ch)
      BY DEF Edited, Ends
    <2>6. \A i \in 0 .. n - 1 : c[i] \in Letters \cup Data
      BY <2>2, <2>3 DEF Belongs, b
    <2>7. Belongs(c, n, With(s.own[p], ch))
      BY <1>1, <1>3, <1>5, <2>2, <2>4, <2>5, <2>6, EditedBelongs DEF b
    <2> QED BY <1>2, <2>2, <2>4, <2>7 DEF b
  <1>10. ReadyRight(r, h)
    BY <1>2, <1>3, <1>5, <1>9 DEF ReadyRight
  <1> QED BY <1>2, <1>8, <1>10 DEF Good, ReaderRight, r

\* feed_line_char
LEMMA FeedRight ==
  ASSUME NEW s, NEW p, NEW ch, NEW h, Fed(s, p, ch, h)
  PROVE  Good(Feed(s, p, ch), p, h)
  <1>1. s \in Readers /\ p \in Ports /\ ch \in Chars
    BY DEF Fed
  <1>2. s.port[p].pos \in Nat
    BY <1>1, PositionFacts
  <1>3. CASE ch = "lf" /\ s.port[p].cr
    BY <1>3, SkipRight
  <1>4. CASE ch \in Ends /\ ~ (ch = "lf" /\ s.port[p].cr)
    BY <1>4, EndRight
  <1>5. CASE ch \in Edits
    BY <1>5, EditRight
  <1>6. CASE ch \in Letters \cup Data
    <2>1. s.port[p].pos < LineMax \/ s.port[p].pos >= LineMax
      BY <1>2, CharacterFacts
    <2> QED BY <1>6, <2>1, WriteRight, OverflowRight
  <1> QED BY <1>1, <1>3, <1>4, <1>5, <1>6, CharacterFacts


-----------------------------------------------------------------------------
(* A chunk of characters of the USB port keeps the reader right.           *)

\* What follows the end of a line in a chunk is lost.
LEMMA LostRight ==
  ASSUME NEW s, NEW h, Good(s, "usb", h), s.ready # "none"
  PROVE  Good([s EXCEPT !.own["usb"].lost = TRUE], "usb", h)
  <1> DEFINE r == [s EXCEPT !.own["usb"].lost = TRUE]
             line == [s.own["usb"] EXCEPT !.lost = TRUE]
             lines == [s.own EXCEPT !["usb"] = line]
  <1>1. /\ s \in Readers /\ s.ready = "usb" /\ ReadyRight(s, h)
        /\ LineRight(s, "usb", h) /\ LineRight(s, "uart", h)
    BY DEF Good, ReaderRight, Ports
  <1>2. /\ s.own \in [Ports -> Lines] /\ "usb" \in Ports /\ "uart" \in Ports
        /\ "usb" # "uart"
    BY <1>1 DEF Readers, Ports
  <1>3. line \in Lines /\ line.lost /\ line.spoiled = s.own["usb"].spoiled
    <2>1. s.own["usb"] \in Lines
      BY <1>2
    <2> QED BY <2>1 DEF Lines
  <1>4. r = [s EXCEPT !.own = lines]
    OBVIOUS
  <1> HIDE DEF line
  <1>5. /\ lines \in [Ports -> Lines] /\ lines["usb"] = line
        /\ lines["uart"] = s.own["uart"]
    BY <1>2, <1>3
  <1> HIDE DEF lines, r
  <1>6. /\ r \in Readers /\ r.own = lines /\ r.port = s.port /\ r.buf = s.buf
        /\ r.ready = s.ready /\ r.was = s.was
    BY <1>1, <1>4, <1>5 DEF Readers
  <1>7. r.port["usb"].pos = 0
    BY <1>1, <1>6 DEF ReadyRight
  <1>8. LineRight(r, "usb", h)
    <2>1. \A i \in 0 .. 0 - 1 : FALSE
      OBVIOUS
    <2>2. Belongs(r.buf, 0, r.own["usb"]) /\ NoDataIn(r.buf, 0)
      BY <1>3, <1>5, <1>6, <2>1 DEF Belongs, NoDataIn
    <2> QED BY <1>7, <2>2 DEF LineRight
  <1>9. LineRight(r, "uart", h)
    BY <1>1, <1>5, <1>6 DEF LineRight
  <1>10. ReadyRight(r, h)
    BY <1>1, <1>6 DEF ReadyRight
  <1> QED BY <1>1, <1>6, <1>8, <1>9, <1>10 DEF Good, ReaderRight, Ports, r

LEMMA FeedChunkRight ==
  ASSUME NEW s, NEW h, NEW ch \in Chars, Good(s, "usb", h),
         ch = "data" => Loose(h, "usb")
  PROVE  Good(FeedChunk(s, ch), "usb", h)
  <1>1. CASE s.ready = "none"
    <2>1. "usb" \in Ports /\ Other("usb") \in Ports
      BY DEF Ports, Other
    <2>2. Fed(s, "usb", ch, h)
      BY <1>1, <2>1 DEF Fed, Good, ReaderRight
    <2>3. Good(Feed(s, "usb", ch), "usb", h)
      BY <2>2, FeedRight
    <2> QED BY <1>1, <2>3 DEF FeedChunk
  <1>2. CASE s.ready # "none"
    <2>1. Good([s EXCEPT !.own["usb"].lost = TRUE], "usb", h)
      BY <1>2, LostRight
    <2> QED BY <1>2, <2>1 DEF FeedChunk
  <1> QED BY <1>1, <1>2

\* The readers behind the characters of a chunk.
ChunkTo(f, chunk) ==
  f = [k \in 0 .. Len(chunk) |->
         IF k = 0 THEN Reader ELSE FeedChunk(f[k - 1], chunk[k])]

LEMMA ChunkToExists ==
  ASSUME NEW chunk \in Seq(Chars)
  PROVE  \E f : ChunkTo(f, chunk)
  <1> DEFINE To(f, m) == f = [k \in 0 .. m |-> IF k = 0 THEN Reader
                                          ELSE FeedChunk(f[k - 1], chunk[k])]
             Defined == {m \in Nat : \E f : To(f, m)}
  <1>1. 0 \in Defined
    <2>1. To([k \in 0 .. 0 |-> Reader], 0)
      OBVIOUS
    <2> QED BY <2>1
  <1>2. ASSUME NEW m \in 0 .. Len(chunk) - 1, m \in Defined
        PROVE  m + 1 \in Defined
    <2>1. PICK f : To(f, m)
      BY <1>2
    <2> DEFINE g == [k \in 0 .. m + 1 |->
                       IF k <= m THEN f[k] ELSE FeedChunk(f[k - 1], chunk[k])]
    <2>2. ASSUME NEW k \in 0 .. m + 1
          PROVE  g[k] = IF k = 0 THEN Reader ELSE FeedChunk(g[k - 1], chunk[k])
      <3>1. CASE k <= m
        <4>1. f[k] = IF k = 0 THEN Reader ELSE FeedChunk(f[k - 1], chunk[k])
          BY <2>1, <3>1
        <4>2. g[k] = f[k] /\ (k # 0 => g[k - 1] = f[k - 1])
          BY <3>1
        <4> QED BY <4>1, <4>2
      <3>2. CASE k = m + 1
        <4>1. g[k - 1] = f[k - 1] /\ k # 0
          BY <3>2
        <4> QED BY <3>2, <4>1
      <3> QED BY <3>1, <3>2
    <2>3. To(g, m + 1)
      <3> HIDE DEF g
      <3>1. DOMAIN g = 0 .. m + 1 /\ g = [k \in DOMAIN g |-> g[k]]
        BY DEF g
      <3> QED BY <2>2, <3>1
    <2>4. m + 1 \in Nat
      OBVIOUS
    <2> HIDE DEF g, To
    <2> QED BY <2>3, <2>4
  <1>3. Len(chunk) \in Defined
    <2> HIDE DEF Defined
    <2>1. Len(chunk) \in Nat /\ Len(chunk) \in 0 .. Len(chunk)
      OBVIOUS
    <2> DEFINE n == Len(chunk)
    <2>2. \A k \in 0 .. n - 1 : k \in Defined => k + 1 \in Defined
      BY <1>2
    <2> HIDE DEF n
    <2>3. \A k \in 0 .. n : k \in Defined
      BY <1>1, <2>1, <2>2, Induction DEF n
    <2> QED BY <2>1, <2>3 DEF n
  <1> QED BY <1>3 DEF ChunkTo

LEMMA FedChunkRight ==
  ASSUME NEW chunk \in Seq(Chars), NEW h, Good(Reader, "usb", h),
         \A k \in 1 .. Len(chunk) : chunk[k] = "data" => Loose(h, "usb")
  PROVE  Good(FedChunk(chunk), "usb", h)
  <1> DEFINE fed == CHOOSE f : ChunkTo(f, chunk)
             n == Len(chunk)
  <1>1. ChunkTo(fed, chunk)
    BY ChunkToExists
  <1>2. FedChunk(chunk) = fed[n]
    BY DEF FedChunk, ChunkTo
  <1>3. n \in Nat /\ \A k \in 1 .. n : chunk[k] \in Chars
    OBVIOUS
  <1>4. \A k \in 0 .. n :
          fed[k] = IF k = 0 THEN Reader ELSE FeedChunk(fed[k - 1], chunk[k])
    <2> HIDE DEF fed
    <2> QED BY <1>1 DEF ChunkTo
  <1>5. \A k \in 1 .. n : chunk[k] = "data" => Loose(h, "usb")
    OBVIOUS
  <1> HIDE DEF fed, n
  <1> DEFINE Right == {k \in 0 .. n : Good(fed[k], "usb", h)}
  <1>6. 0 \in Right
    BY <1>3, <1>4
  <1>7. ASSUME NEW k \in 0 .. n - 1, k \in Right PROVE k + 1 \in Right
    <2>1. k + 1 \in 1 .. n /\ k + 1 \in 0 .. n /\ (k + 1) - 1 = k /\ k + 1 # 0
      BY <1>3
    <2>2. fed[k + 1] = FeedChunk(fed[k], chunk[k + 1])
      BY <1>4, <2>1
    <2>3. Good(FeedChunk(fed[k], chunk[k + 1]), "usb", h)
      BY <1>3, <1>5, <1>7, <2>1, FeedChunkRight
    <2> QED BY <2>1, <2>2, <2>3
  <1>8. n \in Right
    <2> HIDE DEF Right
    <2>1. \A k \in 0 .. n : k \in Right
      BY <1>3, <1>6, <1>7, Induction
    <2> QED BY <1>3, <2>1
  <1> QED BY <1>2, <1>8


-----------------------------------------------------------------------------
(* The line in the buffer.                                                 *)

LEMMA InBufferFacts ==
  ASSUME NEW b \in [0 .. LineMax -> Chars], NEW n \in 0 .. LineMax, b[n] \in Ends
  PROVE  /\ InBuffer(b) \in Seq(Chars)
         /\ (\A j \in 0 .. n - 1 : b[j] \in Letters \cup Data)
              => InBuffer(b) = First(b, n)
  <1> DEFINE Found == {i \in 0 .. LineMax : b[i] \in Ends}
             IsFirst(i) == b[i] \in Ends /\ \A j \in 0 .. i - 1 : b[j] \notin Ends
             end == CHOOSE i \in 0 .. LineMax : IsFirst(i)
  <1>1. Found \in SUBSET Nat /\ n \in Found /\ n \in Nat
    BY CharacterFacts
  <1>2. \E i \in Found : \A j \in Found : <<j, i>> \notin OpToRel(<, Nat)
    <2> HIDE DEF Found
    <2> QED BY <1>1, NatLessThanWellFounded, WFMin
  <1>3. \A i, j \in Nat : <<j, i>> \notin OpToRel(<, Nat) => i <= j
    BY DEF OpToRel
  <1>4. PICK first \in Found : \A j \in Found : first <= j
    BY <1>1, <1>2, <1>3
  <1>5. first \in 0 .. LineMax /\ first \in Nat /\ b[first] \in Ends
    BY <1>1, <1>4
  <1>6. IsFirst(first)
    <2>1. ASSUME NEW j \in 0 .. first - 1 PROVE b[j] \notin Ends
      <3>1. j \in 0 .. LineMax /\ ~ first <= j
        BY <1>5, CharacterFacts
      <3> QED BY <1>4, <3>1
    <2> QED BY <1>5, <2>1
  <1>7. end \in 0 .. LineMax /\ IsFirst(end)
    BY <1>5, <1>6
  <1>8. InBuffer(b) = First(b, end)
    BY DEF InBuffer, First
  <1> HIDE DEF end
  <1>9. First(b, end) \in Seq(Chars)
    BY <1>7, FirstFacts
  <1>10. ASSUME \A j \in 0 .. n - 1 : b[j] \in Letters \cup Data
         PROVE  end = n
    <2>1. end \in Nat
      BY <1>7, CharacterFacts
    <2>2. ~ end < n
      <3>1. SUFFICES ASSUME end < n PROVE FALSE
        OBVIOUS
      <3>2. end \in 0 .. n - 1
        BY <1>1, <2>1, <3>1
      <3>3. b[end] \in Letters \cup Data /\ b[end] \in Ends /\ b[end] \in Chars
        BY <1>7, <1>10, <3>2
      <3> QED BY <3>3, CharacterFacts
    <2>3. ~ n < end
      <3>1. SUFFICES ASSUME n < end PROVE FALSE
        OBVIOUS
      <3>2. n \in 0 .. end - 1
        BY <1>1, <2>1, <3>1
      <3> QED BY <1>7, <3>2
    <2> QED BY <1>1, <2>1, <2>2, <2>3
  <1> QED BY <1>8, <1>9, <1>10

\* The line that is ready is the one its port sent.
LEMMA ReadyLine ==
  ASSUME NEW s \in Readers, NEW h, ReadyRight(s, h), s.ready # "none"
  PROVE  LET line == InBuffer(s.buf) IN
         /\ line \in Seq(Chars) /\ s.port[s.ready].pos = 0
         /\ ~ (s.was.spoiled \/ s.was.lost) =>
              /\ IsSuffix(line, Meant(s.was.raw))
              /\ ~ s.was.long => line = Meant(s.was.raw)
         /\ (\E i \in DOMAIN line : line[i] = "data")
              => Loose(h, s.ready) \/ s.was.spoiled
  <1> DEFINE line == InBuffer(s.buf)
  <1>1. PICK n \in 0 .. LineMax :
          /\ s.buf[n] \in Ends
          /\ ~ s.was.spoiled =>
               /\ Belongs(s.buf, n, s.was)
               /\ ~ Loose(h, s.ready) => NoDataIn(s.buf, n)
    BY DEF ReadyRight
  <1>2. s.buf \in [0 .. LineMax -> Chars]
    BY DEF Readers
  <1>3. line \in Seq(Chars)
    BY <1>1, <1>2, InBufferFacts
  <1>4. ASSUME ~ s.was.spoiled PROVE line = First(s.buf, n)
    <2>1. \A j \in 0 .. n - 1 : s.buf[j] \in Letters \cup Data
      BY <1>1, <1>4 DEF Belongs
    <2> QED BY <1>1, <1>2, <2>1, InBufferFacts
  <1> HIDE DEF line
  <1>5. ASSUME ~ (s.was.spoiled \/ s.was.lost)
        PROVE  /\ IsSuffix(line, Meant(s.was.raw))
               /\ ~ s.was.long => line = Meant(s.was.raw)
    BY <1>1, <1>4, <1>5 DEF Belongs
  <1>6. ASSUME ~ s.was.spoiled, ~ Loose(h, s.ready), NEW i \in DOMAIN line,
               line[i] = "data"
        PROVE  FALSE
    <2>1. line = First(s.buf, n) /\ NoDataIn(s.buf, n) /\ n \in Nat
      BY <1>1, <1>4, <1>6, CharacterFacts
    <2>2. i \in 1 .. n /\ line[i] = s.buf[i - 1]
      BY <2>1 DEF First
    <2>3. i - 1 \in 0 .. n - 1
      BY <2>1, <2>2
    <2> QED BY <1>6, <2>1, <2>2, <2>3 DEF NoDataIn
  <1>7. s.port[s.ready].pos = 0
    BY DEF ReadyRight
  <1> QED BY <1>3, <1>5, <1>6, <1>7 DEF line


-----------------------------------------------------------------------------
(* The step that runs a line, or none.                                     *)

LEMMA NoLineIsOwn ==
  /\ IsSuffix(NoLine.line, Meant(NoLine.own.raw))
  /\ NoLine.line = Meant(NoLine.own.raw)
  /\ \A i \in DOMAIN NoLine.line : NoLine.line[i] # "data"
  <1>1. NoLine.line = <<>> /\ NoLine.own.raw = <<>>
    BY CharacterFacts DEF NoLine
  <1>2. \A i \in DOMAIN <<>> : FALSE
    OBVIOUS
  <1> QED BY <1>1, <1>2, MeantOfNone, EmptyIsLine, TrivialSuffixes

\* What waits in the ports after the reader has taken its share.
Received(rest) ==
  /\ rest \in [Ports -> Seq(Chars)] /\ \A p \in Ports : Len(rest[p]) <= FifoMax
  /\ \A p \in Ports : ~ Loose(host, p) =>
       \A i \in 1 .. Len(rest[p]) : rest[p][i] # "data"

Dispatching(s, p, rest) ==
  /\ IInv /\ Idle /\ p \in Ports /\ Good(s, p, host) /\ Received(rest)
  /\ Dispatched(s, rest)

\* The line is the name of the command with data.
IsBulk(s) == s.ready # "none" /\ InBuffer(s.buf) = <<Bulk>>

LEMMA PayloadFacts == Payload \in Nat /\ Payload > 0 /\ FifoMax \in Nat
  BY ReaderAssumption

LEMMA HostFacts ==
  ASSUME TypeOK, NEW p \in Ports
  PROVE  /\ host[p] \in Hosts /\ host[p].left \in Nat
         /\ host[p].ahead \in BOOLEAN /\ host[p].broken \in BOOLEAN
         /\ fifo[p] \in Seq(Chars) /\ Len(fifo[p]) \in Nat /\ Len(fifo[p]) <= FifoMax
  <1>1. host[p] \in Hosts
    BY DEF TypeOK
  <1>2. host[p].left \in Nat /\ host[p].ahead \in BOOLEAN
        /\ host[p].broken \in BOOLEAN
    BY <1>1, PayloadFacts DEF Hosts
  <1>3. fifo[p] \in Seq(Chars) /\ Len(fifo[p]) <= FifoMax
    BY DEF TypeOK
  <1> QED BY <1>1, <1>2, <1>3

\* While no command waits for data, no data waits but that of a loose host.
LEMMA IdleFlow ==
  ASSUME TypeOK, Flow, Idle, NEW p \in Ports, ~ Loose(host, p)
  PROVE  /\ \A i \in 1 .. Len(fifo[p]) : fifo[p][i] # "data"
         /\ host[p].left = 0
  <1>1. Awaited(p) = 0
    BY DEF Awaited, Idle
  <1>2. /\ \A i \in 1 .. Len(fifo[p]) : fifo[p][i] = "data" <=> i <= 0
        /\ IF host[p].left > 0 THEN Len(fifo[p]) + host[p].left = 0
           ELSE Len(fifo[p]) >= 0
    BY <1>1 DEF Flow
  <1>3. \A i \in 1 .. Len(fifo[p]) : ~ i <= 0
    OBVIOUS
  <1>4. host[p].left \in Nat /\ Len(fifo[p]) \in Nat
    BY HostFacts
  <1> QED BY <1>2, <1>3, <1>4

LEMMA DispatchedFacts ==
  ASSUME NEW s, NEW p, NEW rest, Dispatching(s, p, rest)
  PROVE  /\ s \in Readers /\ s.ready \in {"none", p} /\ p \in Ports
         /\ ReaderRight(s, host) /\ TypeOK /\ Flow /\ Gotten /\ wanted = 0
         /\ port' = s.port /\ buf' = s.buf /\ own' = s.own /\ fifo' = rest
         /\ typed' = typed
         /\ s.ready = "none" =>
              /\ last' = NoLine /\ source' = source /\ got' = got
              /\ wanted' = 0 /\ host' = host
         /\ s.ready # "none" =>
              /\ s.ready = p /\ source' = p /\ got' = <<>>
              /\ last' = [line |-> InBuffer(s.buf), port |-> p, own |-> s.was]
         /\ s.ready # "none" /\ ~ IsBulk(s) => wanted' = 0 /\ host' = host
         /\ IsBulk(s) =>
              /\ wanted' = Payload
              /\ host' = [host EXCEPT ![p] =
                   [left |-> Payload, ahead |-> rest[p] # <<>>, broken |-> FALSE]]
  <1>1. /\ IInv /\ Idle /\ p \in Ports /\ Good(s, p, host)
        /\ Dispatched(s, rest)
    BY DEF Dispatching
  <1>2. /\ s \in Readers /\ s.ready \in {"none", p} /\ ReaderRight(s, host)
        /\ TypeOK /\ Flow /\ Gotten /\ wanted = 0
    BY <1>1 DEF Good, IInv, Idle
  <1>3. /\ port' = s.port /\ buf' = s.buf /\ own' = s.own /\ fifo' = rest
        /\ typed' = typed
    BY <1>1 DEF Dispatched
  <1>4. p # "none"
    BY <1>1 DEF Ports
  <1>5. ASSUME s.ready = "none"
        PROVE  /\ last' = NoLine /\ source' = source /\ got' = got
               /\ wanted' = 0 /\ host' = host
    BY <1>1, <1>2, <1>5 DEF Dispatched
  <1>6. ASSUME s.ready # "none"
        PROVE  /\ s.ready = p /\ source' = p /\ got' = <<>>
               /\ last' = [line |-> InBuffer(s.buf), port |-> p, own |-> s.was]
    BY <1>1, <1>2, <1>4, <1>6 DEF Dispatched, SourceOf
  <1>7. ASSUME s.ready # "none", ~ IsBulk(s) PROVE wanted' = 0 /\ host' = host
    BY <1>1, <1>2, <1>7 DEF Dispatched, IsBulk
  <1>8. ASSUME IsBulk(s)
        PROVE  /\ wanted' = Payload
               /\ host' = [host EXCEPT ![p] =
                   [left |-> Payload, ahead |-> rest[p] # <<>>, broken |-> FALSE]]
    BY <1>1, <1>2, <1>4, <1>8 DEF Dispatched, IsBulk
  <1> QED BY <1>1, <1>2, <1>3, <1>5, <1>6, <1>7, <1>8

\* The host that is told READY, and the other one.
LEMMA ReadyHost ==
  ASSUME NEW s, NEW p, NEW rest, Dispatching(s, p, rest), IsBulk(s)
  PROVE  /\ host' \in [Ports -> Hosts] /\ host'[p].left = Payload
         /\ host'[p].ahead = (rest[p] # <<>>) /\ host'[p].broken = FALSE
         /\ host'[Other(p)] = host[Other(p)]
  <1> DEFINE asked == [left |-> Payload, ahead |-> rest[p] # <<>>, broken |-> FALSE]
  <1>1. /\ p \in Ports /\ TypeOK /\ host' = [host EXCEPT ![p] = asked]
    BY DispatchedFacts
  <1>2. asked \in Hosts
    <2>1. Payload \in 0 .. Payload /\ (rest[p] # <<>>) \in BOOLEAN
      BY PayloadFacts
    <2> QED BY <2>1 DEF Hosts
  <1>3. asked.left = Payload /\ asked.ahead = (rest[p] # <<>>)
        /\ asked.broken = FALSE
    OBVIOUS
  <1> HIDE DEF asked
  <1>4. host \in [Ports -> Hosts]
    BY <1>1 DEF TypeOK
  <1>5. /\ host' \in [Ports -> Hosts] /\ host'[p] = asked
        /\ host'[Other(p)] = host[Other(p)]
    BY <1>1, <1>2, <1>4, CharacterFacts
  <1> QED BY <1>3, <1>5

LEMMA DispatchedType ==
  ASSUME NEW s, NEW p, NEW rest, Dispatching(s, p, rest)
  PROVE  TypeOK'
  <1>1. /\ s \in Readers /\ s.ready \in {"none", p} /\ p \in Ports
        /\ ReaderRight(s, host) /\ TypeOK /\ wanted = 0
        /\ port' = s.port /\ buf' = s.buf /\ own' = s.own /\ fifo' = rest
        /\ typed' = typed
    BY DispatchedFacts
  <1>2. /\ fifo' \in [Ports -> Seq(Chars)]
        /\ \A x \in Ports : Len(fifo'[x]) <= FifoMax
    BY <1>1 DEF Dispatching, Received
  <1>3. /\ port' \in [Ports -> [pos : 0 .. LineMax, cr : BOOLEAN]]
        /\ buf' \in [0 .. LineMax -> Chars] /\ own' \in [Ports -> Lines]
        /\ typed' \in 0 .. MaxTyped /\ s.was \in Lines
    BY <1>1 DEF Readers, Positions, TypeOK
  <1>4. host' \in [Ports -> Hosts]
    <2>1. host \in [Ports -> Hosts]
      BY <1>1 DEF TypeOK
    <2> QED BY <2>1, DispatchedFacts, ReadyHost DEF IsBulk
  <1>5. source' \in Ports /\ wanted' \in 0 .. Payload
        /\ got' \in Seq(Chars) /\ Len(got') + wanted' \in {0, Payload}
    <2>1. CASE s.ready = "none"
      <3>1. source' = source /\ wanted' = wanted /\ got' = got
        BY <1>1, <2>1, DispatchedFacts
      <3> QED BY <1>1, <3>1 DEF TypeOK
    <2>2. CASE s.ready # "none"
      <3>1. source' = p /\ got' = <<>> /\ wanted' \in {0, Payload}
        BY <2>2, DispatchedFacts
      <3>2. Len(<<>>) = 0 /\ <<>> \in Seq(Chars)
        BY EmptyIsLine
      <3>3. 0 \in 0 .. Payload /\ Payload \in 0 .. Payload
            /\ 0 + 0 = 0 /\ 0 + Payload = Payload
        BY PayloadFacts
      <3> QED BY <1>1, <3>1, <3>2, <3>3
    <2> QED BY <2>1, <2>2
  <1>6. last' \in [line : Seq(Chars), port : Ports, own : Lines]
    <2>1. CASE s.ready = "none"
      <3>1. last' = NoLine
        BY <2>1, DispatchedFacts
      <3> QED BY <3>1, EmptyIsLine, CharacterFacts DEF NoLine, Ports
    <2>2. CASE s.ready # "none"
      <3>1. last' = [line |-> InBuffer(s.buf), port |-> p, own |-> s.was]
        BY <2>2, DispatchedFacts
      <3>2. InBuffer(s.buf) \in Seq(Chars)
        BY <1>1, <2>2, ReadyLine DEF ReaderRight
      <3> QED BY <1>1, <1>3, <3>1, <3>2
    <2> QED BY <2>1, <2>2
  <1> QED BY <1>2, <1>3, <1>4, <1>5, <1>6 DEF TypeOK


\* What is right of a reader does not depend on the line that was ready.
LEMMA ReaderNext ==
  ASSUME NEW s, port' = s.port, buf' = s.buf, own' = s.own,
         \A q \in Ports : LineRight(s, q, host')
  PROVE  ReaderRight(Reader, host)'
  <1>1. /\ Reader'.port = s.port /\ Reader'.buf = s.buf /\ Reader'.own = s.own
        /\ Reader'.ready = "none"
    BY DEF Reader
  <1>2. ReadyRight(Reader', host')
    BY <1>1 DEF ReadyRight
  <1>3. \A q \in Ports : LineRight(Reader', q, host')
    BY <1>1 DEF LineRight
  <1>4. ReaderRight(Reader', host')
    BY <1>2, <1>3 DEF ReaderRight
  <1> QED BY <1>4 DEF ReaderRight, ReadyRight, LineRight

\* A port whose host is taken for loose as before, or whose line is empty.
LEMMA LineKept ==
  ASSUME NEW s, NEW q, NEW h, NEW g, LineRight(s, q, h),
         Loose(h, q) => Loose(g, q) \/ s.port[q].pos = 0
  PROVE  LineRight(s, q, g)
  BY NothingBelongs DEF LineRight

LEMMA DispatchedReader ==
  ASSUME NEW s, NEW p, NEW rest, Dispatching(s, p, rest)
  PROVE  ReaderRight(Reader, host)'
  <1>1. /\ p \in Ports /\ s \in Readers /\ ReaderRight(s, host)
        /\ port' = s.port /\ buf' = s.buf /\ own' = s.own
    BY DispatchedFacts
  <1>2. ASSUME NEW q \in Ports PROVE LineRight(s, q, host')
    <2>1. LineRight(s, q, host)
      BY <1>1 DEF ReaderRight
    <2>2. CASE ~ IsBulk(s)
      <3>1. host' = host
        BY <2>2, DispatchedFacts
      <3> QED BY <2>1, <3>1
    <2>3. CASE IsBulk(s)
      <3>1. s.ready = p /\ s.ready # "none"
        BY <2>3, DispatchedFacts DEF IsBulk
      <3>2. s.port[p].pos = 0
        BY <1>1, <3>1 DEF ReaderRight, ReadyRight
      <3>3. q = p \/ host'[q] = host[q]
        <4>1. q = p \/ q = Other(p)
          BY <1>1, CharacterFacts
        <4>2. host'[Other(p)] = host[Other(p)]
          BY <2>3, ReadyHost
        <4> QED BY <4>1, <4>2
      <3>4. Loose(host, q) => Loose(host', q) \/ s.port[q].pos = 0
        BY <3>2, <3>3 DEF Loose
      <3> QED BY <2>1, <3>4, LineKept
    <2> QED BY <2>2, <2>3
  <1> QED BY <1>1, <1>2, ReaderNext

LEMMA DispatchedFlow ==
  ASSUME NEW s, NEW p, NEW rest, Dispatching(s, p, rest)
  PROVE  Flow'
  <1>1. /\ p \in Ports /\ TypeOK /\ Flow /\ wanted = 0 /\ fifo' = rest /\ Idle
    BY DispatchedFacts DEF Idle
  <1>2. /\ rest \in [Ports -> Seq(Chars)]
        /\ \A q \in Ports : ~ Loose(host, q) =>
             \A i \in 1 .. Len(rest[q]) : rest[q][i] # "data"
    BY DEF Dispatching, Received
  <1> SUFFICES ASSUME NEW q \in Ports, ~ Loose(host', q)
               PROVE  /\ \A i \in 1 .. Len(rest[q]) :
                           rest[q][i] = "data" <=> i <= Awaited(q)'
                      /\ IF host'[q].left > 0
                         THEN Len(rest[q]) + host'[q].left = Awaited(q)'
                         ELSE Len(rest[q]) >= Awaited(q)'
    BY <1>1 DEF Flow, Loose
  <1>3. Len(rest[q]) \in Nat
    BY <1>2
  \* The host that was told READY has sent nothing yet.
  <1>4. CASE IsBulk(s) /\ q = p
    <2>1. rest[q] = <<>> /\ host'[q].left = Payload
      BY <1>4, ReadyHost DEF Loose
    <2>2. source' = p /\ wanted' = Payload
      BY <1>4, DispatchedFacts DEF IsBulk
    <2>3. Awaited(q)' = Payload
      BY <1>4, <2>2 DEF Awaited
    <2>4. Len(rest[q]) = 0 /\ 0 + Payload = Payload
      BY <2>1, PayloadFacts
    <2>5. \A i \in 1 .. 0 : FALSE
      OBVIOUS
    <2> QED BY <2>1, <2>3, <2>4, <2>5, PayloadFacts
  \* Nobody awaits anything of the other.
  <1>5. CASE ~ (IsBulk(s) /\ q = p)
    <2>1. host'[q] = host[q]
      <3>1. CASE IsBulk(s)
        <4>1. q = Other(p)
          BY <1>1, <1>5, <3>1, CharacterFacts
        <4>2. host'[Other(p)] = host[Other(p)]
          BY <3>1, ReadyHost
        <4> QED BY <4>1, <4>2
      <3>2. CASE ~ IsBulk(s)
        BY <3>2, DispatchedFacts
      <3> QED BY <3>1, <3>2
    <2>2. Awaited(q)' = 0
      <3>1. CASE IsBulk(s)
        <4>1. source' = p
          BY <3>1, DispatchedFacts DEF IsBulk
        <4> QED BY <1>5, <3>1, <4>1 DEF Awaited
      <3>2. CASE ~ IsBulk(s)
        <4>1. wanted' = 0
          BY <3>2, DispatchedFacts
        <4> QED BY <4>1 DEF Awaited
      <3> QED BY <3>1, <3>2
    <2>3. ~ Loose(host, q)
      BY <2>1 DEF Loose
    <2>4. host[q].left = 0
      BY <1>1, <2>3, IdleFlow
    <2>5. \A i \in 1 .. Len(rest[q]) : rest[q][i] # "data" /\ ~ i <= 0
      BY <1>2, <2>3
    <2>6. ~ host'[q].left > 0 /\ Len(rest[q]) >= 0
      BY <1>3, <2>1, <2>4
    <2> QED BY <2>2, <2>5, <2>6
  <1> QED BY <1>4, <1>5

LEMMA DispatchedLine ==
  ASSUME NEW s, NEW p, NEW rest, Dispatching(s, p, rest)
  PROVE  Gotten' /\ LineIsOwn' /\ DataIsNotRun'
  <1>1. /\ p \in Ports /\ s \in Readers /\ ReadyRight(s, host) /\ TypeOK
        /\ Gotten /\ wanted = 0
    BY DispatchedFacts DEF ReaderRight
  <1>2. CASE s.ready = "none"
    <2>1. /\ last' = NoLine /\ source' = source /\ got' = got
          /\ wanted' = 0 /\ host' = host
      BY <1>2, DispatchedFacts
    <2>2. Gotten'
      BY <1>1, <2>1 DEF Gotten
    <2> QED BY <2>1, <2>2, NoLineIsOwn DEF LineIsOwn, DataIsNotRun
  <1>3. CASE s.ready # "none"
    <2> DEFINE line == InBuffer(s.buf)
    <2>1. /\ s.ready = p /\ source' = p /\ got' = <<>>
          /\ last' = [line |-> line, port |-> p, own |-> s.was]
      BY <1>3, DispatchedFacts
    <2>2. /\ ~ (s.was.spoiled \/ s.was.lost) =>
               /\ IsSuffix(line, Meant(s.was.raw))
               /\ ~ s.was.long => line = Meant(s.was.raw)
          /\ (\E i \in DOMAIN line : line[i] = "data")
               => Loose(host, p) \/ s.was.spoiled
      BY <1>1, <1>3, <2>1, ReadyLine
    <2>3. LineIsOwn'
      <3> HIDE DEF line
      <3>1. last'.line = line /\ last'.own = s.was
        BY <2>1
      <3> QED BY <2>2, <3>1 DEF LineIsOwn
    <2>4. Gotten'
      <3>1. \A i \in 1 .. Len(<<>>) : FALSE
        OBVIOUS
      <3>2. wanted' > 0 => ~ host'[source'].broken
        <4>1. CASE IsBulk(s)
          BY <2>1, <4>1, ReadyHost
        <4>2. CASE ~ IsBulk(s)
          <5>1. wanted' = 0
            BY <1>3, <4>2, DispatchedFacts
          <5> QED BY <5>1
        <4> QED BY <4>1, <4>2
      <3> QED BY <2>1, <3>1, <3>2 DEF Gotten
    <2>5. DataIsNotRun'
      <3>1. last'.line = line /\ last'.port = p /\ last'.own = s.was
        BY <2>1
      <3>2. CASE IsBulk(s)
        <4>1. line = <<Bulk>> /\ Bulk # "data"
          BY <3>2, CharacterFacts DEF IsBulk
        <4>2. \A i \in DOMAIN line : line[i] # "data"
          BY <4>1
        <4> HIDE DEF line
        <4> QED BY <3>1, <4>2 DEF DataIsNotRun
      <3>3. CASE ~ IsBulk(s)
        <4>1. host' = host
          BY <1>3, <3>3, DispatchedFacts
        <4> HIDE DEF line
        <4> QED BY <2>2, <3>1, <4>1 DEF DataIsNotRun, Loose
      <3> QED BY <3>2, <3>3
    <2> QED BY <2>3, <2>4, <2>5
  <1> QED BY <1>2, <1>3

LEMMA DispatchedInv ==
  ASSUME NEW s, NEW p, NEW rest, Dispatching(s, p, rest)
  PROVE  IInv'
  BY DispatchedType, DispatchedReader, DispatchedFlow, DispatchedLine DEF IInv


-----------------------------------------------------------------------------
(* Every step keeps the invariant.                                         *)

LEMMA ReaderIsReader ==
  ASSUME TypeOK
  PROVE  /\ Reader \in Readers /\ Reader.ready = "none" /\ Reader.port = port
         /\ Reader.buf = buf /\ Reader.own = own
  <1>1. /\ port \in [Ports -> Positions] /\ buf \in [0 .. LineMax -> Chars]
        /\ own \in [Ports -> Lines] /\ Fresh \in Lines
    BY CharacterFacts DEF TypeOK, Positions
  <1> QED BY <1>1 DEF Reader, Readers

LEMMA ReadUartInv ==
  ASSUME IInv, ReadUart
  PROVE  IInv'
  <1> DEFINE ch == Head(fifo["uart"])
             s == Feed(Reader, "uart", ch)
             rest == [fifo EXCEPT !["uart"] = Tail(@)]
  <1>1. /\ TypeOK /\ Flow /\ ReaderRight(Reader, host) /\ Idle
        /\ fifo["uart"] # <<>> /\ Dispatched(s, rest)
    BY DEF IInv, ReadUart
  <1>2. "uart" \in Ports /\ "usb" \in Ports /\ Other("uart") = "usb"
        /\ \A p \in Ports : p = "uart" \/ p = "usb"
    BY DEF Ports, Other
  <1>3. \A p \in Ports : fifo[p] \in Seq(Chars) /\ Len(fifo[p]) <= FifoMax
    BY <1>1, HostFacts
  <1>4. /\ Len(fifo["uart"]) > 0 /\ ch = fifo["uart"][1] /\ ch \in Chars
        /\ Tail(fifo["uart"]) \in Seq(Chars)
        /\ Len(Tail(fifo["uart"])) = Len(fifo["uart"]) - 1
        /\ \A i \in 1 .. Len(fifo["uart"]) - 1 :
             Tail(fifo["uart"])[i] = fifo["uart"][i + 1]
    BY <1>1, <1>2, <1>3
  <1>5. ~ Loose(host, "uart") =>
          \A i \in 1 .. Len(fifo["uart"]) : fifo["uart"][i] # "data"
    BY <1>1, <1>2, IdleFlow
  <1>6. Fed(Reader, "uart", ch, host)
    <2>1. LineRight(Reader, "uart", host) /\ LineRight(Reader, "usb", host)
      BY <1>1, <1>2 DEF ReaderRight
    <2>2. ch = "data" => Loose(host, "uart")
      <3>1. 1 \in 1 .. Len(fifo["uart"])
        BY <1>4
      <3> QED BY <1>4, <1>5, <3>1
    <2> QED BY <1>1, <1>2, <1>4, <2>1, <2>2, ReaderIsReader DEF Fed
  <1>7. Good(s, "uart", host)
    BY <1>6, FeedRight
  <1>8. Received(rest)
    <2>1. fifo \in [Ports -> Seq(Chars)]
      BY <1>1 DEF TypeOK
    <2>2. /\ rest \in [Ports -> Seq(Chars)] /\ rest["uart"] = Tail(fifo["uart"])
          /\ rest["usb"] = fifo["usb"]
      BY <1>2, <1>4, <2>1
    <2> HIDE DEF rest
    <2>3. \A p \in Ports : Len(rest[p]) <= FifoMax
      BY <1>2, <1>3, <1>4, <2>2, PayloadFacts
    <2>4. ASSUME NEW p \in Ports, ~ Loose(host, p)
          PROVE  \A i \in 1 .. Len(rest[p]) : rest[p][i] # "data"
      <3>1. CASE p = "usb"
        BY <1>1, <1>2, <2>2, <2>4, <3>1, IdleFlow
      <3>2. CASE p = "uart"
        <4> SUFFICES ASSUME NEW i \in 1 .. Len(rest[p])
                     PROVE  rest[p][i] # "data"
          OBVIOUS
        <4>1. i \in 1 .. Len(fifo["uart"]) - 1 /\ i + 1 \in 1 .. Len(fifo["uart"])
          BY <1>2, <1>3, <1>4, <2>2, <3>2
        <4> QED BY <1>4, <1>5, <2>2, <2>4, <3>2, <4>1
      <3> QED BY <1>2, <3>1, <3>2
    <2> QED BY <2>2, <2>3, <2>4 DEF Received
  <1>9. Dispatching(s, "uart", rest)
    BY <1>1, <1>2, <1>7, <1>8 DEF Dispatching
  <1> QED BY <1>9, DispatchedInv

\* A chunk and what waits behind it, character by character.
LEMMA ChunkFacts ==
  ASSUME NEW waiting \in Seq(Chars)
  PROVE  LET n == InChunk(waiting)
             chunk == SubSeq(waiting, 1, n)
             behind == SubSeq(waiting, n + 1, Len(waiting))
         IN /\ n \in 0 .. Len(waiting)
            /\ chunk \in Seq(Chars) /\ Len(chunk) = n
            /\ \A i \in 1 .. n : i \in 1 .. Len(waiting) /\ chunk[i] = waiting[i]
            /\ behind \in Seq(Chars) /\ Len(behind) = Len(waiting) - n
            /\ \A i \in 1 .. Len(waiting) - n :
                 n + i \in 1 .. Len(waiting) /\ behind[i] = waiting[n + i]
  <1> DEFINE n == InChunk(waiting)
  <1>1. n \in 0 .. Len(waiting)
    BY ReaderAssumption DEF InChunk
  <1> HIDE DEF n
  <1>2. /\ SubSeq(waiting, 1, n) \in Seq(Chars) /\ Len(SubSeq(waiting, 1, n)) = n
        /\ \A i \in 1 .. n :
             i \in 1 .. Len(waiting) /\ SubSeq(waiting, 1, n)[i] = waiting[i]
    BY <1>1
  <1>3. /\ SubSeq(waiting, n + 1, Len(waiting)) \in Seq(Chars)
        /\ Len(SubSeq(waiting, n + 1, Len(waiting))) = Len(waiting) - n
        /\ \A i \in 1 .. Len(waiting) - n :
             /\ n + i \in 1 .. Len(waiting)
             /\ SubSeq(waiting, n + 1, Len(waiting))[i] = waiting[n + i]
    BY <1>1
  <1> QED BY <1>1, <1>2, <1>3 DEF n

LEMMA ReadUsbInv ==
  ASSUME IInv, ReadUsb
  PROVE  IInv'
  <1> DEFINE waiting == fifo["usb"]
             n == InChunk(waiting)
             chunk == SubSeq(waiting, 1, n)
             behind == SubSeq(waiting, n + 1, Len(waiting))
             s == FedChunk(chunk)
             rest == [fifo EXCEPT !["usb"] = behind]
  <1>1. /\ TypeOK /\ Flow /\ ReaderRight(Reader, host) /\ Idle
        /\ Dispatched(s, rest)
    BY DEF IInv, ReadUsb
  <1>2. "uart" \in Ports /\ "usb" \in Ports
        /\ \A p \in Ports : p = "uart" \/ p = "usb"
    BY DEF Ports
  <1>3. \A p \in Ports : fifo[p] \in Seq(Chars) /\ Len(fifo[p]) <= FifoMax
    BY <1>1, HostFacts
  <1>4. ~ Loose(host, "usb") =>
          \A i \in 1 .. Len(waiting) : waiting[i] # "data"
    BY <1>1, <1>2, IdleFlow
  <1>5. Good(Reader, "usb", host)
    BY <1>1, ReaderIsReader DEF Good
  <1>6. /\ n \in 0 .. Len(waiting)
        /\ chunk \in Seq(Chars) /\ Len(chunk) = n
        /\ \A i \in 1 .. n : i \in 1 .. Len(waiting) /\ chunk[i] = waiting[i]
        /\ behind \in Seq(Chars) /\ Len(behind) = Len(waiting) - n
        /\ \A i \in 1 .. Len(waiting) - n :
             n + i \in 1 .. Len(waiting) /\ behind[i] = waiting[n + i]
    BY <1>2, <1>3, ChunkFacts
  <1> HIDE DEF n, chunk, behind
  <1>7. Good(s, "usb", host)
    <2>1. \A k \in 1 .. Len(chunk) : chunk[k] = "data" => Loose(host, "usb")
      BY <1>4, <1>6
    <2> QED BY <1>5, <1>6, <2>1, FedChunkRight
  <1>8. Received(rest)
    <2>1. fifo \in [Ports -> Seq(Chars)]
      BY <1>1 DEF TypeOK
    <2>2. /\ rest \in [Ports -> Seq(Chars)] /\ rest["usb"] = behind
          /\ rest["uart"] = fifo["uart"]
      BY <1>2, <1>6, <2>1
    <2> HIDE DEF rest
    <2>3. ASSUME NEW p \in Ports PROVE Len(rest[p]) <= FifoMax
      <3>1. Len(behind) <= Len(waiting)
        BY <1>2, <1>3, <1>6
      <3>2. Len(rest[p]) = Len(fifo[p]) \/ (p = "usb" /\ rest[p] = behind)
        BY <1>2, <2>2
      <3> QED BY <1>3, <1>6, <3>1, <3>2, PayloadFacts
    <2>4. ASSUME NEW p \in Ports, ~ Loose(host, p)
          PROVE  \A i \in 1 .. Len(rest[p]) : rest[p][i] # "data"
      <3>1. CASE p = "uart"
        BY <1>1, <1>2, <2>2, <2>4, <3>1, IdleFlow
      <3>2. CASE p = "usb"
        BY <1>4, <1>6, <2>2, <2>4, <3>2
      <3> QED BY <1>2, <3>1, <3>2
    <2> QED BY <2>2, <2>3, <2>4 DEF Received
  <1>9. Dispatching(s, "usb", rest)
    BY <1>1, <1>2, <1>7, <1>8 DEF Dispatching
  <1> QED BY <1>9, DispatchedInv

\* A step that reads no line and makes no host less loose.
LEMMA QuietInv ==
  ASSUME IInv, port' = port, buf' = buf, own' = own, last' = NoLine,
         \A p \in Ports : Loose(host, p) => Loose(host', p)
  PROVE  /\ ReaderRight(Reader, host)' /\ LineIsOwn' /\ DataIsNotRun'
         /\ last' \in [line : Seq(Chars), port : Ports, own : Lines]
  <1>1. TypeOK /\ ReaderRight(Reader, host)
    BY DEF IInv
  <1>2. ASSUME NEW q \in Ports PROVE LineRight(Reader, q, host')
    BY <1>1, LineKept DEF ReaderRight
  <1>3. port' = Reader.port /\ buf' = Reader.buf /\ own' = Reader.own
    BY <1>1, ReaderIsReader
  <1>4. ReaderRight(Reader, host)'
    BY <1>2, <1>3, ReaderNext
  <1>5. LineIsOwn' /\ DataIsNotRun'
    BY NoLineIsOwn DEF LineIsOwn, DataIsNotRun
  <1>6. last' \in [line : Seq(Chars), port : Ports, own : Lines]
    BY EmptyIsLine, CharacterFacts DEF NoLine, Ports
  <1> QED BY <1>4, <1>5, <1>6


LEMMA AwaitedFacts ==
  ASSUME TypeOK
  PROVE  /\ wanted \in Nat /\ \A p \in Ports : Awaited(p) \in Nat
         /\ Awaited(source) = wanted /\ source \in Ports
  <1>1. wanted \in 0 .. Payload /\ source \in Ports
    BY DEF TypeOK
  <1> QED BY <1>1, PayloadFacts DEF Awaited

LEMMA HostTypesInv ==
  ASSUME IInv, NEW p \in Ports, NEW ch \in Chars \ Data, HostTypes(p, ch)
  PROVE  IInv'
  <1> DEFINE more == Append(fifo[p], ch)
             told == [host[p] EXCEPT !.ahead = @ \/ host[p].left > 0]
  <1>1. /\ TypeOK /\ Flow /\ Gotten /\ Len(fifo[p]) < FifoMax
        /\ typed < MaxTyped /\ fifo' = [fifo EXCEPT ![p] = more]
        /\ typed' = typed + 1 /\ host' = [host EXCEPT ![p] = told]
        /\ last' = NoLine /\ port' = port /\ buf' = buf /\ source' = source
        /\ wanted' = wanted /\ got' = got /\ own' = own
    BY DEF IInv, HostTypes
  <1>2. /\ host[p] \in Hosts /\ host[p].left \in Nat
        /\ host[p].ahead \in BOOLEAN /\ host[p].broken \in BOOLEAN
        /\ fifo[p] \in Seq(Chars) /\ Len(fifo[p]) \in Nat
    BY <1>1, HostFacts
  <1>3. /\ told \in Hosts /\ told.left = host[p].left
        /\ told.broken = host[p].broken
        /\ told.ahead = (host[p].ahead \/ host[p].left > 0)
    BY <1>2 DEF Hosts
  <1>4. /\ more \in Seq(Chars) /\ Len(more) = Len(fifo[p]) + 1
        /\ more[Len(fifo[p]) + 1] = ch
        /\ \A i \in 1 .. Len(fifo[p]) : more[i] = fifo[p][i]
    BY <1>2
  <1>5. ch # "data"
    BY DEF Data
  <1> HIDE DEF more, told
  <1>6. fifo \in [Ports -> Seq(Chars)] /\ host \in [Ports -> Hosts]
    BY <1>1 DEF TypeOK
  <1>7. /\ fifo' \in [Ports -> Seq(Chars)] /\ fifo'[p] = more
        /\ \A q \in Ports : q # p => fifo'[q] = fifo[q]
        /\ host' \in [Ports -> Hosts] /\ host'[p] = told
        /\ \A q \in Ports : q # p => host'[q] = host[q]
    BY <1>1, <1>3, <1>4, <1>6
  <1>8. \A q \in Ports : Loose(host, q) => Loose(host', q)
    BY <1>3, <1>7 DEF Loose
  <1>9. /\ ReaderRight(Reader, host)' /\ LineIsOwn' /\ DataIsNotRun'
        /\ last' \in [line : Seq(Chars), port : Ports, own : Lines]
    BY <1>1, <1>8, QuietInv
  <1>10. TypeOK'
    <2>1. \A q \in Ports : Len(fifo'[q]) <= FifoMax
      <3>1. Len(more) <= FifoMax
        BY <1>1, <1>2, <1>4, PayloadFacts
      <3> QED BY <1>1, <1>7, <3>1, HostFacts
    <2>2. typed' \in 0 .. MaxTyped
      <3>1. typed \in 0 .. MaxTyped /\ MaxTyped \in Nat
        BY <1>1, ReaderAssumption DEF TypeOK
      <3> QED BY <1>1, <3>1
    <2> QED BY <1>1, <1>7, <1>9, <2>1, <2>2 DEF TypeOK
  <1>11. Flow'
    <2> SUFFICES ASSUME NEW q \in Ports, ~ Loose(host', q)
                 PROVE  /\ \A i \in 1 .. Len(fifo'[q]) :
                             fifo'[q][i] = "data" <=> i <= Awaited(q)
                        /\ IF host'[q].left > 0
                           THEN Len(fifo'[q]) + host'[q].left = Awaited(q)
                           ELSE Len(fifo'[q]) >= Awaited(q)
      BY <1>1 DEF Flow, Loose, Awaited
    <2>1. ~ Loose(host, q)
      BY <1>8
    <2>2. /\ \A i \in 1 .. Len(fifo[q]) : fifo[q][i] = "data" <=> i <= Awaited(q)
          /\ IF host[q].left > 0
             THEN Len(fifo[q]) + host[q].left = Awaited(q)
             ELSE Len(fifo[q]) >= Awaited(q)
      BY <1>1, <2>1 DEF Flow
    <2>3. CASE q # p
      BY <1>7, <2>2, <2>3
    <2>4. CASE q = p
      <3>1. ~ host[p].left > 0
        BY <1>3, <1>7, <2>4 DEF Loose
      <3>2. Len(fifo[p]) >= Awaited(p) /\ Awaited(p) \in Nat
        BY <1>1, <2>2, <2>4, <3>1, AwaitedFacts
      <3>3. Len(more) >= Awaited(p) /\ ~ told.left > 0
            /\ ~ Len(fifo[p]) + 1 <= Awaited(p)
        BY <1>2, <1>3, <1>4, <3>1, <3>2
      <3>4. ASSUME NEW i \in 1 .. Len(more)
            PROVE  more[i] = "data" <=> i <= Awaited(p)
        <4>1. i \in 1 .. Len(fifo[p]) \/ i = Len(fifo[p]) + 1
          BY <1>2, <1>4
        <4>2. CASE i \in 1 .. Len(fifo[p])
          BY <1>4, <2>2, <2>4, <4>2
        <4>3. CASE i = Len(fifo[p]) + 1
          BY <1>4, <1>5, <3>3, <4>3
        <4> QED BY <4>1, <4>2, <4>3
      <3> QED BY <1>7, <2>4, <3>3, <3>4
    <2> QED BY <2>3, <2>4
  <1>12. Gotten'
    <2>1. source \in Ports
      BY <1>1, AwaitedFacts
    <2>2. host[source].ahead => host'[source].ahead
      BY <1>3, <1>7, <2>1
    <2>3. host'[source].broken = host[source].broken
      BY <1>3, <1>7, <2>1
    <2> QED BY <1>1, <2>2, <2>3 DEF Gotten
  <1> QED BY <1>9, <1>10, <1>11, <1>12 DEF IInv

LEMMA HostSendsInv ==
  ASSUME IInv, NEW p \in Ports, HostSends(p)
  PROVE  IInv'
  <1>1. /\ TypeOK /\ Flow /\ Gotten /\ host[p].left > 0
        /\ typed' = typed /\ last' = NoLine /\ port' = port /\ buf' = buf
        /\ source' = source /\ wanted' = wanted /\ got' = got /\ own' = own
    BY DEF IInv, HostSends
  <1>2. /\ host[p] \in Hosts /\ host[p].left \in Nat
        /\ fifo[p] \in Seq(Chars) /\ Len(fifo[p]) \in Nat
    BY <1>1, HostFacts
  <1>3. fifo \in [Ports -> Seq(Chars)] /\ host \in [Ports -> Hosts]
    BY <1>1 DEF TypeOK
  <1>4. PICK n, more :
          /\ n \in 0 .. Payload /\ host' = [host EXCEPT ![p].left = n]
          /\ more \in Seq(Chars) /\ Len(more) <= FifoMax
          /\ fifo' = [fifo EXCEPT ![p] = more]
          /\ \/ host[p].broken
             \/ n = host[p].left - 1 /\ more = Append(fifo[p], "data")
    <2>1. host[p].left \in 0 .. Payload
      BY <1>2 DEF Hosts
    <2>2. CASE /\ Len(fifo[p]) < FifoMax
               /\ fifo' = [fifo EXCEPT ![p] = Append(@, "data")]
               /\ host' = [host EXCEPT ![p].left = @ - 1]
      <3> DEFINE n == host[p].left - 1
                 more == Append(fifo[p], "data")
      <3>1. n \in 0 .. Payload
        BY <1>1, <2>1, PayloadFacts
      <3>2. more \in Seq(Chars) /\ Len(more) <= FifoMax
        BY <1>2, <2>2, CharacterFacts, PayloadFacts
      <3>3. host' = [host EXCEPT ![p].left = n] /\ fifo' = [fifo EXCEPT ![p] = more]
        BY <2>2
      <3>4. n = host[p].left - 1 /\ more = Append(fifo[p], "data")
        OBVIOUS
      <3> HIDE DEF n, more
      <3> QED BY <3>1, <3>2, <3>3, <3>4
    <2>3. CASE /\ host[p].broken /\ host' = [host EXCEPT ![p].left = 0]
               /\ fifo' = fifo
      <3> DEFINE more == fifo[p]
      <3>1. 0 \in 0 .. Payload
        BY PayloadFacts
      <3>2. more \in Seq(Chars) /\ Len(more) <= FifoMax
        BY <1>1, HostFacts
      <3>3. fifo' = [fifo EXCEPT ![p] = more]
        BY <1>3, <2>3
      <3> HIDE DEF more
      <3> QED BY <2>3, <3>1, <3>2, <3>3
    <2> QED BY <2>2, <2>3 DEF HostSends
  <1> DEFINE told == [host[p] EXCEPT !.left = n]
  <1>5. /\ told \in Hosts /\ told.left = n /\ told.broken = host[p].broken
        /\ told.ahead = host[p].ahead
    BY <1>2, <1>4 DEF Hosts
  <1>6. host' = [host EXCEPT ![p] = told]
    BY <1>4
  <1> HIDE DEF told
  <1>7. /\ fifo' \in [Ports -> Seq(Chars)] /\ fifo'[p] = more
        /\ \A q \in Ports : q # p => fifo'[q] = fifo[q]
        /\ host' \in [Ports -> Hosts] /\ host'[p] = told
        /\ \A q \in Ports : q # p => host'[q] = host[q]
    BY <1>3, <1>4, <1>5, <1>6
  <1>8. \A q \in Ports : Loose(host', q) <=> Loose(host, q)
    BY <1>5, <1>7 DEF Loose
  <1>9. /\ ReaderRight(Reader, host)' /\ LineIsOwn' /\ DataIsNotRun'
        /\ last' \in [line : Seq(Chars), port : Ports, own : Lines]
    BY <1>1, <1>8, QuietInv
  <1>10. TypeOK'
    <2>1. \A q \in Ports : Len(fifo'[q]) <= FifoMax
      BY <1>1, <1>4, <1>7, HostFacts
    <2> QED BY <1>1, <1>7, <1>9, <2>1 DEF TypeOK
  <1>11. Flow'
    <2> SUFFICES ASSUME NEW q \in Ports, ~ Loose(host', q)
                 PROVE  /\ \A i \in 1 .. Len(fifo'[q]) :
                             fifo'[q][i] = "data" <=> i <= Awaited(q)
                        /\ IF host'[q].left > 0
                           THEN Len(fifo'[q]) + host'[q].left = Awaited(q)
                           ELSE Len(fifo'[q]) >= Awaited(q)
      BY <1>1 DEF Flow, Loose, Awaited
    <2>1. ~ Loose(host, q)
      BY <1>8
    <2>2. /\ \A i \in 1 .. Len(fifo[q]) : fifo[q][i] = "data" <=> i <= Awaited(q)
          /\ IF host[q].left > 0
             THEN Len(fifo[q]) + host[q].left = Awaited(q)
             ELSE Len(fifo[q]) >= Awaited(q)
      BY <1>1, <2>1 DEF Flow
    <2>3. CASE q # p
      BY <1>7, <2>2, <2>3
    <2>4. CASE q = p
      <3>1. n = host[p].left - 1 /\ more = Append(fifo[p], "data")
        BY <1>4, <2>1, <2>4 DEF Loose
      <3>2. Len(fifo[p]) + host[p].left = Awaited(p) /\ Awaited(p) \in Nat
        BY <1>1, <2>2, <2>4, AwaitedFacts
      <3>3. /\ Len(more) = Len(fifo[p]) + 1 /\ more[Len(fifo[p]) + 1] = "data"
            /\ \A i \in 1 .. Len(fifo[p]) : more[i] = fifo[p][i]
        BY <1>2, <3>1
      <3>4. Len(more) + n = Awaited(p) /\ Len(fifo[p]) + 1 <= Awaited(p)
            /\ (~ n > 0 => Len(more) >= Awaited(p))
        <4> DEFINE a == Len(fifo[p])
                   l == host[p].left
                   w == Awaited(p)
                   m == Len(more)
        <4>1. a \in Nat /\ l \in Nat /\ l > 0 /\ w \in Nat /\ a + l = w
              /\ m = a + 1 /\ n = l - 1
          BY <1>1, <1>2, <3>1, <3>2, <3>3
        <4> HIDE DEF a, l, w, m
        <4>2. m + n = w /\ a + 1 <= w /\ (~ n > 0 => m >= w)
          BY <4>1
        <4> QED BY <4>2 DEF a, m, w
      <3>5. ASSUME NEW i \in 1 .. Len(more)
            PROVE  more[i] = "data" <=> i <= Awaited(p)
        <4>1. i \in 1 .. Len(fifo[p]) \/ i = Len(fifo[p]) + 1
          BY <1>2, <3>3
        <4>2. CASE i \in 1 .. Len(fifo[p])
          BY <2>2, <2>4, <3>3, <4>2
        <4>3. CASE i = Len(fifo[p]) + 1
          BY <3>3, <3>4, <4>3
        <4> QED BY <4>1, <4>2, <4>3
      <3> QED BY <1>5, <1>7, <2>4, <3>4, <3>5
    <2> QED BY <2>3, <2>4
  <1>12. Gotten'
    <2>1. source \in Ports
      BY <1>1, AwaitedFacts
    <2>2. host'[source].ahead = host[source].ahead
          /\ host'[source].broken = host[source].broken
      BY <1>5, <1>7, <2>1
    <2> QED BY <1>1, <2>2 DEF Gotten
  <1> QED BY <1>9, <1>10, <1>11, <1>12 DEF IInv


LEMMA ReadDataInv ==
  ASSUME IInv, ReadData
  PROVE  IInv'
  <1> DEFINE p == source
             less == Tail(fifo[p])
             more == Append(got, Head(fifo[p]))
  <1>1. /\ TypeOK /\ Flow /\ Gotten /\ wanted # 0 /\ fifo[p] # <<>>
        /\ got' = more /\ fifo' = [fifo EXCEPT ![p] = less]
        /\ wanted' = wanted - 1
        /\ last' = NoLine /\ port' = port /\ buf' = buf /\ source' = source
        /\ host' = host /\ typed' = typed /\ own' = own
    BY DEF IInv, ReadData, Idle
  <1>2. /\ wanted \in Nat /\ p \in Ports /\ wanted \in 0 .. Payload
        /\ got \in Seq(Chars) /\ Len(got) + wanted \in {0, Payload}
    BY <1>1, AwaitedFacts DEF TypeOK
  <1>3. fifo[p] \in Seq(Chars) /\ Len(fifo[p]) \in Nat
        /\ Len(fifo[p]) <= FifoMax
    BY <1>1, <1>2, HostFacts
  <1>4. /\ Len(fifo[p]) > 0 /\ Head(fifo[p]) = fifo[p][1]
        /\ fifo[p][1] \in Chars
        /\ less \in Seq(Chars) /\ Len(less) = Len(fifo[p]) - 1
        /\ \A i \in 1 .. Len(fifo[p]) - 1 : less[i] = fifo[p][i + 1]
    BY <1>1, <1>3
  <1>5. /\ more \in Seq(Chars) /\ Len(more) = Len(got) + 1
        /\ more[Len(got) + 1] = fifo[p][1]
        /\ \A i \in 1 .. Len(got) : more[i] = got[i]
    BY <1>2, <1>4
  <1>6. fifo \in [Ports -> Seq(Chars)]
    BY <1>1 DEF TypeOK
  <1> HIDE DEF less, more, p
  <1>7. /\ fifo' \in [Ports -> Seq(Chars)] /\ fifo'[p] = less
        /\ \A q \in Ports : q # p => fifo'[q] = fifo[q]
    BY <1>1, <1>2, <1>4, <1>6
  <1>8. /\ ReaderRight(Reader, host)' /\ LineIsOwn' /\ DataIsNotRun'
        /\ last' \in [line : Seq(Chars), port : Ports, own : Lines]
    BY <1>1, QuietInv
  <1>9. TypeOK'
    <2>1. ASSUME NEW q \in Ports PROVE Len(fifo'[q]) <= FifoMax
      <3>1. CASE q = p
        BY <1>3, <1>4, <1>7, <3>1, PayloadFacts
      <3>2. CASE q # p
        BY <1>1, <1>7, <3>2, HostFacts
      <3> QED BY <3>1, <3>2
    <2>2. wanted' \in 0 .. Payload
      BY <1>1, <1>2, PayloadFacts
    <2>3. Len(got') + wanted' \in {0, Payload}
      <3>1. Len(more) + (wanted - 1) = Len(got) + wanted
        <4>1. Len(got) \in Nat
          BY <1>2
        <4> QED BY <1>2, <1>5, <4>1
      <3> QED BY <1>1, <1>2, <3>1
    <2>4. got' \in Seq(Chars)
      BY <1>1, <1>5
    <2> QED BY <1>1, <1>7, <1>8, <2>1, <2>2, <2>3, <2>4 DEF TypeOK
  <1>10. /\ ~ Loose(host, p) =>
              \A i \in 1 .. Len(fifo[p]) : fifo[p][i] = "data" <=> i <= wanted
         /\ ~ Loose(host, p) =>
              IF host[p].left > 0 THEN Len(fifo[p]) + host[p].left = wanted
              ELSE Len(fifo[p]) >= wanted
    <2>1. Awaited(p) = wanted
      BY <1>1, AwaitedFacts DEF p
    <2> QED BY <1>1, <1>2, <2>1 DEF Flow
  <1>11. Flow'
    <2> SUFFICES ASSUME NEW q \in Ports, ~ Loose(host, q)
                 PROVE  /\ \A i \in 1 .. Len(fifo'[q]) :
                             fifo'[q][i] = "data" <=> i <= Awaited(q)'
                        /\ IF host[q].left > 0
                           THEN Len(fifo'[q]) + host[q].left = Awaited(q)'
                           ELSE Len(fifo'[q]) >= Awaited(q)'
      BY <1>1 DEF Flow, Loose
    <2>1. CASE q # p
      <3>1. Awaited(q)' = Awaited(q)
        BY <1>1, <2>1 DEF Awaited, p
      <3>2. /\ \A i \in 1 .. Len(fifo[q]) : fifo[q][i] = "data" <=> i <= Awaited(q)
            /\ IF host[q].left > 0
               THEN Len(fifo[q]) + host[q].left = Awaited(q)
               ELSE Len(fifo[q]) >= Awaited(q)
        BY <1>1 DEF Flow
      <3> QED BY <1>7, <2>1, <3>1, <3>2
    <2>2. CASE q = p
      <3>1. Awaited(q)' = wanted - 1
        BY <1>1, <2>2 DEF Awaited, p
      <3> DEFINE a == Len(fifo[p])
                 l == host[p].left
      <3>2. a \in Nat /\ l \in Nat /\ a > 0
        BY <1>1, <1>2, <1>3, <1>4, HostFacts
      <3>3. IF l > 0 THEN a + l = wanted ELSE a >= wanted
        BY <1>10, <2>2
      <3>4. ASSUME NEW i \in 1 .. a - 1
            PROVE  less[i] = "data" <=> i <= wanted - 1
        <4>1. less[i] = fifo[p][i + 1] /\ i + 1 \in 1 .. a
          BY <1>4, <3>2
        <4>2. fifo[p][i + 1] = "data" <=> i + 1 <= wanted
          BY <1>10, <2>2, <4>1
        <4>3. i + 1 <= wanted <=> i <= wanted - 1
          BY <1>2
        <4> QED BY <4>1, <4>2, <4>3
      <3> HIDE DEF a, l
      <3>5. IF l > 0 THEN (a - 1) + l = wanted - 1 ELSE a - 1 >= wanted - 1
        BY <1>2, <3>2, <3>3
      <3>6. Len(less) = a - 1
        BY <1>4 DEF a
      <3> QED BY <1>7, <2>2, <3>1, <3>4, <3>5, <3>6 DEF l
    <2> QED BY <2>1, <2>2
  <1>12. Gotten'
    <2>1. wanted > 0
      BY <1>1, <1>2
    <2>2. ~ host[p].broken
      BY <1>1, <2>1 DEF Gotten, p
    <2>3. ASSUME ~ host[p].ahead PROVE \A i \in 1 .. Len(more) : more[i] = "data"
      <3>1. fifo[p][1] = "data"
        <4>1. 1 \in 1 .. Len(fifo[p]) /\ 1 <= wanted
          BY <1>2, <1>3, <1>4, <2>1
        <4>2. ~ Loose(host, p)
          BY <2>2, <2>3 DEF Loose
        <4> QED BY <1>10, <4>1, <4>2
      <3>2. \A i \in 1 .. Len(got) : got[i] = "data"
        BY <1>1, <2>3 DEF Gotten, p
      <3>3. ASSUME NEW i \in 1 .. Len(more) PROVE more[i] = "data"
        <4>1. i \in 1 .. Len(got) \/ i = Len(got) + 1
          BY <1>2, <1>5
        <4> QED BY <1>5, <3>1, <3>2, <4>1
      <3> QED BY <3>3
    <2> QED BY <1>1, <2>2, <2>3 DEF Gotten, p
  <1> QED BY <1>8, <1>9, <1>11, <1>12 DEF IInv

LEMMA TimeoutInv ==
  ASSUME IInv, Timeout
  PROVE  IInv'
  <1> DEFINE p == source
             told == [host[p] EXCEPT !.broken = TRUE]
  <1>1. /\ TypeOK /\ Flow /\ Gotten /\ wanted' = 0 /\ got' = <<>>
        /\ host' = [host EXCEPT ![p] = told]
        /\ last' = NoLine /\ port' = port /\ buf' = buf /\ source' = source
        /\ fifo' = fifo /\ typed' = typed /\ own' = own
    BY DEF IInv, Timeout
  <1>2. p \in Ports /\ wanted \in Nat
    BY <1>1, AwaitedFacts
  <1>3. told \in Hosts /\ told.broken
    <2>1. host[p] \in Hosts
      BY <1>1, <1>2, HostFacts
    <2> QED BY <2>1 DEF Hosts
  <1>4. host \in [Ports -> Hosts]
    BY <1>1 DEF TypeOK
  <1> HIDE DEF told, p
  <1>5. /\ host' \in [Ports -> Hosts] /\ host'[p] = told
        /\ \A q \in Ports : q # p => host'[q] = host[q]
    BY <1>1, <1>2, <1>3, <1>4
  <1>6. \A q \in Ports : Loose(host, q) => Loose(host', q)
    BY <1>3, <1>5 DEF Loose
  <1>7. /\ ReaderRight(Reader, host)' /\ LineIsOwn' /\ DataIsNotRun'
        /\ last' \in [line : Seq(Chars), port : Ports, own : Lines]
    BY <1>1, <1>6, QuietInv
  <1>8. TypeOK'
    <2>1. 0 \in 0 .. Payload /\ 0 + 0 = 0 /\ Len(<<>>) = 0
      BY PayloadFacts, EmptyIsLine
    <2> QED BY <1>1, <1>5, <1>7, <2>1, EmptyIsLine DEF TypeOK
  <1>9. Flow'
    <2> SUFFICES ASSUME NEW q \in Ports, ~ Loose(host', q)
                 PROVE  /\ \A i \in 1 .. Len(fifo[q]) :
                             fifo[q][i] = "data" <=> i <= Awaited(q)'
                        /\ IF host'[q].left > 0
                           THEN Len(fifo[q]) + host'[q].left = Awaited(q)'
                           ELSE Len(fifo[q]) >= Awaited(q)'
      BY <1>1 DEF Flow, Loose
    <2>1. q # p
      BY <1>3, <1>5 DEF Loose
    <2>2. Awaited(q)' = 0 /\ Awaited(q) = 0
      BY <1>1, <2>1 DEF Awaited, p
    <2>3. host'[q] = host[q] /\ ~ Loose(host, q)
      BY <1>5, <1>6, <2>1
    <2> QED BY <1>1, <2>2, <2>3 DEF Flow
  <1>10. Gotten'
    <2>1. \A i \in 1 .. Len(<<>>) : FALSE
      OBVIOUS
    <2> QED BY <1>1, <2>1 DEF Gotten
  <1> QED BY <1>7, <1>8, <1>9, <1>10 DEF IInv

-----------------------------------------------------------------------------
(* The theorems.                                                           *)

LEMMA InitInv ==
  ASSUME Init
  PROVE  IInv
  <1>1. /\ fifo = [p \in Ports |-> <<>>]
        /\ port = [p \in Ports |-> [pos |-> 0, cr |-> FALSE]]
        /\ buf = [i \in 0 .. LineMax |-> "lf"]
        /\ source = "uart" /\ wanted = 0 /\ got = <<>>
        /\ host = [p \in Ports |-> NoData] /\ typed = 0
        /\ own = [p \in Ports |-> Fresh] /\ last = NoLine
    BY DEF Init
  <1>2. /\ 0 \in 0 .. LineMax /\ 0 \in 0 .. Payload /\ 0 \in 0 .. MaxTyped
        /\ 0 + 0 = 0 /\ 0 <= FifoMax /\ "uart" \in Ports /\ Len(<<>>) = 0
    BY CharacterFacts, PayloadFacts, ReaderAssumption DEF Ports
  <1>3. NoData \in Hosts /\ NoData.left = 0 /\ ~ NoData.ahead /\ ~ NoData.broken
    BY <1>2 DEF NoData, Hosts
  <1>4. last \in [line : Seq(Chars), port : Ports, own : Lines]
    BY <1>1, EmptyIsLine, CharacterFacts DEF NoLine, Ports
  <1>5. TypeOK
    <2>1. fifo \in [Ports -> Seq(Chars)] /\ \A p \in Ports : Len(fifo[p]) <= FifoMax
      BY <1>1, <1>2, EmptyIsLine
    <2>2. port \in [Ports -> [pos : 0 .. LineMax, cr : BOOLEAN]]
      BY <1>1, <1>2
    <2>3. buf \in [0 .. LineMax -> Chars]
      BY <1>1, CharacterFacts
    <2>4. host \in [Ports -> Hosts] /\ own \in [Ports -> Lines]
      BY <1>1, <1>3, CharacterFacts
    <2> QED BY <1>1, <1>2, <1>4, <2>1, <2>2, <2>3, <2>4, EmptyIsLine DEF TypeOK
  <1>6. ReaderRight(Reader, host)
    <2>1. Reader.ready = "none" /\ Reader.port = port /\ Reader.own = own
          /\ Reader.buf = buf
      BY DEF Reader
    <2>2. \A p \in Ports : Reader.port[p].pos = 0 /\ Reader.own[p] = Fresh
      BY <1>1, <2>1
    <2> QED BY <2>1, <2>2, NothingBelongs DEF ReaderRight, ReadyRight, LineRight
  <1>7. Flow
    <2> SUFFICES ASSUME NEW p \in Ports
                 PROVE  /\ \A i \in 1 .. Len(fifo[p]) :
                             fifo[p][i] = "data" <=> i <= Awaited(p)
                        /\ IF host[p].left > 0
                           THEN Len(fifo[p]) + host[p].left = Awaited(p)
                           ELSE Len(fifo[p]) >= Awaited(p)
      BY DEF Flow
    <2>1. fifo[p] = <<>> /\ Awaited(p) = 0 /\ host[p].left = 0
      BY <1>1, <1>3 DEF Awaited
    <2>2. \A i \in 1 .. 0 : FALSE
      OBVIOUS
    <2> QED BY <1>2, <2>1, <2>2
  <1>8. Gotten
    <2>1. \A i \in 1 .. Len(<<>>) : FALSE
      OBVIOUS
    <2> QED BY <1>1, <2>1 DEF Gotten
  <1>9. LineIsOwn /\ DataIsNotRun
    BY <1>1, NoLineIsOwn DEF LineIsOwn, DataIsNotRun
  <1> QED BY <1>5, <1>6, <1>7, <1>8, <1>9 DEF IInv

LEMMA NextInv ==
  ASSUME IInv, [Next]_vars
  PROVE  IInv'
  <1>1. ASSUME NEW p \in Ports, NEW ch \in Chars \ Data, HostTypes(p, ch)
        PROVE  IInv'
    BY <1>1, HostTypesInv
  <1>2. ASSUME NEW p \in Ports, HostSends(p) PROVE IInv'
    BY <1>2, HostSendsInv
  <1>3. CASE ReadUart
    BY <1>3, ReadUartInv
  <1>4. CASE ReadUsb
    BY <1>4, ReadUsbInv
  <1>5. CASE ReadData
    BY <1>5, ReadDataInv
  <1>6. CASE Timeout
    BY <1>6, TimeoutInv
  <1>7. CASE UNCHANGED vars
    BY <1>7 DEF IInv, TypeOK, ReaderRight, ReadyRight, LineRight, Reader, Loose,
                Flow, Gotten, LineIsOwn, DataIsNotRun, Awaited, vars
  <1> QED BY <1>1, <1>2, <1>3, <1>4, <1>5, <1>6, <1>7 DEF Next

\* The invariant of the reader of lines, for every length of lines and data,
\* whatever the two hosts type.
THEOREM ReaderInvariance == Spec => []IInv
  <1>1. Init => IInv
    BY InitInv
  <1>2. IInv /\ [Next]_vars => IInv'
    BY NextInv
  <1> QED BY <1>1, <1>2, PTL DEF Spec

\* The types of the two queues, the line buffer with its positions, and of the
\* data a command reads: no position leaves the buffer.
THEOREM TypeCorrect == Spec => []TypeOK
  <1>1. IInv => TypeOK
    BY DEF IInv
  <1> QED BY <1>1, ReaderInvariance, PTL

\* The line that main runs is the one its port has sent, as edited, or the
\* tail of one that was too long, unless the other port wrote into it or the
\* USB host typed on before it was answered.
THEOREM LinesAreOwn == Spec => []LineIsOwn
  <1>1. IInv => LineIsOwn
    BY DEF IInv
  <1> QED BY <1>1, ReaderInvariance, PTL

\* The data a command has read is what the host that sent the command sent as
\* its data, unless this host typed on.
THEOREM DataIsTheHosts == Spec => []DataIsOwn
  <1>1. ASSUME IInv PROVE DataIsOwn
    <2>1. TypeOK /\ Gotten
      BY <1>1 DEF IInv
    <2> SUFFICES ASSUME Len(got) = Payload, ~ host[source].ahead,
                        NEW i \in 1 .. Payload
                 PROVE  got[i] = "data"
      BY DEF DataIsOwn
    <2>2. \A k \in 1 .. Len(got) : got[k] = "data"
      BY <2>1 DEF Gotten
    <2> QED BY <2>2
  <1> QED BY <1>1, ReaderInvariance, PTL

\* Data is run as a line only if its host was broken off, typed on, or wrote
\* where the other did.
THEOREM DataIsNeverRun == Spec => []DataIsNotRun
  <1>1. IInv => DataIsNotRun
    BY DEF IInv
  <1> QED BY <1>1, ReaderInvariance, PTL

=============================================================================
