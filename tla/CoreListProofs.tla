--------------------------- MODULE CoreListProofs ---------------------------
(***************************************************************************)
(* The pages of a listing, for every directory, limit and cut into pages.  *)
(***************************************************************************)
EXTENDS CoreList, FiniteSetTheorems, WellFoundedInduction, TLAPS

\* A set of numbers with first and, with each number below last, the next one
\* has them all.
LEMMA Induction ==
  ASSUME NEW S, NEW first \in Nat, NEW last \in Nat, first \in S,
         \A k \in first .. last - 1 : k \in S => k + 1 \in S
  PROVE  \A k \in first .. last : k \in S
  <1> DEFINE Missed == {k \in first .. last : k \notin S}
  <1>1. ASSUME Missed # {} PROVE FALSE
    <2>1. Missed \in SUBSET Nat
      OBVIOUS
    <2>2. \E i \in Missed : \A j \in Missed : <<j, i>> \notin OpToRel(<, Nat)
      BY <1>1, <2>1, NatLessThanWellFounded, WFMin
    <2>3. \A i, j \in Nat : <<j, i>> \notin OpToRel(<, Nat) => i <= j
      BY DEF OpToRel
    <2>4. PICK i \in Missed : \A j \in Missed : i <= j
      BY <2>1, <2>2, <2>3
    <2>5. i - 1 \in first .. last - 1 /\ i - 1 \notin Missed
      BY <2>1, <2>4
    <2> QED BY <2>5
  <1> QED BY <1>1

-----------------------------------------------------------------------------
(* Reading on is reading slot by slot.                                     *)

\* What f holds of the slots 0 .. n that are read from the page r on.
ReadsTo(f, n, r, detailed, bad) ==
  f = [k \in 0 .. n |-> IF k < r.handle.next THEN r
                        ELSE ReadSlot(f[k - 1], detailed, bad, k)]

LEMMA ReadsToExists ==
  ASSUME NEW r, NEW detailed, NEW bad, r.handle.next \in Nat \ {0},
         NEW n \in Nat
  PROVE  \E f : ReadsTo(f, n, r, detailed, bad)
  <1> DEFINE Defined == {m \in Nat : \E f : ReadsTo(f, m, r, detailed, bad)}
  <1>1. 0 \in Defined
    <2>1. ReadsTo([k \in 0 .. 0 |-> r], 0, r, detailed, bad)
      BY DEF ReadsTo
    <2> QED BY <2>1
  <1>2. ASSUME NEW m \in 0 .. n - 1, m \in Defined PROVE m + 1 \in Defined
    <2>1. PICK f : ReadsTo(f, m, r, detailed, bad)
      BY <1>2
    <2> DEFINE g == [k \in 0 .. m + 1 |->
                       IF k <= m THEN f[k]
                       ELSE IF k < r.handle.next THEN r
                       ELSE ReadSlot(f[k - 1], detailed, bad, k)]
    <2>2. ASSUME NEW k \in 0 .. m + 1
          PROVE  g[k] = IF k < r.handle.next THEN r
                        ELSE ReadSlot(g[k - 1], detailed, bad, k)
      <3>1. CASE k <= m
        <4>1. f[k] = IF k < r.handle.next THEN r
                     ELSE ReadSlot(f[k - 1], detailed, bad, k)
          BY <2>1, <3>1 DEF ReadsTo
        <4>2. g[k] = f[k] /\ (~ k < r.handle.next => g[k - 1] = f[k - 1])
          BY <3>1
        <4> QED BY <4>1, <4>2
      <3>2. CASE k = m + 1
        <4>1. g[k - 1] = f[k - 1]
          BY <3>2
        <4> QED BY <3>2, <4>1
      <3> QED BY <3>1, <3>2
    <2>3. ReadsTo(g, m + 1, r, detailed, bad)
      <3> HIDE DEF g
      <3>1. DOMAIN g = 0 .. m + 1 /\ g = [k \in DOMAIN g |-> g[k]]
        BY DEF g
      <3> QED BY <2>2, <3>1 DEF ReadsTo
    <2> QED BY <2>3
  <1> HIDE DEF Defined
  <1>3. n \in Defined
    BY <1>1, <1>2, Induction
  <1> QED BY <1>3 DEF Defined

LEMMA ListOnReads ==
  ASSUME NEW r, NEW detailed, NEW bad, r.handle.open,
         \E f : ReadsTo(f, Slots + 1, r, detailed, bad)
  PROVE  \E f : /\ ReadsTo(f, Slots + 1, r, detailed, bad)
                /\ ListOn(r, detailed, bad) = f[Slots + 1]
  <1> DEFINE slot == CHOOSE f : ReadsTo(f, Slots + 1, r, detailed, bad)
  <1>1. ReadsTo(slot, Slots + 1, r, detailed, bad)
    OBVIOUS
  <1>2. ListOn(r, detailed, bad) = slot[Slots + 1]
    BY DEF ListOn, ReadsTo
  <1> QED BY <1>1, <1>2

-----------------------------------------------------------------------------
(* The invariant.                                                          *)

\* The slots before slot k that hold an entry, and the entries they hold.
Before(k) == {j \in 1 .. Slots : j < k /\ dir[j] # Free}
Passed(k) == {dir[j] : j \in Before(k)}

\* Part of an entry waits for the next page.
Buffered == {"listingBuf", "detailBuf"}

\* The DIR h has given out the numbers of the slots it has passed.
NumbersRight(h, p, s) ==
  /\ p.number = Cardinality(Before(h.next)) + 1
  /\ \A i \in Before(h.next) : s.number[dir[i]] = Cardinality(Before(i)) + 1

\* What a detailed listing has sent, and what waits, is what it has passed.
DetailRight(h, p, s) ==
  /\ \A n \in Names :
       s.bytes[n] = IF n \notin Passed(h.next) THEN 0
                    ELSE IF p.state \in Buffered /\ p.buf.name = n
                    THEN Size[n] - p.buf.left
                    ELSE Size[n]
  /\ p.state \in Buffered => p.buf.name \in Passed(h.next)

\* The same of a plain listing, whose entries go out whole or not at all.
SentWhole(s, n) ==
  /\ max = 0 \/ Size[n] < max => s.bytes[n] = Size[n]
  /\ s.bytes[n] \in {0, Size[n]}

PlainRight(h, p, s) ==
  /\ \A n \in Passed(h.next) :
       IF p.state \in Buffered /\ p.buf.name = n
         THEN s.bytes[n] = 0 /\ p.buf.left = Size[n] /\ Size[n] < max
         ELSE SentWhole(s, n)
  /\ \A n \in Names \ Passed(h.next) : s.bytes[n] = 0
  /\ p.state \in Buffered => p.buf.name \in Passed(h.next)

BytesRight(detailed, h, p, s) ==
  IF detailed THEN DetailRight(h, p, s) ELSE PlainRight(h, p, s)

StatesOf(detailed) ==
  IF detailed THEN {"detail", "detailBuf"} ELSE {"listing", "listingBuf"}

\* The number runs behind the DIR; what is in the buffer is an entry; a DIR
\* that is open belongs to a listing that has not ended.
Orderly(h, p) ==
  /\ p.number <= h.next
  /\ p.state \in Buffered => p.buf.name \in Names
  /\ p.state = "detailBuf" => p.buf.left > 0
  /\ h.open => h.next <= Slots + 1

\* The listing whose DIR is open, as long as the directory is as it was.
ListingIsRight ==
  /\ handle.open => pager.state # "idle"
  /\ steady.dir /\ handle.open => NumbersRight(handle, pager, seen)
  /\ steady.dir /\ handle.open /\ pager.state \in StatesOf(TRUE) =>
       DetailRight(handle, pager, seen)
  /\ steady.dir /\ steady.max /\ handle.open /\ pager.state \in StatesOf(FALSE)
       => PlainRight(handle, pager, seen)

\* The numbers of a listing that has ended stay those of the directory.
NumbersStay ==
  steady.dir /\ numbered =>
    \A i \in Before(Slots + 1) : seen.number[dir[i]] = Cardinality(Before(i)) + 1

IInv ==
  /\ TypeOK /\ Orderly(handle, pager) /\ ListingIsRight /\ NumbersStay
  /\ DetailIsComplete /\ ListIsComplete /\ NumberMeansRow

-----------------------------------------------------------------------------
(* Slots and their numbers.                                                *)

\* The slots before another are finitely many.
LEMMA BeforeIsFinite ==
  ASSUME NEW k
  PROVE  IsFiniteSet(Before(k)) /\ Cardinality(Before(k)) \in Nat
  <1>1. Before(k) \subseteq 1 .. Slots /\ IsFiniteSet(1 .. Slots)
    BY ListAssumption, FS_Interval DEF Before, ListAssumption
  <1> QED BY <1>1, FS_Subset, FS_CardinalityType

\* An empty slot is passed without a trace.
LEMMA PassFree ==
  ASSUME NEW k \in 1 .. Slots, dir[k] = Free
  PROVE  Before(k + 1) = Before(k) /\ Passed(k + 1) = Passed(k)
  <1>1. Before(k + 1) = Before(k)
    BY ListAssumption DEF Before, ListAssumption
  <1> QED BY <1>1 DEF Passed

\* An entry that is passed was not passed before.
LEMMA PassEntry ==
  ASSUME NEW k \in 1 .. Slots, dir \in Arrangements, dir[k] # Free
  PROVE  /\ dir[k] \in Names \ Passed(k)
         /\ Before(k + 1) = Before(k) \cup {k}
         /\ Passed(k + 1) = Passed(k) \cup {dir[k]}
         /\ Cardinality(Before(k + 1)) = Cardinality(Before(k)) + 1
         /\ \A i \in Before(k) : dir[i] # dir[k]
  <1>1. Before(k + 1) = Before(k) \cup {k} /\ k \notin Before(k)
    BY ListAssumption DEF Before, ListAssumption
  <1>2. Cardinality(Before(k + 1)) = Cardinality(Before(k)) + 1
    BY <1>1, BeforeIsFinite, FS_AddElement
  <1>3. \A i \in Before(k) : dir[i] # dir[k]
    BY ListAssumption DEF Before, Arrangements, ListAssumption
  <1>4. dir[k] \in Names
    BY DEF Arrangements
  <1> QED BY <1>1, <1>2, <1>3, <1>4 DEF Passed

\* Behind the last slot everything has been passed.
LEMMA PassEnd ==
  ASSUME dir \in Arrangements
  PROVE  /\ Before(Slots + 2) = Before(Slots + 1)
         /\ Passed(Slots + 2) = Listed
         /\ Before(1) = {} /\ Passed(1) = {}
         /\ Cardinality(Before(1)) = 0
  <1>1. Before(Slots + 2) = Before(Slots + 1) /\ Before(1) = {}
    BY ListAssumption DEF Before, ListAssumption
  <1>2. Passed(Slots + 2) = Listed
    BY ListAssumption DEF Before, Passed, Listed, ListAssumption
  <1> QED BY <1>1, <1>2, FS_EmptySet DEF Passed

-----------------------------------------------------------------------------
(* What the callbacks do with a page.                                      *)

Pages ==
  [handle : Handles, pager : Pagers, seen : Seen, returned : Nat,
   end : {"no", "full", "success", "failed"}]

\* A page never sends more than the limit.
Limited(r) == max # 0 => r.returned <= max

\* The fields of the constants that the proofs need.
LEMMA ConstantFacts ==
  /\ Size \in [Names -> Nat \ {0}] /\ Slots \in Nat \ {0}
  /\ Free \notin Names /\ None \notin Names
  /\ \A m \in MaxChoices : m \in Nat
  BY ListAssumption DEF ListAssumption

\* Part of a line goes out.
LEMMA SendsEffect ==
  ASSUME NEW r \in Pages, NEW n \in Names, NEW count \in Nat
  PROVE  /\ Sends(r, n, count) \in Pages
         /\ Sends(r, n, count) =
              [r EXCEPT !.seen = [bytes |-> [r.seen.bytes EXCEPT ![n] = @ + count],
                                  number |-> r.seen.number]]
  <1>1. r.seen \in Seen
    BY DEF Pages
  <1>2. [r.seen EXCEPT !.bytes[n] = @ + count] =
          [bytes |-> [r.seen.bytes EXCEPT ![n] = @ + count],
           number |-> r.seen.number]
    BY <1>1 DEF Seen
  <1>3. [r.seen EXCEPT !.bytes[n] = @ + count] \in Seen
    BY <1>1, <1>2 DEF Seen
  <1> QED BY <1>2, <1>3 DEF Sends, Pages

\* An entry that fits goes out whole.
LEMMA WholeEffect ==
  ASSUME NEW r \in Pages, NEW n \in Names
  PROVE  LET w == Whole(r, n)
         IN /\ w \in Pages /\ w.handle = r.handle /\ w.end = r.end
            /\ w.pager.state = "idle" /\ w.pager.number = r.pager.number
            /\ w.pager.buf = r.pager.buf
            /\ w.seen.number = r.seen.number
            /\ w.seen.bytes = [r.seen.bytes EXCEPT ![n] = @ + Size[n]]
            /\ w.returned = r.returned + Size[n]
  <1> DEFINE q == Sends(r, n, Size[n])
             w == Whole(r, n)
  <1>1. /\ q \in Pages /\ q.handle = r.handle /\ q.end = r.end
        /\ q.pager = r.pager /\ q.returned = r.returned
        /\ q.seen.number = r.seen.number
        /\ q.seen.bytes = [r.seen.bytes EXCEPT ![n] = @ + Size[n]]
    BY SendsEffect, ConstantFacts DEF Pages
  <1> HIDE DEF q
  <1>2. /\ w = [q EXCEPT !.returned = @ + Size[n],
                         !.pager = [q.pager EXCEPT !.state = "idle"]]
    BY <1>1 DEF Whole, q, Pages
  <1>3. [q.pager EXCEPT !.state = "idle"] \in Pagers /\ Size[n] \in Nat
    BY <1>1, ConstantFacts DEF Pages, Pagers, States
  <1>4. w \in Pages
    <2> DEFINE p == [q.pager EXCEPT !.state = "idle"]
    <2>1. w = [handle |-> q.handle, pager |-> p, seen |-> q.seen,
               returned |-> q.returned + Size[n], end |-> q.end]
      BY <1>1, <1>2 DEF Pages
    <2>2. p \in Pagers /\ q.returned + Size[n] \in Nat
      BY <1>1, <1>3 DEF Pages
    <2> HIDE DEF p, w
    <2> QED BY <1>1, <2>1, <2>2 DEF Pages
  <1> QED BY <1>1, <1>2, <1>3, <1>4 DEF Pages, Pagers

\* Of the entry that waits, as much goes out as the page still takes.
LEMMA SendBufferEffect ==
  ASSUME NEW r \in Pages, NEW n \in Names, r.pager.buf.name = n,
         max \in Nat, r.returned <= max, NEW done \in States, NEW more \in States
  PROVE  LET b == SendBuffer(r, done, more)
             left == r.pager.buf.left
         IN /\ b \in Pages /\ b.handle = r.handle /\ b.end = r.end
            /\ b.pager.number = r.pager.number /\ b.returned = r.returned
            /\ b.seen.number = r.seen.number
            /\ \E count \in 0 .. left :
                 /\ b.pager.buf = [name |-> n, left |-> left - count]
                 /\ b.pager.state = IF count = left THEN done ELSE more
                 /\ b.seen.bytes = [r.seen.bytes EXCEPT ![n] = @ + count]
                 /\ left <= max - r.returned => count = left
                 /\ left > 0 /\ max - r.returned > 0 => count > 0
  <1> DEFINE left == r.pager.buf.left
             room == max - r.returned
             count == IF left > room THEN room ELSE left
             q == Sends(r, n, count)
             b == SendBuffer(r, done, more)
             p == [state |-> IF count = left THEN done ELSE more,
                   number |-> r.pager.number,
                   buf |-> [name |-> n, left |-> left - count]]
  <1>1. r.pager \in Pagers /\ left \in Nat /\ room \in Nat
    BY DEF Pages, Pagers
  <1>2. /\ count \in 0 .. left /\ (left <= room => count = left)
        /\ (left > 0 /\ room > 0 => count > 0)
    BY <1>1
  <1> HIDE DEF count
  <1>3. /\ q \in Pages /\ q.handle = r.handle /\ q.end = r.end
        /\ q.pager = r.pager /\ q.returned = r.returned
        /\ q.seen.number = r.seen.number
        /\ q.seen.bytes = [r.seen.bytes EXCEPT ![n] = @ + count]
    BY <1>1, <1>2, SendsEffect DEF Pages
  <1> HIDE DEF q
  <1>4. b = [q EXCEPT !.pager.buf.left = @ - count,
                      !.pager.state = IF count = left THEN done ELSE more]
    BY DEF SendBuffer, q, count
  <1>5. b = [q EXCEPT !.pager = p]
    <2>1. [[q.pager EXCEPT !.buf.left = @ - count]
             EXCEPT !.state = IF count = left THEN done ELSE more] = p
      <3>1. q.pager = [state |-> r.pager.state, number |-> r.pager.number,
                       buf |-> [name |-> n, left |-> left]]
        BY <1>1, <1>3 DEF Pagers
      <3> DEFINE mid == [q.pager EXCEPT !.buf.left = @ - count]
      <3>2. mid = [state |-> r.pager.state, number |-> r.pager.number,
                   buf |-> [name |-> n, left |-> left - count]]
        BY <3>1
      <3> HIDE DEF mid
      <3>3. [mid EXCEPT !.state = IF count = left THEN done ELSE more] = p
        BY <3>2
      <3> QED BY <3>3 DEF mid
    <2> QED BY <1>4, <2>1, <1>3 DEF Pages
  <1>6. p \in Pagers
    BY <1>1, <1>2 DEF Pagers
  <1> HIDE DEF p
  <1>7. b \in Pages /\ b.pager = p
    BY <1>3, <1>5, <1>6 DEF Pages
  <1> QED BY <1>2, <1>3, <1>5, <1>7 DEF p, Pages

\* A callback sends the entry whole, leaves it to the next page, leaves it out,
\* or sends a part of it; in the last three cases the page is full.
RowIsWhole(r, q, n) ==
  /\ q.end = "no" /\ q.pager.state = "idle"
  /\ q.seen.bytes = [r.seen.bytes EXCEPT ![n] = @ + Size[n]]

RowIsLater(r, q, n) ==
  /\ q.end = "full" /\ q.seen.bytes = r.seen.bytes /\ max > 0
  /\ \/ /\ q.pager.state = "listingBuf" /\ Size[n] < max
        /\ q.pager.buf = [name |-> n, left |-> Size[n]]
     \/ q.pager.state = "listing" /\ ~ Size[n] < max

RowIsCut(r, q, n) ==
  /\ q.end = "full"
  /\ \E count \in 0 .. Size[n] :
       /\ q.pager.buf = [name |-> n, left |-> Size[n] - count]
       /\ q.pager.state = IF count = Size[n] THEN "detail" ELSE "detailBuf"
       /\ q.seen.bytes = [r.seen.bytes EXCEPT ![n] = @ + count]

LEMMA FittingRow ==
  ASSUME NEW r \in Pages, NEW n \in Names, r.end = "no", Limited(r),
         max \in Nat, Fits(r, n)
  PROVE  LET w == Whole(r, n)
         IN /\ w \in Pages /\ w.handle = r.handle
            /\ w.pager.number = r.pager.number
            /\ w.seen.number = r.seen.number /\ Limited(w)
            /\ RowIsWhole(r, w, n)
  <1> DEFINE w == Whole(r, n)
  <1>1. /\ w \in Pages /\ w.handle = r.handle /\ w.end = r.end
        /\ w.pager.state = "idle" /\ w.pager.number = r.pager.number
        /\ w.seen.number = r.seen.number
        /\ w.seen.bytes = [r.seen.bytes EXCEPT ![n] = @ + Size[n]]
        /\ w.returned = r.returned + Size[n]
    BY WholeEffect
  <1> HIDE DEF w
  <1>2. Limited(w)
    BY <1>1 DEF Limited, Fits
  <1>3. RowIsWhole(r, w, n)
    BY <1>1 DEF RowIsWhole
  <1> QED BY <1>1, <1>2, <1>3 DEF w

LEMMA ListRowEffect ==
  ASSUME NEW r \in Pages, NEW n \in Names, r.end = "no", Limited(r),
         max \in Nat, ~ Fits(r, n)
  PROVE  LET q == ListRow(r, n)
         IN /\ q \in Pages /\ q.handle = r.handle
            /\ q.pager.number = r.pager.number
            /\ q.seen.number = r.seen.number /\ Limited(q)
            /\ RowIsLater(r, q, n)
  <1> DEFINE q == ListRow(r, n)
             kept == [state |-> "listingBuf", number |-> r.pager.number,
                      buf |-> [name |-> n, left |-> Size[n]]]
             left == [r.pager EXCEPT !.state = "listing"]
             p == IF Size[n] < max THEN kept ELSE left
  <1>1. max > 0 /\ Size[n] \in Nat /\ r.pager \in Pagers
    BY ConstantFacts DEF Fits, Pages
  <1>2. /\ p \in Pagers /\ p.number = r.pager.number
        /\ \/ /\ p.state = "listingBuf" /\ Size[n] < max
              /\ p.buf = [name |-> n, left |-> Size[n]]
           \/ p.state = "listing" /\ ~ Size[n] < max
    <2>1. /\ kept \in Pagers /\ kept.number = r.pager.number
          /\ kept.state = "listingBuf"
          /\ kept.buf = [name |-> n, left |-> Size[n]]
      BY <1>1 DEF Pagers, States
    <2>2. /\ left \in Pagers /\ left.number = r.pager.number
          /\ left.state = "listing"
      BY <1>1 DEF Pagers, States
    <2> HIDE DEF kept, left
    <2> QED BY <2>1, <2>2
  <1>3. q = [r EXCEPT !.end = "full", !.pager = p]
    <2>1. CASE Size[n] < max
      <3>1. [[r.pager EXCEPT !.state = "listingBuf"]
               EXCEPT !.buf = [name |-> n, left |-> Size[n]]] = p
        <4> DEFINE mid == [r.pager EXCEPT !.state = "listingBuf"]
        <4>1. mid = [state |-> "listingBuf", number |-> r.pager.number,
                     buf |-> r.pager.buf]
          BY <1>1 DEF Pagers
        <4> HIDE DEF mid
        <4>2. [mid EXCEPT !.buf = [name |-> n, left |-> Size[n]]] = kept
          BY <4>1
        <4> QED BY <2>1, <4>2 DEF mid
      <3>2. q = [r EXCEPT !.end = "full",
                          !.pager = [[r.pager EXCEPT !.state = "listingBuf"]
                               EXCEPT !.buf = [name |-> n, left |-> Size[n]]]]
        BY <2>1 DEF ListRow, Pages
      <3> HIDE DEF p, q
      <3> QED BY <3>1, <3>2
    <2>2. CASE ~ Size[n] < max
      BY <2>2 DEF ListRow
    <2> QED BY <2>1, <2>2
  <1> HIDE DEF p
  <1>4. /\ q \in Pages /\ q.handle = r.handle /\ q.seen = r.seen
        /\ q.pager = p /\ q.end = "full" /\ q.returned = r.returned
    BY <1>2, <1>3 DEF Pages
  <1> HIDE DEF q
  <1>5. Limited(q)
    BY <1>4 DEF Limited
  <1>6. RowIsLater(r, q, n)
    BY <1>1, <1>2, <1>4 DEF RowIsLater
  <1> QED BY <1>2, <1>4, <1>5, <1>6 DEF q

LEMMA DetailRowEffect ==
  ASSUME NEW r \in Pages, NEW n \in Names, r.end = "no", Limited(r),
         max \in Nat, ~ Fits(r, n)
  PROVE  LET q == DetailRow(r, n)
         IN /\ q \in Pages /\ q.handle = r.handle
            /\ q.pager.number = r.pager.number
            /\ q.seen.number = r.seen.number /\ Limited(q)
            /\ RowIsCut(r, q, n)
  <1> DEFINE q == DetailRow(r, n)
             p == [r.pager EXCEPT !.buf = [name |-> n, left |-> Size[n]]]
             full == [r EXCEPT !.end = "full", !.pager = p]
  <1>1. max > 0 /\ Size[n] \in Nat /\ r.pager \in Pagers /\ r.returned <= max
    BY ConstantFacts DEF Fits, Pages, Limited
  <1>2. /\ p \in Pagers /\ p.number = r.pager.number
        /\ p.buf = [name |-> n, left |-> Size[n]]
    BY <1>1 DEF Pagers
  <1> HIDE DEF p
  <1>3. /\ full \in Pages /\ full.handle = r.handle /\ full.seen = r.seen
        /\ full.pager = p /\ full.end = "full" /\ full.returned = r.returned
    BY <1>2 DEF Pages
  <1>4. q = SendBuffer(full, "detail", "detailBuf")
    BY DEF DetailRow, p
  <1> HIDE DEF full, q
  <1>5. full.pager.buf.name = n /\ full.pager.buf.left = Size[n]
    BY <1>2, <1>3
  <1>6. /\ q \in Pages /\ q.handle = full.handle /\ q.end = full.end
        /\ q.pager.number = full.pager.number /\ q.returned = full.returned
        /\ q.seen.number = full.seen.number
        /\ \E count \in 0 .. Size[n] :
             /\ q.pager.buf = [name |-> n, left |-> Size[n] - count]
             /\ q.pager.state = IF count = Size[n] THEN "detail" ELSE "detailBuf"
             /\ q.seen.bytes = [full.seen.bytes EXCEPT ![n] = @ + count]
    <2>1. "detail" \in States /\ "detailBuf" \in States
      BY DEF States
    <2>2. full.returned <= max
      BY <1>1, <1>3
    <2> QED BY <1>3, <1>4, <1>5, <2>1, <2>2, SendBufferEffect
  <1>7. RowIsCut(r, q, n)
    BY <1>3, <1>6 DEF RowIsCut
  <1>8. Limited(q)
    BY <1>3, <1>6, <1>1 DEF Limited
  <1> QED BY <1>2, <1>3, <1>6, <1>7, <1>8 DEF q

LEMMA RowEffect ==
  ASSUME NEW r \in Pages, NEW n \in Names, r.end = "no", Limited(r),
         max \in Nat, NEW detailed \in BOOLEAN
  PROVE  LET q == Row(r, detailed, n)
         IN /\ q \in Pages /\ q.handle = r.handle
            /\ q.pager.number = r.pager.number
            /\ q.seen.number = r.seen.number /\ Limited(q)
            /\ \/ RowIsWhole(r, q, n)
               \/ ~ detailed /\ RowIsLater(r, q, n)
               \/ detailed /\ RowIsCut(r, q, n)
  <1>1. CASE Fits(r, n)
    BY <1>1, FittingRow DEF Row, ListRow, DetailRow
  <1>2. CASE ~ Fits(r, n)
    BY <1>2, ListRowEffect, DetailRowEffect DEF Row
  <1> QED BY <1>1, <1>2

\* The number is taken, for an entry of the slot that was just read.
LEMMA NumbersEffect ==
  ASSUME NEW r \in Pages, NEW n \in Names, r.pager.number < r.handle.next,
         r.handle.next <= Slots + 1
  PROVE  LET q == Numbers(r, n)
         IN /\ q \in Pages /\ q.handle = r.handle /\ q.end = r.end
            /\ q.returned = r.returned /\ q.pager.state = r.pager.state
            /\ q.pager.buf = r.pager.buf
            /\ q.pager.number = r.pager.number + 1
            /\ q.seen.bytes = r.seen.bytes
            /\ q.seen.number = [r.seen.number EXCEPT ![n] = r.pager.number]
  <1> DEFINE q == Numbers(r, n)
             p == [r.pager EXCEPT !.number = @ + 1]
             s == [r.seen EXCEPT !.number[n] = r.pager.number]
  <1>1. r.pager \in Pagers /\ r.seen \in Seen /\ r.handle.next \in Nat
    BY ConstantFacts DEF Pages, Handles
  <1>2. p \in Pagers /\ p.number = r.pager.number + 1 /\ p.state = r.pager.state
        /\ p.buf = r.pager.buf
    BY <1>1, ConstantFacts DEF Pagers
  <1>3. r.pager.number \in 0 .. Slots
    BY <1>1, ConstantFacts DEF Pagers
  <1>4. /\ s \in Seen /\ s.bytes = r.seen.bytes
        /\ s.number = [r.seen.number EXCEPT ![n] = r.pager.number]
    BY <1>1, <1>3 DEF Seen
  <1>5. q = [r EXCEPT !.pager = p, !.seen = s]
    BY DEF Numbers, Pages
  <1> HIDE DEF p, s
  <1>6. /\ q \in Pages /\ q.handle = r.handle /\ q.end = r.end
        /\ q.returned = r.returned /\ q.pager = p /\ q.seen = s
    BY <1>2, <1>4, <1>5 DEF Pages
  <1> QED BY <1>2, <1>4, <1>6

-----------------------------------------------------------------------------
(* One slot.                                                               *)

\* The numbers stay right when an entry takes the next one.
LEMMA NumbersStep ==
  ASSUME NEW k \in 1 .. Slots, dir \in Arrangements, dir[k] # Free,
         NEW h \in Handles, NEW p \in Pagers, NEW s \in Seen, h.next = k,
         NumbersRight(h, p, s),
         NEW h2 \in Handles, NEW p2 \in Pagers, NEW s2 \in Seen,
         h2.next = k + 1, p2.number = p.number + 1,
         s2.number = [s.number EXCEPT ![dir[k]] = p.number]
  PROVE  NumbersRight(h2, p2, s2)
  <1>1. /\ dir[k] \in Names /\ Before(k + 1) = Before(k) \cup {k}
        /\ Cardinality(Before(k + 1)) = Cardinality(Before(k)) + 1
        /\ \A i \in Before(k) : dir[i] # dir[k]
    BY PassEntry
  <1>2. p.number = Cardinality(Before(k)) + 1
    BY DEF NumbersRight
  <1>3. ASSUME NEW i \in Before(k + 1)
        PROVE  s2.number[dir[i]] = Cardinality(Before(i)) + 1
    <2>1. CASE i = k
      BY <1>1, <1>2, <2>1 DEF Seen
    <2>2. CASE i \in Before(k)
      <3>1. dir[i] \in Names /\ dir[i] # dir[k]
        BY <1>1, <2>2 DEF Before, Arrangements
      <3>2. s2.number[dir[i]] = s.number[dir[i]]
        BY <3>1 DEF Seen
      <3> QED BY <2>2, <3>2 DEF NumbersRight
    <2> QED BY <1>1, <2>1, <2>2
  <1>4. p2.number = Cardinality(Before(k + 1)) + 1
    BY <1>1, <1>2
  <1> QED BY <1>3, <1>4 DEF NumbersRight

\* What a detailed listing has sent stays right with an entry sent, whole or
\* in part.
LEMMA DetailStep ==
  ASSUME NEW k \in 1 .. Slots, dir \in Arrangements, dir[k] # Free,
         NEW h \in Handles, NEW p \in Pagers, NEW s \in Seen, h.next = k,
         p.state \notin Buffered, DetailRight(h, p, s),
         NEW h2 \in Handles, NEW p2 \in Pagers, NEW s2 \in Seen,
         h2.next = k + 1, NEW count \in 0 .. Size[dir[k]],
         s2.bytes = [s.bytes EXCEPT ![dir[k]] = @ + count],
         \/ p2.state \notin Buffered /\ count = Size[dir[k]]
         \/ p2.buf = [name |-> dir[k], left |-> Size[dir[k]] - count]
              /\ (p2.state \in Buffered \/ count = Size[dir[k]])
  PROVE  DetailRight(h2, p2, s2)
  <1> DEFINE n == dir[k]
  <1>1. n \in Names /\ n \notin Passed(k) /\ Passed(k + 1) = Passed(k) \cup {n}
    BY PassEntry
  <1>2. /\ \A m \in Names : s.bytes[m] \in Nat /\ Size[m] \in Nat
        /\ s.bytes[n] = 0 /\ DOMAIN s.bytes = Names
    BY <1>1, ConstantFacts DEF DetailRight, Seen
  <1>3. p2.state \in Buffered => p2.buf.name = n /\ p2.buf.left = Size[n] - count
    OBVIOUS
  <1>4. s2.bytes[n] = count
    BY <1>1, <1>2
  <1>5. \A m \in Names \ {n} : s2.bytes[m] = s.bytes[m]
    BY <1>2
  <1> HIDE DEF n
  <1>6. ASSUME NEW m \in Names
        PROVE  s2.bytes[m] = IF m \notin Passed(k + 1) THEN 0
                    ELSE IF p2.state \in Buffered /\ p2.buf.name = m
                    THEN Size[m] - p2.buf.left
                    ELSE Size[m]
    <2>1. CASE m = n
      <3>1. p2.state \notin Buffered => count = Size[n]
        BY DEF n
      <3>2. count \in 0 .. Size[n]
        BY DEF n
      <3> QED BY <1>1, <1>2, <1>3, <1>4, <2>1, <3>1, <3>2
    <2>2. CASE m # n
      <3>1. s.bytes[m] = IF m \notin Passed(k) THEN 0 ELSE Size[m]
        BY DEF DetailRight
      <3> QED BY <1>1, <1>3, <1>5, <2>2, <3>1
    <2> QED BY <2>1, <2>2
  <1>7. p2.state \in Buffered => p2.buf.name \in Passed(k + 1)
    BY <1>1, <1>3
  <1> QED BY <1>6, <1>7 DEF DetailRight

\* The same of a plain listing, with an entry sent or kept or left out.
LEMMA PlainStep ==
  ASSUME NEW k \in 1 .. Slots, dir \in Arrangements, dir[k] # Free, max \in Nat,
         NEW h \in Handles, NEW p \in Pagers, NEW s \in Seen, h.next = k,
         p.state \notin Buffered, PlainRight(h, p, s),
         NEW h2 \in Handles, NEW p2 \in Pagers, NEW s2 \in Seen,
         h2.next = k + 1,
         \/ /\ s2.bytes = [s.bytes EXCEPT ![dir[k]] = @ + Size[dir[k]]]
            /\ p2.state \notin Buffered
         \/ /\ s2.bytes = s.bytes /\ max > 0
            /\ \/ /\ Size[dir[k]] < max
                  /\ p2.buf = [name |-> dir[k], left |-> Size[dir[k]]]
                  /\ p2.state \in Buffered
               \/ p2.state \notin Buffered /\ ~ Size[dir[k]] < max
  PROVE  PlainRight(h2, p2, s2)
  <1> DEFINE n == dir[k]
  <1>1. n \in Names /\ n \notin Passed(k) /\ Passed(k + 1) = Passed(k) \cup {n}
    BY PassEntry
  <1>2. /\ \A m \in Names : s.bytes[m] \in Nat /\ Size[m] \in Nat
        /\ s.bytes[n] = 0 /\ DOMAIN s.bytes = Names
    BY <1>1, ConstantFacts DEF PlainRight, Seen
  <1>3. \A m \in Names \ {n} : s2.bytes[m] = s.bytes[m]
    BY <1>2
  <1>4. p2.state \in Buffered => p2.buf.name = n
    OBVIOUS
  <1>5. \/ p2.state \notin Buffered /\ s2.bytes[n] = Size[n]
        \/ p2.state \notin Buffered /\ s2.bytes[n] = 0 /\ max > 0 /\ ~ Size[n] < max
        \/ /\ p2.state \in Buffered /\ s2.bytes[n] = 0
           /\ p2.buf.left = Size[n] /\ Size[n] < max
    BY <1>1, <1>2
  <1> HIDE DEF n
  <1>6. ASSUME NEW m \in Passed(k + 1)
        PROVE  IF p2.state \in Buffered /\ p2.buf.name = m
                 THEN s2.bytes[m] = 0 /\ p2.buf.left = Size[m] /\ Size[m] < max
                 ELSE SentWhole(s2, m)
    <2>1. CASE m = n
      BY <1>2, <1>4, <1>5, <2>1 DEF SentWhole
    <2>2. CASE m # n
      <3>1. m \in Passed(k) /\ m \in Names
        BY <1>1, <2>2 DEF Passed, Before, Arrangements
      <3>2. SentWhole(s, m)
        BY <3>1 DEF PlainRight
      <3> QED BY <1>3, <1>4, <2>2, <3>1, <3>2 DEF SentWhole
    <2> QED BY <2>1, <2>2
  <1>7. \A m \in Names \ Passed(k + 1) : s2.bytes[m] = 0
    BY <1>1, <1>3 DEF PlainRight
  <1>8. p2.state \in Buffered => p2.buf.name \in Passed(k + 1)
    BY <1>1, <1>4
  <1> QED BY <1>6, <1>7, <1>8 DEF PlainRight

\* Nothing changes for a listing that passes no entry.
LEMMA SkipStep ==
  ASSUME NEW h, NEW p, NEW s, NEW h2, NEW detailed \in BOOLEAN,
         Before(h2.next) = Before(h.next)
  PROVE  /\ NumbersRight(h, p, s) => NumbersRight(h2, p, s)
         /\ BytesRight(detailed, h, p, s) => BytesRight(detailed, h2, p, s)
  <1>1. Passed(h2.next) = Passed(h.next)
    BY DEF Passed
  <1> QED BY <1>1 DEF NumbersRight, BytesRight, DetailRight, PlainRight

-----------------------------------------------------------------------------
(* One page.                                                               *)

Sane(r) == r \in Pages /\ Limited(r) /\ Orderly(r.handle, r.pager)

\* What holds of the page r that began at slot first and has read slot k; n and
\* b say whether the numbers and the bytes were right when it began.
Right(r, detailed, n, b) ==
  /\ n => NumbersRight(r.handle, r.pager, r.seen)
  /\ b => BytesRight(detailed, r.handle, r.pager, r.seen)

InProgress(r, k, detailed, n, b) ==
  /\ r.end = "no" /\ r.handle.open /\ r.handle.next = k + 1 /\ k <= Slots
  /\ b => r.pager.state \notin Buffered
  /\ Right(r, detailed, n, b)

IsFull(r, first, detailed, n, b) ==
  /\ r.end = "full" /\ r.handle.open /\ r.handle.next > first
  /\ r.pager.state \in StatesOf(detailed)
  /\ Right(r, detailed, n, b)

IsEnded(r, detailed, n, b) ==
  /\ r.end = "success" /\ ~ r.handle.open /\ r.handle.next = Slots + 2
  /\ b => r.pager.state \notin Buffered
  /\ Right(r, detailed, n, b)

IsBroken(r) == r.end = "failed" /\ ~ r.handle.open

Reading(r, first, k, detailed, n, b) ==
  /\ Sane(r)
  /\ \/ InProgress(r, k, detailed, n, b)
     \/ IsFull(r, first, detailed, n, b)
     \/ IsEnded(r, detailed, n, b)
     \/ IsBroken(r)

\* The DIR moves on.
LEMMA NextEffect ==
  ASSUME NEW r \in Pages, NEW m \in 1 .. Slots + 2
  PROVE  LET q == [r EXCEPT !.handle.next = m]
         IN /\ q \in Pages /\ q.handle.open = r.handle.open
            /\ q.handle.next = m /\ q.end = r.end /\ q.returned = r.returned
            /\ q.pager = r.pager /\ q.seen = r.seen
  <1> DEFINE h == [r.handle EXCEPT !.next = m]
             q == [r EXCEPT !.handle.next = m]
  <1>1. h \in Handles /\ h.open = r.handle.open /\ h.next = m
    BY DEF Pages, Handles
  <1>2. q = [r EXCEPT !.handle = h]
    OBVIOUS
  <1> HIDE DEF h, q
  <1>3. /\ q \in Pages /\ q.handle = h /\ q.end = r.end
        /\ q.returned = r.returned /\ q.pager = r.pager /\ q.seen = r.seen
    BY <1>1, <1>2 DEF Pages
  <1> QED BY <1>1, <1>3 DEF q

\* The DIR is closed.
LEMMA ClosedEffect ==
  ASSUME NEW r \in Pages, NEW end \in {"failed", "success"}
  PROVE  LET q == Closed(r, end)
         IN /\ q \in Pages /\ ~ q.handle.open
            /\ q.handle.next = r.handle.next /\ q.end = end
            /\ q.returned = r.returned
            /\ q.pager = r.pager /\ q.seen = r.seen
  <1> DEFINE h == [r.handle EXCEPT !.open = FALSE]
             q == Closed(r, end)
  <1>1. h \in Handles /\ ~ h.open /\ h.next = r.handle.next
    BY DEF Pages, Handles
  <1>2. q = [r EXCEPT !.end = end, !.handle = h]
    BY DEF Closed
  <1> HIDE DEF h, q
  <1>3. /\ q \in Pages /\ q.handle = h /\ q.end = end
        /\ q.returned = r.returned /\ q.pager = r.pager /\ q.seen = r.seen
    BY <1>1, <1>2 DEF Pages
  <1> QED BY <1>1, <1>3 DEF q

\* An entry that is read keeps all this.
LEMMA ReadEntry ==
  ASSUME NEW k \in 1 .. Slots, NEW first \in 1 .. k, dir \in Arrangements,
         max \in Nat, NEW detailed \in BOOLEAN, NEW n \in BOOLEAN,
         NEW b \in BOOLEAN, dir[k] # Free,
         NEW r, Sane(r), InProgress(r, k - 1, detailed, n, b)
  PROVE  LET next == [r EXCEPT !.handle.next = k + 1]
             q == Row(Numbers(next, dir[k]), detailed, dir[k])
         IN Reading(q, first, k, detailed, n, b)
  <1> DEFINE next == [r EXCEPT !.handle.next = k + 1]
             name == dir[k]
             t == Numbers(next, name)
             q == Row(t, detailed, name)
  <1>1. /\ r \in Pages /\ Limited(r) /\ r.end = "no" /\ r.handle.next = k
        /\ r.handle.open /\ r.pager.number <= k
    BY DEF Sane, InProgress, Orderly
  <1>2. /\ name \in Names /\ Slots \in Nat
    BY PassEntry, ConstantFacts
  <1>3. /\ next \in Pages /\ next.handle.open /\ next.handle.next = k + 1
        /\ next.end = "no" /\ next.returned = r.returned
        /\ next.pager = r.pager /\ next.seen = r.seen
    <2>1. k + 1 \in 1 .. Slots + 2
      BY <1>2
    <2> QED BY <1>1, <2>1, NextEffect
  <1> HIDE DEF next
  <1>4. r.pager \in Pagers /\ r.seen \in Seen /\ r.handle \in Handles
        /\ r.pager.number \in Nat
    <2>1. r.pager \in Pagers /\ r.seen \in Seen /\ r.handle \in Handles
      BY <1>1 DEF Pages
    <2> QED BY <1>2, <2>1 DEF Pagers
  <1>5. /\ t \in Pages /\ t.handle = next.handle /\ t.end = next.end
        /\ t.returned = next.returned /\ t.pager.state = next.pager.state
        /\ t.pager.buf = next.pager.buf
        /\ t.pager.number = next.pager.number + 1
        /\ t.seen.bytes = next.seen.bytes
        /\ t.seen.number = [next.seen.number EXCEPT ![name] = next.pager.number]
    <2>1. next.pager.number < next.handle.next /\ next.handle.next <= Slots + 1
      BY <1>1, <1>2, <1>3, <1>4
    <2> QED BY <1>2, <1>3, <2>1, NumbersEffect
  <1> HIDE DEF t
  <1>6. /\ q \in Pages /\ q.handle = t.handle
        /\ q.pager.number = t.pager.number
        /\ q.seen.number = t.seen.number /\ Limited(q)
        /\ \/ RowIsWhole(t, q, name)
           \/ ~ detailed /\ RowIsLater(t, q, name)
           \/ detailed /\ RowIsCut(t, q, name)
    <2>1. Limited(t) /\ t.end = "no"
      BY <1>1, <1>3, <1>5 DEF Limited
    <2> QED BY <1>2, <1>5, <2>1, RowEffect
  <1> HIDE DEF q
  <1>7. q.pager \in Pagers /\ q.seen \in Seen /\ q.handle \in Handles
    BY <1>6 DEF Pages
  <1>8. q.handle.open /\ q.handle.next = k + 1
    BY <1>3, <1>5, <1>6
  <1>9. Sane(q)
    <2>1. q.pager.number <= q.handle.next
      BY <1>1, <1>3, <1>4, <1>5, <1>6, <1>8
    <2>2. q.pager.state \in Buffered => q.pager.buf.name \in Names
      <3>1. CASE RowIsWhole(t, q, name)
        BY <3>1 DEF RowIsWhole, Buffered
      <3>2. CASE RowIsLater(t, q, name)
        BY <1>2, <3>2 DEF RowIsLater, Buffered
      <3>3. CASE RowIsCut(t, q, name)
        BY <1>2, <3>3 DEF RowIsCut
      <3> QED BY <1>6, <3>1, <3>2, <3>3
    <2>3. q.pager.state = "detailBuf" => q.pager.buf.left > 0
      <3>1. CASE RowIsWhole(t, q, name)
        BY <3>1 DEF RowIsWhole
      <3>2. CASE RowIsLater(t, q, name)
        BY <3>2 DEF RowIsLater
      <3>3. CASE RowIsCut(t, q, name)
        <4>1. Size[name] \in Nat
          BY <1>2, ConstantFacts
        <4>2. PICK count \in 0 .. Size[name] :
                /\ q.pager.buf.left = Size[name] - count
                /\ q.pager.state = IF count = Size[name] THEN "detail"
                                   ELSE "detailBuf"
          BY <3>3 DEF RowIsCut
        <4> QED BY <4>1, <4>2
      <3> QED BY <1>6, <3>1, <3>2, <3>3
    <2>4. q.handle.next <= Slots + 1
      BY <1>2, <1>8
    <2> QED BY <1>6, <2>1, <2>2, <2>3, <2>4 DEF Sane, Orderly
  <1>10. n => NumbersRight(q.handle, q.pager, q.seen)
    <2> SUFFICES ASSUME n PROVE NumbersRight(q.handle, q.pager, q.seen)
      OBVIOUS
    <2>1. NumbersRight(r.handle, r.pager, r.seen)
      BY DEF InProgress, Right
    <2>2. /\ q.pager.number = r.pager.number + 1
          /\ q.seen.number = [r.seen.number EXCEPT ![name] = r.pager.number]
      BY <1>3, <1>5, <1>6
    <2>3. q.handle.next = k + 1
      BY <1>8
    <2> QED BY <1>1, <1>4, <1>7, <2>1, <2>2, <2>3, NumbersStep
  <1>11. t.seen.bytes = r.seen.bytes
    BY <1>3, <1>5
  <1>12. b => BytesRight(detailed, q.handle, q.pager, q.seen)
    <2> SUFFICES ASSUME b PROVE BytesRight(detailed, q.handle, q.pager, q.seen)
      OBVIOUS
    <2>1. /\ BytesRight(detailed, r.handle, r.pager, r.seen)
          /\ r.pager.state \notin Buffered
      BY DEF InProgress, Right
    <2>2. q.handle.next = k + 1
      BY <1>8
    <2>3. CASE detailed
      <3>1. PICK count \in 0 .. Size[name] :
              /\ q.seen.bytes = [r.seen.bytes EXCEPT ![name] = @ + count]
              /\ \/ q.pager.state \notin Buffered /\ count = Size[name]
                 \/ /\ q.pager.buf = [name |-> name, left |-> Size[name] - count]
                    /\ q.pager.state \in Buffered \/ count = Size[name]
        <4>1. CASE RowIsWhole(t, q, name)
          <5>1. /\ q.seen.bytes = [r.seen.bytes EXCEPT ![name] = @ + Size[name]]
                /\ q.pager.state \notin Buffered
            BY <4>1, <1>11 DEF RowIsWhole, Buffered
          <5>2. Size[name] \in 0 .. Size[name]
            BY <1>2, ConstantFacts
          <5> QED BY <5>1, <5>2
        <4>2. CASE RowIsCut(t, q, name)
          BY <4>2, <1>11 DEF RowIsCut, Buffered
        <4> QED BY <1>6, <2>3, <4>1, <4>2
      <3>2. DetailRight(r.handle, r.pager, r.seen)
        BY <2>1, <2>3 DEF BytesRight
      <3>3. DetailRight(q.handle, q.pager, q.seen)
        BY <1>1, <1>4, <1>7, <2>1, <2>2, <3>1, <3>2, DetailStep
      <3> QED BY <2>3, <3>3 DEF BytesRight
    <2>4. CASE ~ detailed
      <3>1. \/ /\ q.seen.bytes = [r.seen.bytes EXCEPT ![name] = @ + Size[name]]
               /\ q.pager.state \notin Buffered
            \/ /\ q.seen.bytes = r.seen.bytes /\ max > 0
               /\ \/ /\ Size[name] < max
                     /\ q.pager.buf = [name |-> name, left |-> Size[name]]
                     /\ q.pager.state \in Buffered
                  \/ q.pager.state \notin Buffered /\ ~ Size[name] < max
        BY <1>6, <1>11, <2>4 DEF RowIsWhole, RowIsLater, Buffered
      <3>2. PlainRight(r.handle, r.pager, r.seen)
        BY <2>1, <2>4 DEF BytesRight
      <3>3. PlainRight(q.handle, q.pager, q.seen)
        BY <1>1, <1>4, <1>7, <2>1, <2>2, <3>1, <3>2, PlainStep
      <3> QED BY <2>4, <3>3 DEF BytesRight
    <2> QED BY <2>3, <2>4
  <1>13. CASE q.end = "no"
    <2>1. q.pager.state \notin Buffered
      BY <1>6, <1>13 DEF RowIsWhole, RowIsLater, RowIsCut, Buffered
    <2>2. InProgress(q, k, detailed, n, b)
      BY <1>8, <1>10, <1>12, <1>13, <2>1 DEF InProgress, Right
    <2> QED BY <1>9, <2>2 DEF Reading, q, t, next
  <1>14. CASE q.end # "no"
    <2>1. q.end = "full" /\ q.pager.state \in StatesOf(detailed)
      BY <1>6, <1>14 DEF RowIsWhole, RowIsLater, RowIsCut, StatesOf
    <2>2. q.handle.next > first /\ q.handle.open
      BY <1>8
    <2>3. IsFull(q, first, detailed, n, b)
      BY <1>10, <1>12, <2>1, <2>2 DEF IsFull, Right
    <2> QED BY <1>9, <2>3 DEF Reading, q, t, next
  <1> QED BY <1>13, <1>14

\* So does every slot.
LEMMA ReadSlotStep ==
  ASSUME NEW first \in 1 .. Slots + 1, NEW k \in first .. Slots + 1,
         dir \in Arrangements, max \in Nat, NEW detailed \in BOOLEAN,
         NEW n \in BOOLEAN, NEW b \in BOOLEAN, NEW bad,
         NEW r, Reading(r, first, k - 1, detailed, n, b)
  PROVE  Reading(ReadSlot(r, detailed, bad, k), first, k, detailed, n, b)
  <1> DEFINE next == [r EXCEPT !.handle.next = k + 1]
             q == ReadSlot(r, detailed, bad, k)
  <1>0. Slots \in Nat \ {0} /\ k \in 1 .. Slots + 1
    BY ConstantFacts
  <1>1. CASE r.end # "no"
    <2>1. q = r
      BY <1>1 DEF ReadSlot
    <2>2. ~ InProgress(r, k - 1, detailed, n, b)
      BY <1>1 DEF InProgress
    <2> QED BY <2>1, <2>2 DEF Reading
  <1>2. CASE r.end = "no"
    <2>1. Sane(r) /\ InProgress(r, k - 1, detailed, n, b)
      BY <1>2 DEF Reading, IsFull, IsEnded, IsBroken
    <2>2. /\ r \in Pages /\ Limited(r) /\ r.end = "no"
          /\ r.handle.open /\ r.handle.next = k /\ r.pager.number <= k
          /\ r.pager.number \in Nat
      <3>1. r.handle.open /\ r.handle.next = k
        <4>1. (k - 1) + 1 = k
          BY <1>0
        <4> QED BY <2>1, <4>1 DEF InProgress
      <3>2. r \in Pages /\ Limited(r) /\ r.pager.number <= r.handle.next
        BY <2>1 DEF Sane, Orderly
      <3> QED BY <1>2, <3>1, <3>2 DEF Pages, Pagers
    <2>4. /\ next \in Pages /\ next.handle.open /\ next.handle.next = k + 1
          /\ next.end = "no" /\ next.returned = r.returned
          /\ next.pager = r.pager /\ next.seen = r.seen
      <3>1. k + 1 \in 1 .. Slots + 2
        BY <1>0
      <3> QED BY <2>2, <3>1, NextEffect
    <2> HIDE DEF next
    <2>5. ASSUME NEW end \in {"failed", "success"}
          PROVE  LET c == Closed(next, end)
                 IN /\ c \in Pages /\ ~ c.handle.open
                    /\ c.handle.next = k + 1
                    /\ c.end = end /\ c.returned = r.returned
                    /\ c.pager = r.pager /\ c.seen = r.seen /\ Sane(c)
      <3> DEFINE c == Closed(next, end)
      <3>3. /\ c \in Pages /\ ~ c.handle.open /\ c.handle.next = k + 1
            /\ c.end = end /\ c.returned = r.returned
            /\ c.pager = r.pager /\ c.seen = r.seen
        BY <2>4, ClosedEffect
      <3> HIDE DEF c
      <3>4. Orderly(c.handle, c.pager) /\ Limited(c)
        <4>1. c.pager.number <= c.handle.next
          BY <1>0, <2>2, <3>3
        <4>2. /\ c.pager.state \in Buffered => c.pager.buf.name \in Names
              /\ c.pager.state = "detailBuf" => c.pager.buf.left > 0
          BY <2>1, <3>3 DEF Sane, Orderly
        <4>3. ~ c.handle.open
          BY <3>3
        <4> QED BY <2>2, <3>3, <4>1, <4>2, <4>3 DEF Orderly, Limited
      <3> QED BY <3>3, <3>4 DEF Sane, c
    <2>6. CASE k = bad
      <3>1. q = Closed(next, "failed")
        BY <1>2, <2>6 DEF ReadSlot, next
      <3>2. Sane(q) /\ IsBroken(q)
        BY <2>5, <3>1 DEF IsBroken
      <3> QED BY <3>2 DEF Reading
    <2>7. CASE k # bad /\ k = Slots + 1
      <3>1. q = Closed(next, "success")
        BY <1>2, <2>7 DEF ReadSlot, next
      <3>2. /\ Sane(q) /\ q.end = "success" /\ q.pager = r.pager
            /\ q.seen = r.seen /\ ~ q.handle.open /\ q.handle.next = Slots + 2
        <4>1. k + 1 = Slots + 2
          BY <1>0, <2>7
        <4> QED BY <2>5, <3>1, <4>1
      <3>3. Before(q.handle.next) = Before(r.handle.next)
        BY <2>2, <2>7, <3>2, PassEnd
      <3>4. Right(q, detailed, n, b)
        <4>1. /\ NumbersRight(r.handle, r.pager, r.seen)
                   => NumbersRight(q.handle, r.pager, r.seen)
              /\ BytesRight(detailed, r.handle, r.pager, r.seen)
                   => BytesRight(detailed, q.handle, r.pager, r.seen)
          BY <3>3, SkipStep
        <4> QED BY <2>1, <3>2, <4>1 DEF InProgress, Right
      <3>5. IsEnded(q, detailed, n, b)
        BY <2>1, <3>2, <3>4 DEF IsEnded, InProgress
      <3> QED BY <3>2, <3>5 DEF Reading
    <2>8. CASE k # bad /\ k \in 1 .. Slots /\ dir[k] = Free
      <3>1. q = next
        BY <1>2, <2>8, <1>0 DEF ReadSlot, next
      <3>2. Before(next.handle.next) = Before(r.handle.next)
        BY <2>2, <2>4, <2>8, PassFree
      <3>3. Right(next, detailed, n, b)
        <4>1. /\ NumbersRight(r.handle, r.pager, r.seen)
                   => NumbersRight(next.handle, r.pager, r.seen)
              /\ BytesRight(detailed, r.handle, r.pager, r.seen)
                   => BytesRight(detailed, next.handle, r.pager, r.seen)
          BY <3>2, SkipStep
        <4> QED BY <2>1, <2>4, <4>1 DEF InProgress, Right
      <3>4. Sane(next)
        <4>1. next.pager.number <= next.handle.next
          BY <1>0, <2>2, <2>4
        <4>2. /\ next.pager.state \in Buffered => next.pager.buf.name \in Names
              /\ next.pager.state = "detailBuf" => next.pager.buf.left > 0
          BY <2>1, <2>4 DEF Sane, Orderly
        <4>3. next.handle.next <= Slots + 1
          BY <1>0, <2>4, <2>8
        <4> QED BY <2>2, <2>4, <4>1, <4>2, <4>3 DEF Sane, Orderly, Limited
      <3>5. InProgress(next, k, detailed, n, b)
        BY <2>1, <2>4, <2>8, <3>3 DEF InProgress
      <3> QED BY <3>1, <3>4, <3>5 DEF Reading
    <2>9. CASE k # bad /\ k \in 1 .. Slots /\ dir[k] # Free
      <3>1. q = Row(Numbers(next, dir[k]), detailed, dir[k])
        BY <1>2, <2>9, <1>0 DEF ReadSlot, next
      <3>2. first \in 1 .. k
        BY <1>0
      <3> QED BY <2>1, <2>9, <3>1, <3>2, ReadEntry DEF next
    <2> QED BY <1>0, <2>6, <2>7, <2>8, <2>9
  <1> QED BY <1>1, <1>2

\* A page that is read to its end is full, or ends the listing, or breaks it.
LEMMA ListOnEffect ==
  ASSUME dir \in Arrangements, max \in Nat, NEW detailed \in BOOLEAN,
         NEW n \in BOOLEAN, NEW b \in BOOLEAN, NEW bad, NEW r,
         Sane(r), r.end = "no",
         r.handle.open =>
           Right(r, detailed, n, b) /\ (b => r.pager.state \notin Buffered)
  PROVE  LET q == ListOn(r, detailed, bad)
         IN /\ Sane(q)
            /\ \/ IsFull(q, r.handle.next, detailed, n, b)
               \/ IsEnded(q, detailed, n, b)
               \/ IsBroken(q)
  <1> DEFINE q == ListOn(r, detailed, bad)
             first == r.handle.next
  <1>0. r \in Pages /\ r.handle \in Handles /\ Slots \in Nat \ {0}
    BY ConstantFacts DEF Sane, Pages
  <1>1. CASE ~ r.handle.open
    <2>1. q = Closed(r, "failed")
      BY <1>1 DEF ListOn
    <2>3. /\ q \in Pages /\ q.handle.next = r.handle.next /\ ~ q.handle.open
          /\ q.pager = r.pager /\ q.returned = r.returned /\ q.end = "failed"
      BY <1>0, <2>1, ClosedEffect
    <2> HIDE DEF q
    <2>4. Sane(q)
      BY <2>3 DEF Sane, Orderly, Limited
    <2>5. IsBroken(q)
      BY <1>1, <2>3 DEF IsBroken
    <2> QED BY <2>4, <2>5 DEF q
  <1>2. CASE r.handle.open
    <2>1. first \in 1 .. Slots + 1
      BY <1>0, <1>2 DEF Sane, Orderly, Handles
    <2>2. PICK f : /\ ReadsTo(f, Slots + 1, r, detailed, bad)
                   /\ q = f[Slots + 1]
      <3>1. first \in Nat \ {0} /\ Slots + 1 \in Nat
        BY <1>0, <2>1
      <3>2. \E f : ReadsTo(f, Slots + 1, r, detailed, bad)
        BY <3>1, ReadsToExists
      <3> QED BY <1>2, <3>2, ListOnReads
    <2>3. ASSUME NEW k \in 0 .. Slots + 1
          PROVE  f[k] = IF k < first THEN r
                        ELSE ReadSlot(f[k - 1], detailed, bad, k)
      BY <2>2 DEF ReadsTo
    <2> HIDE DEF q
    <2> DEFINE Done == {k \in Nat : Reading(f[k], first, k, detailed, n, b)}
    <2>4. first - 1 \in Done
      <3>1. f[first - 1] = r
        BY <2>1, <2>3, <1>0
      <3>2. r.handle.open /\ r.handle.next = (first - 1) + 1
        BY <1>2, <2>1
      <3>3. InProgress(r, first - 1, detailed, n, b)
        BY <1>0, <1>2, <2>1, <3>2 DEF InProgress
      <3>4. Reading(r, first, first - 1, detailed, n, b)
        BY <3>3 DEF Reading
      <3> QED BY <2>1, <3>1, <3>4
    <2>5. ASSUME NEW m \in first - 1 .. Slots, m \in Done PROVE m + 1 \in Done
      <3>1. m + 1 \in first .. Slots + 1 /\ m + 1 \in 0 .. Slots + 1
            /\ (m + 1) - 1 = m /\ ~ m + 1 < first
        BY <1>0, <2>1
      <3>2. f[m + 1] = ReadSlot(f[m], detailed, bad, m + 1)
        BY <2>3, <3>1
      <3>3. Reading(f[m], first, (m + 1) - 1, detailed, n, b)
        BY <2>5, <3>1
      <3>4. Reading(f[m + 1], first, m + 1, detailed, n, b)
        BY <2>1, <3>1, <3>2, <3>3, ReadSlotStep
      <3> QED BY <3>1, <3>4
    <2> HIDE DEF Done
    <2>6. Slots + 1 \in Done
      <3>1. first - 1 \in Nat /\ Slots + 1 \in Nat /\ (Slots + 1) - 1 = Slots
            /\ Slots + 1 \in first - 1 .. Slots + 1
        BY <1>0, <2>1
      <3> QED BY <2>4, <2>5, <3>1, Induction
    <2>7. Reading(q, first, Slots + 1, detailed, n, b)
      BY <2>2, <2>6 DEF Done
    <2>8. ~ InProgress(q, Slots + 1, detailed, n, b)
      BY <1>0 DEF InProgress
    <2> QED BY <2>7, <2>8 DEF Reading, q
  <1> QED BY <1>1, <1>2

-----------------------------------------------------------------------------
(* The commands.                                                           *)

\* The page a command begins with.
LEMMA PageIsSane ==
  ASSUME IInv
  PROVE  /\ Sane(Page) /\ Page.end = "no" /\ Page.handle = handle
         /\ Page.pager = pager /\ Page.seen = seen /\ Page.returned = 0
         /\ dir \in Arrangements /\ max \in Nat
  <1>1. /\ handle \in Handles /\ pager \in Pagers /\ seen \in Seen
        /\ dir \in Arrangements /\ max \in MaxChoices /\ Orderly(handle, pager)
    BY DEF IInv, TypeOK
  <1>2. /\ Page \in Pages /\ Page.end = "no" /\ Page.handle = handle
        /\ Page.pager = pager /\ Page.seen = seen /\ Page.returned = 0
    BY <1>1 DEF Page, Pages
  <1>3. max \in Nat
    BY <1>1, ConstantFacts
  <1>4. Limited(Page)
    BY <1>2, <1>3 DEF Limited
  <1> QED BY <1>1, <1>2, <1>3, <1>4 DEF Sane

\* What is right of a page is right of the state it is answered with.
LEMMA RightNext ==
  ASSUME dir' = dir, max' = max
  PROVE  /\ NumbersRight(handle', pager', seen')
              = NumbersRight(handle, pager, seen)'
         /\ DetailRight(handle', pager', seen')
              = DetailRight(handle, pager, seen)'
         /\ PlainRight(handle', pager', seen')
              = PlainRight(handle, pager, seen)'
  <1>1. \A k : Before(k)' = Before(k) /\ Passed(k)' = Passed(k)
    BY DEF Before, Passed
  <1> QED BY <1>1 DEF NumbersRight, DetailRight, PlainRight, SentWhole, Before,
                      Passed

\* A page that is answered keeps the invariant, when what it sent and numbered
\* is right as far as the directory and the limit are what they were.
LEMMA PageAnswered ==
  ASSUME IInv, NEW q, Sane(q), q.end \in {"full", "success", "failed"},
         NEW detailed \in BOOLEAN, Answers(q, detailed),
         UNCHANGED <<dir, max, edits>>, faults' \in 0 .. MaxFaults,
         NEW n \in BOOLEAN, NEW b \in BOOLEAN,
         steady' \in [dir : BOOLEAN, max : BOOLEAN],
         steady'.dir => n,
         steady'.dir /\ (~ detailed => steady'.max) => b,
         q.handle.open => /\ Right(q, detailed, n, b)
                          /\ q.pager.state \in StatesOf(detailed),
         q.end = "success" =>
           /\ q.handle.next = Slots + 2 /\ ~ q.handle.open
           /\ Right(q, detailed, n, b)
           /\ b => q.pager.state \notin Buffered
  PROVE  IInv'
  <1>1. /\ handle' = q.handle /\ pager' = q.pager /\ seen' = q.seen
        /\ reply' = [answer |-> q.end, detail |-> detailed]
        /\ numbered' = (q.end = "success")
        /\ loaded' = [number |-> 0, name |-> None]
        /\ dir' = dir /\ max' = max /\ edits' = edits
    BY DEF Answers
  <1>2. /\ dir \in Arrangements /\ max \in MaxChoices /\ edits \in 0 .. MaxEdits
        /\ Slots \in Nat
    BY ConstantFacts DEF IInv, TypeOK
  <1>3. TypeOK'
    <2>1. q.handle \in Handles /\ q.pager \in Pagers /\ q.seen \in Seen
      BY DEF Sane, Pages
    <2>2. (handle \in Handles /\ pager \in Pagers /\ seen \in Seen)'
      BY <1>1, <2>1 DEF Handles, Pagers, Seen
    <2>3. (dir \in Arrangements)'
      BY <1>1, <1>2 DEF Arrangements
    <2>4. (loaded \in [number : 0 .. Slots, name : Names \cup {None}])'
      BY <1>1, <1>2
    <2>5. (numbered \in BOOLEAN)'
      BY <1>1
    <2>6. (reply \in [answer : {"none", "busy", "nolist", "full", "success",
                                "failed"}, detail : BOOLEAN])'
      BY <1>1
    <2>7. (max \in MaxChoices /\ edits \in 0 .. MaxEdits)'
      BY <1>1, <1>2
    <2> QED BY <2>2, <2>3, <2>4, <2>5, <2>6, <2>7 DEF TypeOK
  <1>4. Orderly(handle, pager)'
    BY <1>1 DEF Sane, Orderly, Buffered
  <1>5. ListingIsRight'
    <2>1. /\ n => NumbersRight(q.handle, q.pager, q.seen)
                    = NumbersRight(handle, pager, seen)'
          /\ DetailRight(q.handle, q.pager, q.seen)
                    = DetailRight(handle, pager, seen)'
          /\ PlainRight(q.handle, q.pager, q.seen)
                    = PlainRight(handle, pager, seen)'
      BY <1>1, RightNext
    <2> SUFFICES ASSUME handle'.open PROVE ListingIsRight'
      BY DEF ListingIsRight
    <2>2. Right(q, detailed, n, b) /\ pager'.state \in StatesOf(detailed)
      BY <1>1
    <2>3. pager'.state # "idle"
      BY <2>2 DEF StatesOf
    <2>4. steady'.dir => NumbersRight(handle, pager, seen)'
      BY <2>1, <2>2 DEF Right
    <2>5. pager'.state \in StatesOf(TRUE) => detailed
      BY <2>2 DEF StatesOf
    <2>6. pager'.state \in StatesOf(FALSE) => ~ detailed
      BY <2>2 DEF StatesOf
    <2>7. steady'.dir /\ pager'.state \in StatesOf(TRUE)
            => DetailRight(handle, pager, seen)'
      BY <2>1, <2>2, <2>5 DEF Right, BytesRight
    <2>8. steady'.dir /\ steady'.max /\ pager'.state \in StatesOf(FALSE)
            => PlainRight(handle, pager, seen)'
      BY <2>1, <2>2, <2>6 DEF Right, BytesRight
    <2> QED BY <2>3, <2>4, <2>7, <2>8 DEF ListingIsRight, StatesOf
  <1>6. NumbersStay'
    <2> SUFFICES ASSUME steady'.dir, numbered' PROVE NumbersStay'
      BY DEF NumbersStay
    <2>1. /\ NumbersRight(q.handle, q.pager, q.seen)
          /\ q.handle.next = Slots + 2
      BY <1>1 DEF Right
    <2>2. Before(Slots + 2) = Before(Slots + 1)
      BY <1>2, PassEnd
    <2>3. \A i \in Before(Slots + 1) :
            seen'.number[dir[i]] = Cardinality(Before(i)) + 1
      BY <1>1, <2>1, <2>2 DEF NumbersRight
    <2> QED BY <1>1, <2>3 DEF NumbersStay, Before
  <1>7. DetailIsComplete'
    <2> SUFFICES ASSUME reply'.answer = "success", steady'.dir, reply'.detail
                 PROVE  (\A name \in Names :
                           seen.bytes[name] = IF name \in Listed
                                                THEN Size[name] ELSE 0)'
      BY DEF DetailIsComplete, Complete
    <2>1. q.end = "success" /\ detailed
      BY <1>1
    <2>2. /\ DetailRight(q.handle, q.pager, q.seen)
          /\ q.handle.next = Slots + 2 /\ q.pager.state \notin Buffered
      BY <2>1 DEF Right, BytesRight
    <2>3. Passed(Slots + 2) = Listed /\ Listed' = Listed
      BY <1>1, <1>2, PassEnd DEF Listed
    <2> QED BY <1>1, <2>2, <2>3 DEF DetailRight
  <1>8. ListIsComplete'
    <2> SUFFICES ASSUME reply'.answer = "success", steady'.dir, ~ reply'.detail,
                        steady'.max
                 PROVE  (\A name \in Listed :
                           /\ max = 0 \/ Size[name] < max
                                => seen.bytes[name] = Size[name]
                           /\ seen.bytes[name] \in {0, Size[name]})'
      BY DEF ListIsComplete, Complete
    <2>1. q.end = "success" /\ ~ detailed
      BY <1>1
    <2>2. /\ PlainRight(q.handle, q.pager, q.seen)
          /\ q.handle.next = Slots + 2 /\ q.pager.state \notin Buffered
      BY <2>1 DEF Right, BytesRight
    <2>3. Passed(Slots + 2) = Listed /\ Listed' = Listed
      BY <1>1, <1>2, PassEnd DEF Listed
    <2> QED BY <1>1, <2>2, <2>3 DEF PlainRight, SentWhole
  <1>9. NumberMeansRow'
    BY <1>1 DEF NumberMeansRow
  <1> QED BY <1>3, <1>4, <1>5, <1>6, <1>7, <1>8, <1>9 DEF IInv

\* A read error is counted.
LEMMA ReadsIsTyped ==
  ASSUME TypeOK, NEW bad, Reads(bad)
  PROVE  faults' \in 0 .. MaxFaults
  BY ListAssumption DEF Reads, TypeOK, ListAssumption

\* A listing begins at the first slot, with nothing sent.
LEMMA ListingBegins ==
  ASSUME IInv, pager.state = "idle", NEW detailed \in BOOLEAN, NEW bad,
         Reads(bad), Answers(ListOn(Opened, detailed, bad), detailed),
         steady' = [dir |-> TRUE, max |-> TRUE], UNCHANGED <<dir, max, edits>>
  PROVE  IInv'
  <1> DEFINE q == ListOn(Opened, detailed, bad)
  <1>1. /\ Sane(Page) /\ Page.end = "no" /\ Page.handle = handle
        /\ Page.pager = pager /\ Page.seen = seen /\ Page.returned = 0
        /\ dir \in Arrangements /\ max \in Nat
    BY PageIsSane
  <1>2. /\ Opened \in Pages /\ Opened.handle.open /\ Opened.handle.next = 1
        /\ Opened.pager.number = 1 /\ Opened.pager.state = "idle"
        /\ Opened.seen.bytes = [m \in Names |-> 0]
        /\ Opened.end = "no" /\ Opened.returned = 0
    <2> DEFINE p == [pager EXCEPT !.number = 1]
               h == [open |-> TRUE, next |-> 1]
    <2>1. h \in Handles /\ h.open /\ h.next = 1
      BY ConstantFacts DEF Handles
    <2>2. p \in Pagers /\ p.number = 1 /\ p.state = "idle"
      BY ConstantFacts DEF IInv, TypeOK, Pagers
    <2>3. Nothing \in Seen /\ Nothing.bytes = [m \in Names |-> 0]
      BY ConstantFacts DEF Nothing, Seen
    <2>4. Opened = [Page EXCEPT !.handle = h, !.pager = p, !.seen = Nothing]
      BY <1>1 DEF Opened
    <2>5. Page \in Pages
      BY <1>1 DEF Sane
    <2> HIDE DEF p, h
    <2>6. /\ Opened \in Pages /\ Opened.handle = h /\ Opened.pager = p
          /\ Opened.seen = Nothing /\ Opened.end = "no" /\ Opened.returned = 0
      BY <1>1, <2>1, <2>2, <2>3, <2>4, <2>5 DEF Pages
    <2> QED BY <2>1, <2>2, <2>3, <2>6
  <1>3. Sane(Opened)
    BY <1>2, ConstantFacts, <1>1 DEF Sane, Orderly, Limited, Buffered
  <1>4. /\ Right(Opened, detailed, TRUE, TRUE)
        /\ Opened.pager.state \notin Buffered
    <2>1. Before(1) = {} /\ Passed(1) = {} /\ Cardinality(Before(1)) = 0
      BY <1>1, PassEnd
    <2>2. Opened.pager.state \notin Buffered
      BY <1>2 DEF Buffered
    <2> QED BY <1>2, <2>1, <2>2
            DEF Right, NumbersRight, BytesRight, DetailRight, PlainRight
  <1>5. /\ Sane(q)
        /\ \/ IsFull(q, 1, detailed, TRUE, TRUE)
           \/ IsEnded(q, detailed, TRUE, TRUE)
           \/ IsBroken(q)
    BY <1>1, <1>2, <1>3, <1>4, ListOnEffect
  <1> HIDE DEF q
  <1>6. /\ q.end \in {"full", "success", "failed"}
        /\ q.handle.open => /\ Right(q, detailed, TRUE, TRUE)
                            /\ q.pager.state \in StatesOf(detailed)
        /\ q.end = "success" =>
             /\ q.handle.next = Slots + 2 /\ ~ q.handle.open
             /\ Right(q, detailed, TRUE, TRUE)
             /\ TRUE => q.pager.state \notin Buffered
    BY <1>5 DEF IsFull, IsEnded, IsBroken
  <1>7. faults' \in 0 .. MaxFaults
    BY ReadsIsTyped DEF IInv
  <1>8. Answers(q, detailed)
    BY DEF q
  <1>9. steady' \in [dir : BOOLEAN, max : BOOLEAN]
    OBVIOUS
  <1> QED BY <1>5, <1>6, <1>7, <1>8, <1>9, PageAnswered

\* A command that is not served changes nothing but its answer.
LEMMA RefusedStep ==
  ASSUME IInv, NEW answer \in {"busy", "nolist"}, Refused(answer)
  PROVE  IInv'
  <1>1. /\ reply' = [answer |-> answer, detail |-> FALSE]
        /\ dir' = dir /\ handle' = handle /\ pager' = pager /\ max' = max
        /\ numbered' = numbered /\ seen' = seen /\ steady' = steady
        /\ loaded' = loaded /\ edits' = edits /\ faults' = faults
    BY DEF Refused
  <1>2. TypeOK'
    BY <1>1 DEF IInv, TypeOK, Handles, Pagers, Seen, Arrangements
  <1>3. Orderly(handle, pager)'
    BY <1>1 DEF IInv, Orderly, Buffered
  <1>4. ListingIsRight'
    BY <1>1, RightNext DEF IInv, ListingIsRight, StatesOf
  <1>5. NumbersStay'
    BY <1>1 DEF IInv, NumbersStay, Before
  <1>6. NumberMeansRow'
    BY <1>1 DEF IInv, NumberMeansRow
  <1>7. DetailIsComplete' /\ ListIsComplete'
    BY <1>1 DEF DetailIsComplete, ListIsComplete, Complete
  <1> QED BY <1>2, <1>3, <1>4, <1>5, <1>6, <1>7 DEF IInv

\* The DIR is used for something else, and closed: no page can be read from it.
LEMMA DirIsTaken ==
  ASSUME IInv, handle' = [open |-> FALSE, next |-> Slots + 2],
         UNCHANGED <<dir, pager, max, numbered, reply, seen, steady, edits>>,
         faults' \in 0 .. MaxFaults,
         loaded' \in [number : 0 .. Slots, name : Names \cup {None}],
         NumberMeansRow'
  PROVE  IInv'
  <1>1. /\ dir' = dir /\ pager' = pager /\ max' = max /\ numbered' = numbered
        /\ reply' = reply /\ seen' = seen /\ steady' = steady /\ edits' = edits
        /\ ~ handle'.open /\ handle'.next = Slots + 2
    OBVIOUS
  <1>2. TypeOK'
    <2>1. handle' \in Handles
      BY ConstantFacts DEF Handles
    <2> QED BY <1>1, <2>1, SMTT(40) DEF IInv, TypeOK, Handles, Pagers, Seen, Arrangements
  <1>3. Orderly(handle, pager)'
    <2>1. pager.number <= Slots + 2
      BY ConstantFacts DEF IInv, TypeOK, Pagers
    <2> QED BY <1>1, <2>1 DEF IInv, Orderly, Buffered
  <1>4. ListingIsRight'
    BY <1>1 DEF ListingIsRight
  <1>5. NumbersStay'
    BY <1>1 DEF IInv, NumbersStay, Before
  <1>6. DetailIsComplete'
    BY <1>1 DEF IInv, DetailIsComplete, Complete, Listed
  <1>7. ListIsComplete'
    BY <1>1 DEF IInv, ListIsComplete, Complete, Listed
  <1> QED BY <1>2, <1>3, <1>4, <1>5, <1>6, <1>7 DEF IInv

\* The entry that a number finds is the one that was listed under it.
LEMMA NumberedIsListed ==
  ASSUME IInv, numbered, steady.dir, NEW number, NEW name \in Numbered(number)
  PROVE  name \in Names /\ seen.number[name] = number
  <1>1. PICK i \in 1 .. Slots :
          /\ name = dir[i] /\ dir[i] # Free
          /\ number = Cardinality({j \in 1 .. i : dir[j] # Free})
    BY DEF Numbered
  <1>2. {j \in 1 .. i : dir[j] # Free} = Before(i + 1)
    BY <1>1, ConstantFacts DEF Before
  <1>3. dir \in Arrangements /\ i \in Before(Slots + 1)
    BY <1>1, ConstantFacts DEF IInv, TypeOK, Before
  <1>4. Cardinality(Before(i + 1)) = Cardinality(Before(i)) + 1 /\ dir[i] \in Names
    BY <1>1, <1>3, PassEntry
  <1> QED BY <1>1, <1>2, <1>3, <1>4 DEF IInv, NumbersStay

LEMMA LoadNumberStep ==
  ASSUME IInv, LoadNumber
  PROVE  IInv'
  <1>1. PICK number \in 1 .. Slots :
          IF ~ numbered THEN Refused("nolist")
          ELSE \E bad \in {0, 1} :
            /\ Reads(bad)
            /\ handle' = [open |-> FALSE, next |-> Slots + 2]
            /\ IF bad = 0 /\ Numbered(number) \cap (Names \ Partials) # {}
                 THEN \E name \in Numbered(number) :
                        loaded' = [number |-> number, name |-> name]
                 ELSE loaded' = [number |-> 0, name |-> None]
            /\ UNCHANGED <<dir, pager, max, numbered, reply, seen, steady, edits>>
    BY DEF LoadNumber
  <1>2. CASE ~ numbered
    BY <1>1, <1>2, RefusedStep
  <1>3. CASE numbered
    <2>1. PICK bad \in {0, 1} :
            /\ Reads(bad)
            /\ handle' = [open |-> FALSE, next |-> Slots + 2]
            /\ \/ \E name \in Numbered(number) :
                    loaded' = [number |-> number, name |-> name]
               \/ loaded' = [number |-> 0, name |-> None]
            /\ UNCHANGED <<dir, pager, max, numbered, reply, seen, steady, edits>>
      BY <1>1, <1>3
    <2>2. faults' \in 0 .. MaxFaults
      BY <2>1, ReadsIsTyped DEF IInv
    <2>3. /\ loaded' \in [number : 0 .. Slots, name : Names \cup {None}]
          /\ NumberMeansRow'
      <3>1. CASE loaded' = [number |-> 0, name |-> None]
        BY <3>1, ConstantFacts DEF NumberMeansRow
      <3>2. ASSUME NEW name \in Numbered(number),
                   loaded' = [number |-> number, name |-> name]
            PROVE  /\ loaded' \in [number : 0 .. Slots, name : Names \cup {None}]
                   /\ NumberMeansRow'
        <4>1. name \in Names
          <5>1. dir \in [1 .. Slots -> Names \cup {Free}]
            BY DEF IInv, TypeOK, Arrangements
          <5> QED BY <5>1 DEF Numbered
        <4>2. steady.dir => seen.number[name] = number
          BY <1>3, NumberedIsListed
        <4> QED BY <2>1, <3>2, <4>1, <4>2, ConstantFacts DEF NumberMeansRow
      <3> QED BY <2>1, <3>1, <3>2
    <2> QED BY <2>1, <2>2, <2>3, DirIsTaken
  <1> QED BY <1>2, <1>3

LEMMA OtherListingStep ==
  ASSUME IInv, OtherListing
  PROVE  IInv'
  <1>1. /\ handle' = [open |-> FALSE, next |-> Slots + 2]
        /\ UNCHANGED <<dir, pager, max, numbered, reply, seen, steady, edits>>
        /\ loaded' = loaded /\ faults' = faults
    BY DEF OtherListing
  <1>2. NumberMeansRow'
    BY <1>1 DEF IInv, NumberMeansRow
  <1>3. /\ loaded' \in [number : 0 .. Slots, name : Names \cup {None}]
        /\ faults' \in 0 .. MaxFaults
    BY <1>1 DEF IInv, TypeOK
  <1> QED BY <1>1, <1>2, <1>3, DirIsTaken

\* What is right of a plain listing is right under its limit only.
LEMMA CoreMaxStep ==
  ASSUME IInv, CoreMaxCommand
  PROVE  IInv'
  <1>1. /\ max' \in MaxChoices
        /\ steady' = [steady EXCEPT !.max = @ /\ max' = max]
        /\ dir' = dir /\ handle' = handle /\ pager' = pager
        /\ numbered' = numbered /\ reply' = reply /\ seen' = seen
        /\ loaded' = loaded /\ edits' = edits /\ faults' = faults
    BY DEF CoreMaxCommand
  <1>2. /\ steady' \in [dir : BOOLEAN, max : BOOLEAN]
        /\ steady'.dir = steady.dir
        /\ steady'.max => steady.max /\ max' = max
    BY <1>1 DEF IInv, TypeOK
  <1>3. TypeOK'
    BY <1>1, <1>2 DEF IInv, TypeOK, Handles, Pagers, Seen, Arrangements
  <1>4. Orderly(handle, pager)'
    BY <1>1 DEF IInv, Orderly, Buffered
  <1>5. ListingIsRight'
    <2>1. \A k : Before(k)' = Before(k) /\ Passed(k)' = Passed(k)
      BY <1>1 DEF Before, Passed
    <2>2. /\ NumbersRight(handle, pager, seen) => NumbersRight(handle, pager, seen)'
          /\ DetailRight(handle, pager, seen) => DetailRight(handle, pager, seen)'
      BY <1>1, <2>1 DEF NumbersRight, DetailRight, Before, Passed
    <2>3. max' = max /\ PlainRight(handle, pager, seen)
            => PlainRight(handle, pager, seen)'
      BY <1>1, RightNext
    <2> QED BY <1>1, <1>2, <2>2, <2>3 DEF IInv, ListingIsRight, StatesOf
  <1>6. NumbersStay'
    BY <1>1, <1>2 DEF IInv, NumbersStay, Before
  <1>7. DetailIsComplete'
    BY <1>1, <1>2 DEF IInv, DetailIsComplete, Complete, Listed
  <1>8. ListIsComplete'
    BY <1>1, <1>2 DEF IInv, ListIsComplete, Complete, Listed
  <1>9. NumberMeansRow'
    BY <1>1, <1>2 DEF IInv, NumberMeansRow
  <1> QED BY <1>3, <1>4, <1>5, <1>6, <1>7, <1>8, <1>9 DEF IInv

\* A listing of a directory that changes promises nothing.
LEMMA EditStep ==
  ASSUME IInv, Edit
  PROVE  IInv'
  <1>1. /\ edits < MaxEdits /\ edits' = edits + 1
        /\ steady' = [steady EXCEPT !.dir = FALSE]
        /\ handle' = handle /\ pager' = pager /\ max' = max
        /\ numbered' = numbered /\ reply' = reply /\ seen' = seen
        /\ loaded' = loaded /\ faults' = faults
    BY DEF Edit
  <1>2. steady' \in [dir : BOOLEAN, max : BOOLEAN] /\ ~ steady'.dir
    BY <1>1 DEF IInv, TypeOK
  <1>3. dir' \in Arrangements
    <2>1. dir \in Arrangements
      BY DEF IInv, TypeOK
    <2>2. PICK i \in 1 .. Slots :
            \/ dir' = [dir EXCEPT ![i] = Free]
            \/ \E m \in Names \ {dir[j] : j \in 1 .. Slots} :
                 dir' = [dir EXCEPT ![i] = m]
      BY DEF Edit
    <2>3. /\ dir \in [1 .. Slots -> Names \cup {Free}]
          /\ \A j, k \in 1 .. Slots : j # k /\ dir[j] = dir[k] => dir[j] = Free
      BY <2>1 DEF Arrangements
    <2>4. dir' \in [1 .. Slots -> Names \cup {Free}]
      BY <2>2, <2>3
    <2>5. ASSUME NEW j \in 1 .. Slots, NEW k \in 1 .. Slots, j # k, dir'[j] = dir'[k]
          PROVE  dir'[j] = Free
      <3>1. CASE dir' = [dir EXCEPT ![i] = Free]
        BY <2>3, <2>5, <3>1
      <3>2. ASSUME NEW m \in Names \ {dir[l] : l \in 1 .. Slots},
                   dir' = [dir EXCEPT ![i] = m]
            PROVE  dir'[j] = Free
        BY <2>3, <2>5, <3>2
      <3> QED BY <2>2, <3>1, <3>2
    <2> QED BY <2>4, <2>5 DEF Arrangements
  <1>4. edits' \in 0 .. MaxEdits
    BY <1>1, ListAssumption DEF IInv, TypeOK, ListAssumption
  <1>5. TypeOK'
    BY <1>1, <1>2, <1>3, <1>4 DEF IInv, TypeOK, Handles, Pagers, Seen, Arrangements
  <1>6. Orderly(handle, pager)'
    BY <1>1 DEF IInv, Orderly, Buffered
  <1>7. ListingIsRight'
    BY <1>1, <1>2 DEF IInv, ListingIsRight
  <1>8. NumbersStay' /\ DetailIsComplete' /\ ListIsComplete' /\ NumberMeansRow'
    BY <1>2 DEF NumbersStay, DetailIsComplete, ListIsComplete, Complete,
                NumberMeansRow
  <1> QED BY <1>5, <1>6, <1>7, <1>8 DEF IInv

-----------------------------------------------------------------------------
(* The next page.                                                          *)

\* What the next page q of a listing is like, when the numbers are right of
\* what was read so far if n, and the bytes if b.
NextPage(q, detailed, n, b) ==
  /\ Sane(q) /\ q.end \in {"full", "success", "failed"}
  /\ q.handle.open => /\ Right(q, detailed, n, b)
                      /\ q.pager.state \in StatesOf(detailed)
  /\ q.end = "success" =>
       /\ q.handle.next = Slots + 2 /\ ~ q.handle.open
       /\ Right(q, detailed, n, b)
       /\ b => q.pager.state \notin Buffered
  /\ q.end = "full" /\ max > 0 => \/ q.handle.next > handle.next
                                  \/ q.pager.buf.left < pager.buf.left

NowRight(detailed) == steady.dir /\ (detailed \/ steady.max)

\* What is right of a listing that is under way, as a page.
LEMMA PageIsRight ==
  ASSUME IInv, handle.open, NEW detailed \in BOOLEAN,
         pager.state \in StatesOf(detailed)
  PROVE  Right(Page, detailed, steady.dir, NowRight(detailed))
  <1>1. Page.handle = handle /\ Page.pager = pager /\ Page.seen = seen
    BY PageIsSane
  <1>2. ListingIsRight
    BY DEF IInv
  <1>3. steady.dir => NumbersRight(handle, pager, seen)
    BY <1>2 DEF ListingIsRight
  <1>4. CASE detailed
    <2>1. StatesOf(detailed) = StatesOf(TRUE)
      BY <1>4 DEF StatesOf
    <2>2. steady.dir => DetailRight(handle, pager, seen)
      BY <1>2, <2>1 DEF ListingIsRight
    <2> QED BY <1>1, <1>3, <1>4, <2>2 DEF Right, NowRight, BytesRight
  <1>5. CASE ~ detailed
    <2>1. StatesOf(detailed) = StatesOf(FALSE)
      BY <1>5 DEF StatesOf
    <2>2. steady.dir /\ steady.max => PlainRight(handle, pager, seen)
      BY <1>2, <2>1 DEF ListingIsRight
    <2> QED BY <1>1, <1>3, <1>5, <2>2 DEF Right, NowRight, BytesRight
  <1> QED BY <1>4, <1>5

\* A page that is read from the directory alone.
LEMMA ReadPage ==
  ASSUME IInv, NEW detailed \in BOOLEAN, NEW bad,
         pager.state = IF detailed THEN "detail" ELSE "listing"
  PROVE  NextPage(ListOn(Page, detailed, bad), detailed, steady.dir,
                  NowRight(detailed))
  <1> DEFINE q == ListOn(Page, detailed, bad)
             n == steady.dir
             b == NowRight(detailed)
  <1>1. /\ Sane(Page) /\ Page.end = "no" /\ Page.handle = handle
        /\ Page.pager = pager /\ dir \in Arrangements /\ max \in Nat
    BY PageIsSane
  <1>2. n \in BOOLEAN /\ b \in BOOLEAN
    BY DEF IInv, TypeOK, NowRight
  <1>3. pager.state \in StatesOf(detailed) /\ pager.state \notin Buffered
    BY DEF StatesOf, Buffered
  <1>4. Page.handle.open => Right(Page, detailed, n, b)
    BY <1>1, <1>3, PageIsRight
  <1> HIDE DEF n, b
  <1>5. Page.pager.state \notin Buffered
    BY <1>1, <1>3
  <1>6. /\ Sane(q)
        /\ \/ IsFull(q, Page.handle.next, detailed, n, b)
           \/ IsEnded(q, detailed, n, b)
           \/ IsBroken(q)
    BY <1>1, <1>2, <1>4, <1>5, ListOnEffect
  <1> HIDE DEF q
  <1>7. NextPage(q, detailed, n, b)
    BY <1>1, <1>6 DEF NextPage, IsFull, IsEnded, IsBroken
  <1> QED BY <1>7 DEF q, n, b

\* A plain page that begins with the entry that waits.
LEMMA BufferedPage ==
  ASSUME IInv, NEW bad, pager.state = "listingBuf"
  PROVE  NextPage(ListOn(SendBuffer(Page, "listing", "listingBuf"), FALSE, bad),
                  FALSE, steady.dir, NowRight(FALSE))
  <1> DEFINE r == SendBuffer(Page, "listing", "listingBuf")
             q == ListOn(r, FALSE, bad)
             n == steady.dir
             b == NowRight(FALSE)
             name == pager.buf.name
             left == pager.buf.left
  <1>1. /\ Sane(Page) /\ Page.end = "no" /\ Page.handle = handle
        /\ Page.pager = pager /\ Page.seen = seen /\ Page.returned = 0
        /\ dir \in Arrangements /\ max \in Nat
    BY PageIsSane
  <1>2. n \in BOOLEAN /\ b \in BOOLEAN
    BY DEF IInv, TypeOK, NowRight
  <1>3. /\ name \in Names /\ pager \in Pagers /\ left \in Nat /\ seen \in Seen
        /\ pager.state \in Buffered /\ pager.state \in StatesOf(FALSE)
        /\ Page \in Pages
    BY <1>1 DEF IInv, TypeOK, Orderly, Buffered, StatesOf, Pagers, Sane
  <1>4. /\ r \in Pages /\ r.handle = handle /\ r.end = "no"
        /\ r.pager.number = pager.number /\ r.returned = 0
        /\ r.seen.number = seen.number
        /\ \E count \in 0 .. left :
             /\ r.pager.buf = [name |-> name, left |-> left - count]
             /\ r.pager.state = IF count = left THEN "listing" ELSE "listingBuf"
             /\ r.seen.bytes = [seen.bytes EXCEPT ![name] = @ + count]
             /\ left <= max - 0 => count = left
    <2>1. "listing" \in States /\ "listingBuf" \in States
      BY DEF States
    <2>2. Page.pager.buf.name = name /\ Page.returned <= max
      BY <1>1
    <2>3. /\ r \in Pages /\ r.handle = Page.handle /\ r.end = Page.end
          /\ r.pager.number = Page.pager.number /\ r.returned = Page.returned
          /\ r.seen.number = Page.seen.number
          /\ \E count \in 0 .. Page.pager.buf.left :
               /\ r.pager.buf = [name |-> name, left |-> Page.pager.buf.left - count]
               /\ r.pager.state = IF count = Page.pager.buf.left THEN "listing"
                                  ELSE "listingBuf"
               /\ r.seen.bytes = [Page.seen.bytes EXCEPT ![name] = @ + count]
               /\ Page.pager.buf.left <= max - Page.returned
                    => count = Page.pager.buf.left
      <3>1. Page \in Pages /\ name \in Names /\ max \in Nat
        BY <1>1, <1>3
      <3> HIDE DEF name, left
      <3> QED BY <2>1, <2>2, <3>1, SendBufferEffect
    <2> HIDE DEF r
    <2> QED BY <1>1, <1>3, <2>3
  <1> HIDE DEF r
  <1>5. Sane(r)
    <2>1. r.pager.state # "detailBuf" /\ r.pager.buf.name = name
      BY <1>4
    <2>2. Orderly(handle, pager)
      BY DEF IInv
    <2> QED BY <1>1, <1>3, <1>4, <2>1, <2>2 DEF Sane, Orderly, Limited
  <1>6. handle.open => Right(r, FALSE, n, b) /\ (b => r.pager.state \notin Buffered)
    <2> SUFFICES ASSUME handle.open
                 PROVE  Right(r, FALSE, n, b) /\ (b => r.pager.state \notin Buffered)
      OBVIOUS
    <2>1. Right(Page, FALSE, n, b)
      BY <1>3, PageIsRight
    <2>2. n => NumbersRight(r.handle, r.pager, r.seen)
      BY <1>1, <1>4, <2>1 DEF Right, NumbersRight
    <2>3. ASSUME b
          PROVE  PlainRight(r.handle, r.pager, r.seen) /\ r.pager.state \notin Buffered
      <3>1. PlainRight(handle, pager, seen)
        BY <1>1, <2>1, <2>3 DEF Right, BytesRight
      <3>2. /\ name \in Passed(handle.next)
            /\ seen.bytes[name] = 0 /\ left = Size[name] /\ Size[name] < max
        BY <1>3, <3>1 DEF PlainRight
      <3>3. /\ r.pager.state = "listing"
            /\ r.seen.bytes = [seen.bytes EXCEPT ![name] = @ + Size[name]]
        BY <1>1, <1>3, <1>4, <3>2
      <3>4. r.pager.state \notin Buffered
        BY <3>3 DEF Buffered
      <3>5. seen.bytes \in [Names -> Nat] /\ \A m \in Names : Size[m] \in Nat
        BY <1>3, ConstantFacts DEF Seen
      <3>6. /\ r.seen.bytes[name] = Size[name]
            /\ \A m \in Names \ {name} : r.seen.bytes[m] = seen.bytes[m]
        BY <1>3, <3>2, <3>3, <3>5
      <3>7. ASSUME NEW m \in Passed(handle.next) PROVE SentWhole(r.seen, m)
        <4>1. m \in Names
          BY <1>1 DEF Passed, Before, Arrangements
        <4>2. m # name => SentWhole(seen, m)
          BY <3>1 DEF PlainRight
        <4> QED BY <3>6, <4>1, <4>2 DEF SentWhole
      <3>8. \A m \in Names \ Passed(handle.next) : r.seen.bytes[m] = 0
        BY <3>1, <3>2, <3>6 DEF PlainRight
      <3> QED BY <1>4, <3>4, <3>7, <3>8 DEF PlainRight
    <2> QED BY <2>2, <2>3 DEF Right, BytesRight
  <1> HIDE DEF n, b
  <1>7. /\ Sane(q)
        /\ \/ IsFull(q, r.handle.next, FALSE, n, b)
           \/ IsEnded(q, FALSE, n, b)
           \/ IsBroken(q)
    BY <1>1, <1>2, <1>4, <1>5, <1>6, ListOnEffect, ZenonT(40)
  <1> HIDE DEF q
  <1>8. NextPage(q, FALSE, n, b)
    BY <1>4, <1>7 DEF NextPage, IsFull, IsEnded, IsBroken
  <1> QED BY <1>8 DEF q, r, n, b

\* A page with no more than the rest of a long detail.
LEMMA RestPage ==
  ASSUME IInv, pager.state = "detailBuf"
  PROVE  NextPage([SendBuffer(Page, "detail", "detailBuf") EXCEPT !.end = "full"],
                  TRUE, steady.dir, NowRight(TRUE))
  <1> DEFINE r == SendBuffer(Page, "detail", "detailBuf")
             q == [r EXCEPT !.end = "full"]
             n == steady.dir
             b == NowRight(TRUE)
             name == pager.buf.name
             left == pager.buf.left
  <1>1. /\ Sane(Page) /\ Page.end = "no" /\ Page.handle = handle
        /\ Page.pager = pager /\ Page.seen = seen /\ Page.returned = 0
        /\ dir \in Arrangements /\ max \in Nat
    BY PageIsSane
  <1>3. /\ name \in Names /\ pager \in Pagers /\ left \in Nat /\ seen \in Seen
        /\ pager.state \in Buffered /\ pager.state \in StatesOf(TRUE)
        /\ Page \in Pages /\ left > 0
    BY <1>1 DEF IInv, TypeOK, Orderly, Buffered, StatesOf, Pagers, Sane
  <1>4. /\ r \in Pages /\ r.handle = handle /\ r.end = "no"
        /\ r.pager.number = pager.number /\ r.returned = 0
        /\ r.seen.number = seen.number
        /\ \E count \in 0 .. left :
             /\ r.pager.buf = [name |-> name, left |-> left - count]
             /\ r.pager.state = IF count = left THEN "detail" ELSE "detailBuf"
             /\ r.seen.bytes = [seen.bytes EXCEPT ![name] = @ + count]
             /\ max - 0 > 0 => count > 0
    <2>1. "detail" \in States /\ "detailBuf" \in States
      BY DEF States
    <2>2. Page.pager.buf.name = name /\ Page.returned <= max
      BY <1>1
    <2>3. /\ r \in Pages /\ r.handle = Page.handle /\ r.end = Page.end
          /\ r.pager.number = Page.pager.number /\ r.returned = Page.returned
          /\ r.seen.number = Page.seen.number
          /\ \E count \in 0 .. Page.pager.buf.left :
               /\ r.pager.buf = [name |-> name, left |-> Page.pager.buf.left - count]
               /\ r.pager.state = IF count = Page.pager.buf.left THEN "detail"
                                  ELSE "detailBuf"
               /\ r.seen.bytes = [Page.seen.bytes EXCEPT ![name] = @ + count]
               /\ Page.pager.buf.left <= max - Page.returned =>
                    count = Page.pager.buf.left
               /\ Page.pager.buf.left > 0 /\ max - Page.returned > 0 => count > 0
      <3>1. /\ Page \in Pages /\ name \in Names /\ max \in Nat
            /\ Page.pager.buf.name = name /\ Page.returned <= max
        BY <1>1, <1>3, <2>2
      <3> HIDE DEF name, left
      <3> QED BY <3>1, <2>1, SendBufferEffect, SMTT(40)
    <2> HIDE DEF r
    <2> QED BY <1>1, <1>3, <2>3
  <1> HIDE DEF r
  <1>5. /\ q \in Pages /\ q.handle = handle /\ q.end = "full"
        /\ q.pager = r.pager /\ q.returned = 0 /\ q.seen = r.seen
    BY <1>4 DEF Pages
  <1> HIDE DEF q
  <1>6. PICK count \in 0 .. left :
             /\ q.pager.buf.name = name /\ q.pager.buf.left = left - count
             /\ q.pager.state = IF count = left THEN "detail" ELSE "detailBuf"
             /\ q.seen.bytes = [seen.bytes EXCEPT ![name] = @ + count]
             /\ max > 0 => count > 0
    BY <1>1, <1>4, <1>5
  <1>7. Sane(q)
    <2>1. Orderly(handle, pager)
      BY DEF IInv
    <2>2. q.pager.state = "detailBuf" => q.pager.buf.left > 0
      BY <1>3, <1>6
    <2> QED BY <1>1, <1>3, <1>4, <1>5, <1>6, <2>1, <2>2 DEF Sane, Orderly, Limited
  <1>8. q.pager.state \in StatesOf(TRUE)
    BY <1>6 DEF StatesOf
  <1>9. handle.open => Right(q, TRUE, n, b)
    <2> SUFFICES ASSUME handle.open PROVE Right(q, TRUE, n, b)
      OBVIOUS
    <2>1. Right(Page, TRUE, n, b)
      BY <1>3, PageIsRight
    <2>2. n => NumbersRight(q.handle, q.pager, q.seen)
      BY <1>1, <1>4, <1>5, <2>1 DEF Right, NumbersRight
    <2>3. ASSUME b PROVE DetailRight(q.handle, q.pager, q.seen)
      <3>1. DetailRight(handle, pager, seen)
        BY <1>1, <2>1, <2>3 DEF Right, BytesRight
      <3>2. /\ seen.bytes \in [Names -> Nat] /\ \A m \in Names : Size[m] \in Nat
        BY <1>3, ConstantFacts DEF Seen
      <3>3. /\ name \in Passed(handle.next)
            /\ seen.bytes[name] = Size[name] - left
        BY <1>3, <3>1 DEF DetailRight
      <3>4. /\ q.seen.bytes[name] = Size[name] - (left - count)
            /\ \A m \in Names \ {name} : q.seen.bytes[m] = seen.bytes[m]
        <4>1. q.seen.bytes[name] = seen.bytes[name] + count
          BY <1>3, <1>6, <3>2
        <4>2. \A m \in Names \ {name} : q.seen.bytes[m] = seen.bytes[m]
          BY <1>6, <3>2
        <4> QED BY <1>3, <3>2, <3>3, <4>1, <4>2
      <3>5. q.pager.state \notin Buffered => count = left
        BY <1>6 DEF Buffered
      <3>6. ASSUME NEW m \in Names
            PROVE  q.seen.bytes[m] =
                     IF m \notin Passed(handle.next) THEN 0
                     ELSE IF q.pager.state \in Buffered /\ q.pager.buf.name = m
                     THEN Size[m] - q.pager.buf.left
                     ELSE Size[m]
        <4>1. CASE m = name
          BY <1>3, <1>6, <3>2, <3>3, <3>4, <3>5, <4>1
        <4>2. CASE m # name
          <5>1. seen.bytes[m] = IF m \notin Passed(handle.next) THEN 0 ELSE Size[m]
            BY <3>1, <4>2 DEF DetailRight
          <5> QED BY <1>6, <3>4, <4>2, <5>1
        <4> QED BY <4>1, <4>2
      <3> QED BY <1>5, <1>6, <3>3, <3>6 DEF DetailRight
    <2> QED BY <2>2, <2>3 DEF Right, BytesRight
  <1>10. max > 0 => q.pager.buf.left < pager.buf.left
    BY <1>3, <1>6
  <1> HIDE DEF n, b
  <1>11. NextPage(q, TRUE, n, b)
    BY <1>5, <1>7, <1>8, <1>9, <1>10 DEF NextPage
  <1> QED BY <1>11 DEF q, r, n, b

\* Whatever the listing is, and whichever slot cannot be read.
LEMMA MorePageEffect ==
  ASSUME IInv, pager.state # "idle", NEW bad
  PROVE  LET detailed == pager.state \in {"detail", "detailBuf"}
         IN NextPage(MorePage(bad), detailed, steady.dir, NowRight(detailed))
  <1> DEFINE detailed == pager.state \in {"detail", "detailBuf"}
  <1>0. pager.state \in {"listing", "listingBuf", "detail", "detailBuf"}
    BY DEF IInv, TypeOK, Pagers, States
  <1>1. CASE pager.state = "listing"
    <2>1. MorePage(bad) = ListOn(Page, FALSE, bad) /\ detailed = FALSE
      BY <1>1 DEF MorePage
    <2>2. NextPage(ListOn(Page, FALSE, bad), FALSE, steady.dir, NowRight(FALSE))
      BY <1>1, ReadPage
    <2> QED BY <2>1, <2>2
  <1>2. CASE pager.state = "detail"
    <2>1. MorePage(bad) = ListOn(Page, TRUE, bad) /\ detailed = TRUE
      BY <1>2 DEF MorePage
    <2>2. NextPage(ListOn(Page, TRUE, bad), TRUE, steady.dir, NowRight(TRUE))
      BY <1>2, ReadPage
    <2> QED BY <2>1, <2>2
  <1>3. CASE pager.state = "listingBuf"
    <2>1. /\ MorePage(bad) =
               ListOn(SendBuffer(Page, "listing", "listingBuf"), FALSE, bad)
          /\ detailed = FALSE
      BY <1>3 DEF MorePage
    <2> QED BY <1>3, <2>1, BufferedPage
  <1>4. CASE pager.state = "detailBuf"
    <2>1. /\ MorePage(bad) =
               [SendBuffer(Page, "detail", "detailBuf") EXCEPT !.end = "full"]
          /\ detailed = TRUE
      BY <1>4 DEF MorePage
    <2> QED BY <1>4, <2>1, RestPage
  <1> QED BY <1>0, <1>1, <1>2, <1>3, <1>4

\* Asking for the next page keeps the invariant, and comes further.
LEMMA CoreMoreStep ==
  ASSUME IInv, CoreMoreCommand
  PROVE  /\ IInv'
         /\ reply'.answer = "full" /\ max > 0 =>
              \/ handle'.next > handle.next
              \/ pager'.buf.left < pager.buf.left
  <1>1. CASE pager.state = "idle"
    <2>1. Refused("nolist")
      BY <1>1 DEF CoreMoreCommand
    <2>2. reply'.answer # "full"
      BY <2>1 DEF Refused
    <2> QED BY <2>1, <2>2, RefusedStep
  <1>2. CASE pager.state # "idle"
    <2> DEFINE detailed == pager.state \in {"detail", "detailBuf"}
               n == steady.dir
               b == NowRight(detailed)
    <2>1. PICK bad \in 0 .. Slots + 1 :
            /\ Reads(bad)
            /\ Answers(IF MorePage(bad).end = "success"
                         THEN [MorePage(bad) EXCEPT !.pager.state = "idle"]
                         ELSE MorePage(bad), detailed)
      BY <1>2 DEF CoreMoreCommand
    <2>2. UNCHANGED <<dir, max, steady, edits>>
      BY <1>2 DEF CoreMoreCommand
    <2> DEFINE q == MorePage(bad)
               p == [q EXCEPT !.pager.state = "idle"]
               r == IF q.end = "success" THEN p ELSE q
    <2>3. NextPage(q, detailed, n, b)
      BY <1>2, MorePageEffect
    <2>4. Answers(r, detailed)
      BY <2>1
    <2>5. /\ n \in BOOLEAN /\ b \in BOOLEAN /\ detailed \in BOOLEAN
          /\ steady' = steady /\ steady \in [dir : BOOLEAN, max : BOOLEAN]
          /\ n = steady.dir /\ b = (steady.dir /\ (detailed \/ steady.max))
      BY <2>2 DEF IInv, TypeOK, NowRight
    <2> HIDE DEF q, detailed, n, b
    <2>6. /\ p.pager.state = "idle" /\ p.pager.number = q.pager.number
          /\ p.pager.buf = q.pager.buf /\ p.handle = q.handle
          /\ p.seen = q.seen /\ p.end = q.end /\ p.returned = q.returned
          /\ p \in Pages
      <3> DEFINE i == [q.pager EXCEPT !.state = "idle"]
      <3>1. q \in Pages
        BY <2>3 DEF NextPage, Sane
      <3>2. /\ i \in Pagers /\ i.state = "idle" /\ i.number = q.pager.number
            /\ i.buf = q.pager.buf
        BY <3>1 DEF Pages, Pagers, States
      <3>3. p = [q EXCEPT !.pager = i]
        OBVIOUS
      <3> HIDE DEF i, p
      <3> QED BY <3>1, <3>2, <3>3 DEF Pages
    <2> HIDE DEF p
    <2>7. /\ Sane(r) /\ r.end \in {"full", "success", "failed"}
          /\ r.handle.open => /\ Right(r, detailed, n, b)
                              /\ r.pager.state \in StatesOf(detailed)
          /\ r.end = "success" =>
               /\ r.handle.next = Slots + 2 /\ ~ r.handle.open
               /\ Right(r, detailed, n, b)
               /\ b => r.pager.state \notin Buffered
      <3>1. CASE q.end # "success"
        BY <2>3, <3>1 DEF NextPage
      <3>2. CASE q.end = "success"
        <4>1. /\ Sane(q) /\ q.handle.next = Slots + 2 /\ ~ q.handle.open
              /\ Right(q, detailed, n, b)
              /\ b => q.pager.state \notin Buffered
          BY <2>3, <3>2 DEF NextPage
        <4>2. Sane(p)
          BY <2>6, <4>1 DEF Sane, Orderly, Limited, Buffered
        <4>3. p.pager.state \notin Buffered
          BY <2>6 DEF Buffered
        <4>4. n => NumbersRight(p.handle, p.pager, p.seen)
          BY <2>6, <4>1 DEF Right, NumbersRight
        <4>5. b => BytesRight(detailed, p.handle, p.pager, p.seen)
          BY <2>6, <4>1, <4>3 DEF Right, BytesRight, DetailRight, PlainRight
        <4> QED BY <2>6, <3>2, <4>1, <4>2, <4>3, <4>4, <4>5 DEF Right
      <3> QED BY <3>1, <3>2
    <2>8. IInv'
      <3>1. faults' \in 0 .. MaxFaults
        BY <2>1, ReadsIsTyped DEF IInv
      <3> HIDE DEF r
      <3>2. /\ steady' \in [dir : BOOLEAN, max : BOOLEAN]
            /\ steady'.dir => n
            /\ steady'.dir /\ (~ detailed => steady'.max) => b
        BY <2>5
      <3>3. UNCHANGED <<dir, max, edits>>
        BY <2>2
      <3> QED BY <2>4, <2>5, <2>7, <3>1, <3>2, <3>3, PageAnswered
    <2>9. reply'.answer = "full" /\ max > 0 =>
              \/ handle'.next > handle.next
              \/ pager'.buf.left < pager.buf.left
      <3> SUFFICES ASSUME reply'.answer = "full", max > 0
                   PROVE  \/ handle'.next > handle.next
                          \/ pager'.buf.left < pager.buf.left
        OBVIOUS
      <3>1. /\ reply' = [answer |-> r.end, detail |-> detailed]
            /\ handle' = r.handle /\ pager' = r.pager
        BY <2>4 DEF Answers
      <3>2. r.end = "full"
        BY <3>1
      <3>3. r = q
        BY <2>6, <3>2
      <3> QED BY <2>3, <3>1, <3>2, <3>3 DEF NextPage
    <2> QED BY <2>8, <2>9
  <1> QED BY <1>1, <1>2

LEMMA CoreListStep ==
  ASSUME IInv, CoreListCommand \/ CoreDetailCommand
  PROVE  IInv'
  <1>1. CASE Refused("busy")
    BY <1>1, RefusedStep
  <1>2. ASSUME ~ Refused("busy")
        PROVE  \E detailed \in BOOLEAN, bad \in 0 .. Slots + 1 :
                 /\ pager.state = "idle" /\ Reads(bad)
                 /\ Answers(ListOn(Opened, detailed, bad), detailed)
                 /\ steady' = [dir |-> TRUE, max |-> TRUE]
                 /\ UNCHANGED <<dir, max, edits>>
    BY <1>2 DEF CoreListCommand, CoreDetailCommand
  <1> QED BY <1>1, <1>2, ListingBegins

LEMMA NextStep ==
  ASSUME IInv, [Next]_vars
  PROVE  IInv'
  <1>1. CASE CoreListCommand \/ CoreDetailCommand
    BY <1>1, CoreListStep
  <1>2. CASE CoreMoreCommand
    BY <1>2, CoreMoreStep
  <1>3. CASE CoreMaxCommand
    BY <1>3, CoreMaxStep
  <1>4. CASE LoadNumber
    BY <1>4, LoadNumberStep
  <1>5. CASE OtherListing
    BY <1>5, OtherListingStep
  <1>6. CASE Edit
    BY <1>6, EditStep
  <1>7. CASE UNCHANGED vars
    <2>1. /\ reply' = reply
          /\ dir' = dir /\ handle' = handle /\ pager' = pager /\ max' = max
          /\ numbered' = numbered /\ seen' = seen /\ steady' = steady
          /\ loaded' = loaded /\ edits' = edits /\ faults' = faults
      BY <1>7 DEF vars
    <2>2. TypeOK' /\ Orderly(handle, pager)'
      BY <2>1 DEF IInv, TypeOK, Handles, Pagers, Seen, Arrangements, Orderly,
                  Buffered
    <2>3. ListingIsRight'
      BY <2>1, RightNext DEF IInv, ListingIsRight, StatesOf
    <2>4. NumbersStay' /\ NumberMeansRow'
      BY <2>1 DEF IInv, NumbersStay, Before, NumberMeansRow
    <2>5. DetailIsComplete' /\ ListIsComplete'
      BY <2>1 DEF IInv, DetailIsComplete, ListIsComplete, Complete, Listed
    <2> QED BY <2>2, <2>3, <2>4, <2>5 DEF IInv
  <1> QED BY <1>1, <1>2, <1>3, <1>4, <1>5, <1>6, <1>7 DEF Next

LEMMA InitStep ==
  ASSUME Init
  PROVE  IInv
  <1>1. TypeOK
    <2>1. handle \in Handles /\ pager \in Pagers
      BY ConstantFacts DEF Init, Handles, Pagers, States, NoBuffer
    <2>2. seen \in Seen
      BY ConstantFacts DEF Init, Seen, Nothing
    <2>3. max \in MaxChoices /\ edits \in 0 .. MaxEdits /\ faults \in 0 .. MaxFaults
      BY ListAssumption DEF Init, ListAssumption
    <2>4. loaded \in [number : 0 .. Slots, name : Names \cup {None}]
      BY ConstantFacts DEF Init
    <2>5. /\ dir \in Arrangements /\ numbered \in BOOLEAN
          /\ reply \in [answer : {"none", "busy", "nolist", "full", "success",
                                  "failed"}, detail : BOOLEAN]
          /\ steady \in [dir : BOOLEAN, max : BOOLEAN]
      BY DEF Init
    <2> QED BY <2>1, <2>2, <2>3, <2>4, <2>5 DEF TypeOK
  <1>2. Orderly(handle, pager)
    BY ConstantFacts DEF Init, Orderly, Buffered
  <1> QED BY <1>1, <1>2
          DEF Init, IInv, ListingIsRight, NumbersStay, DetailIsComplete,
              ListIsComplete, Complete, NumberMeansRow

-----------------------------------------------------------------------------
(* The theorems.                                                           *)

\* The listing keeps its state in order: a DIR that is open has given out one
\* number per entry it has passed, and the bytes that went out and the bytes
\* that wait make up the lines of those entries.
THEOREM ListInvariance == Spec => []IInv
  <1>1. Init => IInv
    BY InitStep
  <1>2. IInv /\ [Next]_vars => IInv'
    BY NextStep
  <1> QED BY <1>1, <1>2, PTL DEF Spec

\* The types of the DIR, of the statics of the pager and of what the reader of a
\* listing has seen.
THEOREM TypeCorrect == Spec => []TypeOK
  <1>1. IInv => TypeOK
    BY DEF IInv
  <1> QED BY <1>1, ListInvariance, PTL

\* A detailed listing that ends has sent every entry of an unchanged directory
\* exactly once and whole, for every directory, length of lines and sequence of
\* limits (DetailIsComplete of the run).
THEOREM DetailsAreComplete == Spec => []DetailIsComplete
  <1>1. IInv => DetailIsComplete
    BY DEF IInv
  <1> QED BY <1>1, ListInvariance, PTL

\* A plain listing under one limit has sent every entry whose line is shorter
\* than a page, and no part of a line (ListIsComplete of the run).
THEOREM ListsAreComplete == Spec => []ListIsComplete
  <1>1. IInv => ListIsComplete
    BY DEF IInv
  <1> QED BY <1>1, ListInvariance, PTL

\* A number loads the entry that was listed under it (NumberMeansRow of the
\* run).
THEOREM NumbersMeanRows == Spec => []NumberMeansRow
  <1>1. IInv => NumberMeansRow
    BY DEF IInv
  <1> QED BY <1>1, ListInvariance, PTL

\* While there is a limit, a page that says there is more has come further: in
\* the directory, or in the entry that waits (MoreAdvances of the run).
THEOREM PagesAdvance == Spec => MoreAdvances
  <1>1. IInv /\ [Next]_vars =>
          [CoreMoreCommand /\ reply'.answer = "full" /\ max > 0 =>
             \/ handle'.next > handle.next
             \/ pager'.buf.left < pager.buf.left]_vars
    BY CoreMoreStep
  <1> QED BY <1>1, ListInvariance, PTL DEF Spec, MoreAdvances

=============================================================================
