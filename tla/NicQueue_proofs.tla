-------------------------- MODULE NicQueue_proofs --------------------------
(***************************************************************************)
(* Proofs about the frames in NicRing's ring: what the driver has read is  *)
(* the frame at its head, whole, whatever is stored meanwhile.             *)
(*                                                                         *)
(* A place in the ring is named by how many pages it is behind another, so *)
(* that the wrap is dealt with once, in the lemmas about Behind.           *)
(***************************************************************************)
EXTENDS NicRing_proofs

-----------------------------------------------------------------------------
(* Places in the ring.                                                     *)

LEMMA RingInts ==
    /\ PStart \in Int /\ PStop \in Int /\ Size \in Int /\ Size >= 3 /\ Size < 255
    /\ PStart > 0 /\ PStop = PStart + Size
    /\ \A p : p \in Ring <=> p \in Int /\ PStart <= p /\ p < PStop
BY RingAssumption DEF Size, Ring

LEMMA BehindTyped ==
    ASSUME NEW p \in Ring, NEW k \in 0 .. Size
    PROVE  Behind(p, k) \in Ring /\ Behind(p, 0) = p
BY RingInts DEF Behind

LEMMA BehindBehind ==
    ASSUME NEW p \in Ring, NEW j \in Nat, NEW k \in Nat, j + k <= Size
    PROVE  Behind(Behind(p, j), k) = Behind(p, j + k)
BY RingInts DEF Behind

LEMMA BehindApart ==
    ASSUME NEW p \in Ring, NEW j \in 0 .. Size, NEW k \in 0 .. Size, j < k, k - j < Size
    PROVE  Behind(p, j) # Behind(p, k)
BY RingInts DEF Behind

LEMMA NextIsBehind ==
    ASSUME NEW p \in Ring
    PROVE  NextPage(p) = Behind(p, 1)
BY RingInts DEF Behind, NextPage

LEMMA BeforeIsBehind ==
    ASSUME NEW p \in Ring, NEW k \in 1 .. Size
    PROVE  Before(Behind(p, k)) = Behind(p, k - 1)
BY RingInts DEF Behind, Before

-----------------------------------------------------------------------------
(* The chip's arithmetic, which takes remainders.                          *)

LEMMA RemainderUnique ==
    ASSUME NEW q \in Int, NEW n \in Nat, n > 0, NEW r \in 0 .. n - 1
    PROVE  (n * q + r) % n = r
OBVIOUS

LEMMA NearRemainder ==
    ASSUME NEW n \in Nat, n > 0, NEW x \in Int
    PROVE  /\ 0 <= x /\ x < n => x % n = x
           /\ n <= x /\ x < 2 * n => x % n = x - n
           /\ -n <= x /\ x < 0 => x % n = x + n
<1>1. CASE 0 <= x /\ x < n
  <2>1. x \in 0 .. n - 1 /\ x = n * 0 + x
    BY <1>1
  <2>2. QED BY <1>1, <2>1, RemainderUnique
<1>2. CASE n <= x /\ x < 2 * n
  <2>1. x - n \in 0 .. n - 1 /\ x = n * 1 + (x - n)
    BY <1>2
  <2>2. QED BY <1>2, <2>1, RemainderUnique
<1>3. CASE -n <= x /\ x < 0
  <2>1. x + n \in 0 .. n - 1 /\ x = n * (-1) + (x + n)
    BY <1>3
  <2>2. QED BY <1>3, <2>1, RemainderUnique
<1>4. QED BY <1>1, <1>2, <1>3

LEMMA PosIsOffset ==
    ASSUME NEW c, Bounded(c), NEW p \in Ring
    PROVE  PosOf(c, p) = p - PStart /\ RingSize(c) = Size /\ Size \in Nat /\ Size > 0
<1>1. RingSize(c) = Size /\ c.pstart = PStart /\ Size \in Nat /\ Size > 0
  BY RingInts DEF Bounded, RingSize, Size
<1>2. p - PStart \in Int /\ 0 <= p - PStart /\ p - PStart < Size
  BY RingInts
<1>3. QED BY <1>1, <1>2, NearRemainder DEF PosOf

LEMMA PageAtIsBehind ==
    ASSUME NEW c, Bounded(c), NEW p \in Ring, NEW k \in 0 .. Size
    PROVE  PageAt(c, p, k) = Behind(p, k)
<1> DEFINE x == p - PStart + k
<1>1. /\ PageAt(c, p, k) = PStart + (x % Size)
      /\ Size \in Nat /\ Size > 0
  BY PosIsOffset DEF PageAt, Bounded
<1>2. x \in Int /\ 0 <= x /\ x < 2 * Size
  BY RingInts
<1> HIDE DEF x
<1>3. x % Size = IF x < Size THEN x ELSE x - Size
  BY <1>1, <1>2, NearRemainder
<1>4. Behind(p, k) = IF x < Size THEN p + k ELSE p + k - Size
  BY RingInts DEF Behind, x
<1>5. QED BY <1>1, <1>3, <1>4, RingInts DEF x

\* The pages that are free are those between CURR and BNRY.
LEMMA GapIsRest ==
    ASSUME NEW c, Bounded(c), c.bnry \in Ring, NEW k \in 1 .. Size, c.curr = Behind(c.bnry, k)
    PROVE  Gap(c) = Size - k
<1>1. c.curr \in Ring
  BY BehindTyped, RingInts
<1> DEFINE x == c.bnry - PStart - (c.curr - PStart)
<1>2. Gap(c) = x % Size /\ Size \in Nat /\ Size > 0
  BY <1>1, PosIsOffset DEF Gap
<1>3. x \in Int /\ (x = -k \/ x = Size - k)
  BY <1>1, RingInts DEF Behind
<1> HIDE DEF x
<1>4. QED BY <1>2, <1>3, NearRemainder

\* The part of a frame that Store writes on the page k pages behind the first.
LEMMA PartIsPlace ==
    ASSUME NEW c, Bounded(c), NEW p \in Ring, NEW k \in 0 .. Size - 1
    PROVE  (PosOf(c, Behind(p, k)) - PosOf(c, p)) % RingSize(c) = k
<1>1. Behind(p, k) \in Ring
  BY BehindTyped, RingInts
<1> DEFINE x == Behind(p, k) - PStart - (p - PStart)
<1>2. /\ (PosOf(c, Behind(p, k)) - PosOf(c, p)) % RingSize(c) = x % Size
      /\ Size \in Nat /\ Size > 0
  BY <1>1, PosIsOffset
<1>3. x \in Int /\ (x = k \/ x = k - Size)
  BY <1>1, RingInts DEF Behind
<1> HIDE DEF x
<1>4. QED BY <1>2, <1>3, NearRemainder

-----------------------------------------------------------------------------
(* The frames between the driver's boundary and CURR.                      *)

\* The token k pages behind the one of t in t's frame.
Follows(t, k) == [t EXCEPT !.part = t.part + k]

\* The page i behind s and all the pages of its frame behind it are in the queue
\* of n pages, and the frame's header says where the next one begins.
LiesWhole(ram, s, n, i) ==
    LET t == ram[Behind(s, i)]
        rest == t.pages - t.part
    IN  /\ 0 < rest /\ rest <= n + 1 - i
        /\ t.next = Behind(s, i + rest)
        /\ \A k \in 0 .. rest - 1 : ram[Behind(s, i + k)] = Follows(t, k)
Laid(ram, s, n) == \A i \in 1 .. n : LiesWhole(ram, s, n, i)

\* BNRY lags behind the driver's boundary s when writes of it were lost, and CURR
\* has not caught up with BNRY.
Queues(ram, s, bnry, curr, a, n) ==
    /\ a \in Nat /\ n \in Nat /\ a + 1 + n <= Size
    /\ s = Behind(bnry, a) /\ curr = Behind(s, n + 1)
    /\ Laid(ram, s, n)

LEMMA QueuesInRing ==
    ASSUME NEW ram, NEW s, NEW bnry \in Ring, NEW curr, NEW a, NEW n,
           Queues(ram, s, bnry, curr, a, n)
    PROVE  /\ s \in Ring /\ curr \in Ring
           /\ \A i \in 0 .. n + 1 : Behind(s, i) \in Ring
           /\ NextPage(s) = Behind(s, 1) /\ (NextPage(s) # curr <=> n > 0)
<1>1. a \in 0 .. Size /\ n + 1 \in 0 .. Size /\ n \in Nat
  BY RingInts DEF Queues
<1>2. s \in Ring
  BY <1>1, BehindTyped DEF Queues
<1>3. \A i \in 0 .. n + 1 : Behind(s, i) \in Ring
  BY <1>1, <1>2, BehindTyped, RingInts
<1>4. NextPage(s) = Behind(s, 1) /\ curr = Behind(s, n + 1)
  BY <1>2, NextIsBehind DEF Queues
<1>5. n > 0 => Behind(s, 1) # Behind(s, n + 1)
  <2>1. ASSUME n > 0 PROVE Behind(s, 1) # Behind(s, n + 1)
    <3> DEFINE one == 1
               m == n + 1
    <3>1. one \in 0 .. Size /\ m \in 0 .. Size /\ one < m /\ m - one < Size
      BY <1>1, <2>1, RingInts DEF Queues
    <3> HIDE DEF one, m
    <3>2. Behind(s, one) # Behind(s, m)
      BY <1>2, <3>1, BehindApart
    <3>3. QED BY <3>2 DEF one, m
  <2>2. QED BY <2>1
<1>6. n + 1 \in 0 .. n + 1
  BY <1>1
<1>7. QED BY <1>1, <1>2, <1>3, <1>4, <1>5, <1>6

\* The pages of the frame at the head, when its first page is there.
LEMMA HeadLies ==
    ASSUME NEW ram, NEW s, NEW bnry \in Ring, NEW curr, NEW a, NEW n,
           Queues(ram, s, bnry, curr, a, n), n > 0,
           NEW t, t = ram[Behind(s, 1)], t.part = 0, t.pages \in Nat
    PROVE  /\ 0 < t.pages /\ t.pages <= n /\ t.next = Behind(s, 1 + t.pages)
           /\ \A k \in 0 .. t.pages - 1 : ram[Behind(s, 1 + k)] = Follows(t, k)
<1>1. n \in Nat /\ 1 \in 1 .. n
  BY DEF Queues
<1>2. LiesWhole(ram, s, n, 1)
  BY <1>1 DEF Queues, Laid
<1>3. t.pages - t.part = t.pages
  OBVIOUS
<1>4. QED BY <1>1, <1>2, <1>3 DEF LiesWhole

\* The boundary moves m pages on.
LEMMA Dropped ==
    ASSUME NEW ram, NEW s, NEW bnry \in Ring, NEW curr, NEW a, NEW n,
           Queues(ram, s, bnry, curr, a, n), NEW m \in 0 .. n,
           NEW b, b \in {bnry, Behind(s, m)},
           \A i \in 1 .. n : ram[Behind(s, i)] \in Token
    PROVE  \E i, j \in Nat : Queues(ram, Behind(s, m), b, curr, i, j)
<1>1. /\ a \in Nat /\ n \in Nat /\ a + 1 + n <= Size /\ s = Behind(bnry, a)
      /\ curr = Behind(s, n + 1) /\ Laid(ram, s, n) /\ m \in Nat /\ m <= n /\ Size \in Nat
  BY RingInts DEF Queues
<1>2. s \in Ring
  BY QueuesInRing
<1> DEFINE z == Behind(s, m)
<1>3. z \in Ring /\ \A i \in 0 .. n + 1 - m : Behind(z, i) = Behind(s, m + i)
  <2>1. z \in Ring
    BY <1>1, QueuesInRing
  <2>2. ASSUME NEW i \in 0 .. n + 1 - m PROVE Behind(z, i) = Behind(s, m + i)
    <3>1. i \in Nat /\ m + i <= Size
      BY <1>1
    <3>2. QED BY <1>1, <1>2, <3>1, BehindBehind
  <2>3. QED BY <2>1, <2>2
<1>4. curr = Behind(z, n - m + 1)
  <2> DEFINE i == n - m + 1
  <2>1. i \in 0 .. n + 1 - m /\ m + i = n + 1
    BY <1>1
  <2> HIDE DEF i, z
  <2>2. Behind(z, i) = Behind(s, n + 1)
    BY <1>3, <2>1
  <2>3. QED BY <1>1, <2>2 DEF i
<1> HIDE DEF z
<1>5. Laid(ram, z, n - m)
  <2> SUFFICES ASSUME NEW i \in 1 .. n - m PROVE LiesWhole(ram, z, n - m, i)
    BY DEF Laid
  <2> DEFINE j == m + i
             t == ram[Behind(s, j)]
             rest == t.pages - t.part
  <2>1. i \in Int /\ j \in 1 .. n /\ i \in 0 .. n + 1 - m /\ j = m + i
    BY <1>1
  <2> HIDE DEF j
  <2>2. LiesWhole(ram, s, n, j)
    BY <1>1, <2>1 DEF Laid
  <2>3. rest \in Int
    <3>1. t \in Token
      BY <2>1
    <3>2. t \in Header
      BY <3>1, RegTyped
    <3>3. t.pages \in Int /\ t.part \in Int
      BY <3>2 DEF Header, Byte
    <3>4. QED BY <3>3
  <2>4. /\ 0 < rest /\ rest <= n + 1 - j /\ t.next = Behind(s, j + rest)
        /\ \A k \in 0 .. rest - 1 : ram[Behind(s, j + k)] = Follows(t, k)
    BY <2>2 DEF LiesWhole
  <2>5. t = ram[Behind(z, i)]
    BY <1>3, <2>1
  <2> HIDE DEF t, rest
  <2>6. t.next = Behind(z, i + rest)
    <3>1. i + rest \in 0 .. n + 1 - m /\ m + (i + rest) = j + rest
      BY <1>1, <2>1, <2>3, <2>4
    <3>2. QED BY <1>3, <2>4, <3>1
  <2>7. ASSUME NEW k \in 0 .. rest - 1 PROVE ram[Behind(z, i + k)] = Follows(t, k)
    <3>1. i + k \in 0 .. n + 1 - m /\ m + (i + k) = j + k
      BY <1>1, <2>1, <2>3, <2>4
    <3>2. Behind(z, i + k) = Behind(s, j + k)
      BY <1>3, <3>1
    <3>3. QED BY <2>4, <3>2
  <2>8. rest <= n - m + 1 - i
    BY <1>1, <2>1, <2>3, <2>4
  <2>9. QED BY <2>4, <2>5, <2>6, <2>7, <2>8 DEF LiesWhole, t, rest
<1>6. CASE b = bnry
  <2>1. z = Behind(bnry, a + m)
    BY <1>1, BehindBehind DEF z
  <2>2. Queues(ram, z, b, curr, a + m, n - m) /\ a + m \in Nat /\ n - m \in Nat
    BY <1>1, <1>4, <1>5, <1>6, <2>1 DEF Queues
  <2>3. QED BY <2>2 DEF z
<1>7. CASE b = z
  <2>1. z = Behind(z, 0)
    BY <1>1, <1>3, BehindTyped
  <2>2. Queues(ram, z, b, curr, 0, n - m) /\ 0 \in Nat /\ n - m \in Nat
    BY <1>1, <1>4, <1>5, <1>7, <2>1 DEF Queues
  <2>3. QED BY <2>2 DEF z
<1>8. QED BY <1>6, <1>7 DEF z

\* On the pages behind the first n lies a frame.
Written(ram, s, n, id, next, pages) ==
    \A k \in 0 .. pages - 1 :
        ram[Behind(s, n + 1 + k)] = [frame |-> id, part |-> k, next |-> next, pages |-> pages]

\* A frame is stored behind the others.
LEMMA Stores ==
    ASSUME NEW c \in Chip, Bounded(c), c.bnry \in Ring, NEW s, NEW a, NEW n,
           Queues(c.ram, s, c.bnry, c.curr, a, n),
           NEW pages \in Byte \ {0}, Fits(c, pages), NEW id,
           NEW d, d = Store(c, id, pages)
    PROVE  /\ Queues(d.ram, s, c.bnry, d.curr, a, n + pages)
           /\ \A i \in 1 .. n : d.ram[Behind(s, i)] = c.ram[Behind(s, i)]
           /\ Written(d.ram, s, n, id, d.curr, pages)
<1>1. /\ a \in Nat /\ n \in Nat /\ a + 1 + n <= Size /\ s = Behind(c.bnry, a)
      /\ c.curr = Behind(s, n + 1) /\ Laid(c.ram, s, n) /\ Size \in Nat
      /\ pages \in Nat /\ pages > 0
  BY RingInts DEF Queues, Byte
<1>2. s \in Ring /\ c.curr \in Ring
  BY QueuesInRing
<1>3. a + 1 + n + pages <= Size
  <2> DEFINE k == a + 1 + n
  <2>1. k \in 1 .. Size /\ c.curr = Behind(c.bnry, k)
    <3>1. n + 1 \in Nat /\ a + (n + 1) <= Size /\ a + (n + 1) = k
      BY <1>1
    <3>2. QED BY <1>1, <3>1, BehindBehind
  <2> HIDE DEF k
  <2>2. Gap(c) = Size - k
    BY <2>1, GapIsRest
  <2>3. pages <= Size - k
    BY <2>2 DEF Fits
  <2>4. QED BY <1>1, <2>1, <2>3 DEF k
<1> DEFINE place(k) == Behind(s, n + 1 + k)
           next == Behind(s, n + 1 + pages)
           tok(k) == [frame |-> id, part |-> k, next |-> next, pages |-> pages]
           written == {PageAt(c, c.curr, k) : k \in 0 .. pages - 1}
<1>4. \A k \in 0 .. pages : PageAt(c, c.curr, k) = place(k) /\ Behind(c.curr, k) = place(k)
  <2> SUFFICES ASSUME NEW k \in 0 .. pages
               PROVE  PageAt(c, c.curr, k) = place(k) /\ Behind(c.curr, k) = place(k)
    OBVIOUS
  <2>1. k \in 0 .. Size /\ k \in Nat /\ n + 1 \in Nat /\ n + 1 + k <= Size
    BY <1>1, <1>3
  <2>2. PageAt(c, c.curr, k) = Behind(c.curr, k)
    BY <1>2, <2>1, PageAtIsBehind
  <2>3. QED BY <1>1, <1>2, <2>1, <2>2, BehindBehind
<1>5. \A k \in 0 .. pages : place(k) \in Ring
  <2> SUFFICES ASSUME NEW k \in 0 .. pages PROVE place(k) \in Ring
    OBVIOUS
  <2>1. n + 1 + k \in 0 .. Size
    BY <1>1, <1>3
  <2>2. QED BY <1>2, <2>1, BehindTyped
<1>6. /\ d.curr = next
      /\ \A p \in Ring : d.ram[p] =
            IF p \in written
            THEN [frame |-> id, part |-> (PosOf(c, p) - PosOf(c, c.curr)) % RingSize(c),
                  next |-> next, pages |-> pages]
            ELSE c.ram[p]
  <2>1. pages \in 0 .. pages
    BY <1>1
  <2>2. PageAt(c, c.curr, pages) = next
    BY <1>4, <2>1
  <2>3. QED BY <2>2 DEF Store, Chip
<1>7. \A k \in 0 .. pages - 1 : d.ram[place(k)] = tok(k)
  <2> SUFFICES ASSUME NEW k \in 0 .. pages - 1 PROVE d.ram[place(k)] = tok(k)
    OBVIOUS
  <2>1. k \in 0 .. pages /\ k \in 0 .. Size - 1
    BY <1>1, <1>3
  <2>2. place(k) \in Ring /\ place(k) \in written
    BY <1>4, <1>5, <2>1
  <2>3. place(k) = Behind(c.curr, k)
    BY <1>4, <2>1
  <2>4. (PosOf(c, place(k)) - PosOf(c, c.curr)) % RingSize(c) = k
    BY <1>2, <2>1, <2>3, PartIsPlace
  <2> HIDE DEF place, next, written
  <2>5. QED BY <1>6, <2>2, <2>4
<1>8. ASSUME NEW i \in 1 .. n
      PROVE  Behind(s, i) \in Ring /\ d.ram[Behind(s, i)] = c.ram[Behind(s, i)]
  <2>1. i \in 0 .. Size /\ i \in 0 .. n + 1
    BY <1>1
  <2>2. Behind(s, i) \in Ring
    BY <1>2, <2>1, BehindTyped
  <2>3. ASSUME NEW k \in 0 .. pages - 1 PROVE Behind(s, i) # place(k)
    <3> DEFINE j == n + 1 + k
    <3>1. j \in 0 .. Size /\ i < j /\ j - i < Size
      BY <1>1, <1>3
    <3> HIDE DEF j
    <3>2. Behind(s, i) # Behind(s, j)
      BY <1>2, <2>1, <3>1, BehindApart
    <3>3. QED BY <3>2 DEF j
  <2>4. \A k \in 0 .. pages - 1 : k \in 0 .. pages
    BY <1>1
  <2>5. Behind(s, i) \notin written
    BY <1>4, <2>3, <2>4
  <2> HIDE DEF written
  <2>6. QED BY <1>6, <2>2, <2>5
<1> HIDE DEF written
<1>9. Laid(d.ram, s, n + pages)
  <2> SUFFICES ASSUME NEW i \in 1 .. n + pages PROVE LiesWhole(d.ram, s, n + pages, i)
    BY DEF Laid
  <2>1. CASE i <= n
    <3> DEFINE t == c.ram[Behind(s, i)]
               rest == t.pages - t.part
    <3>1. i \in 1 .. n /\ i \in Nat
      BY <1>1, <2>1
    <3>2. LiesWhole(c.ram, s, n, i) /\ d.ram[Behind(s, i)] = t
      BY <1>1, <1>8, <3>1 DEF Laid
    <3>3. /\ 0 < rest /\ rest <= n + 1 - i /\ t.next = Behind(s, i + rest)
          /\ \A k \in 0 .. rest - 1 : c.ram[Behind(s, i + k)] = Follows(t, k)
      BY <3>2 DEF LiesWhole
    <3>4. rest \in Int
      <4>1. t \in Token
        BY <1>8, <3>1 DEF Chip
      <4>2. t \in Header
        BY <4>1, RegTyped
      <4>3. t.pages \in Int /\ t.part \in Int
        BY <4>2 DEF Header, Byte
      <4>4. QED BY <4>3
    <3> HIDE DEF t, rest
    <3>5. ASSUME NEW k \in 0 .. rest - 1 PROVE d.ram[Behind(s, i + k)] = Follows(t, k)
      <4>1. i + k \in 1 .. n
        BY <1>1, <3>1, <3>3, <3>4
      <4>2. QED BY <1>8, <3>3, <4>1
    <3>6. rest <= n + pages + 1 - i
      BY <1>1, <3>1, <3>3, <3>4
    <3>7. QED BY <3>2, <3>3, <3>5, <3>6 DEF LiesWhole, t, rest
  <2>2. CASE i > n
    <3> DEFINE k == i - n - 1
    <3>1. k \in 0 .. pages - 1 /\ i = n + 1 + k /\ k \in Nat
      BY <1>1, <2>2
    <3> HIDE DEF k
    <3>2. d.ram[Behind(s, i)] = tok(k)
      BY <1>7, <3>1
    <3>3. i + (pages - k) = n + 1 + pages /\ pages - k > 0 /\ pages - k <= n + pages + 1 - i
      BY <1>1, <3>1
    <3>4. ASSUME NEW j \in 0 .. pages - k - 1
          PROVE  d.ram[Behind(s, i + j)] = Follows(tok(k), j)
      <4>1. k + j \in 0 .. pages - 1 /\ n + 1 + (k + j) = i + j
        BY <1>1, <3>1
      <4>2. d.ram[Behind(s, i + j)] = tok(k + j)
        BY <1>7, <4>1
      <4>3. tok(k + j) = Follows(tok(k), j)
        BY DEF Follows
      <4>4. QED BY <4>2, <4>3
    <3>5. /\ tok(k).pages - tok(k).part = pages - k
          /\ tok(k).next = Behind(s, i + (pages - k))
      BY <3>3
    <3> HIDE DEF tok
    <3>6. QED BY <3>2, <3>3, <3>4, <3>5 DEF LiesWhole
  <2>3. i \in Int /\ n \in Int
    BY <1>1
  <2>4. QED BY <2>1, <2>2, <2>3
<1>10. n + pages \in Nat /\ n + 1 + pages = n + pages + 1 /\ a + 1 + (n + pages) <= Size
  BY <1>1, <1>3
<1>11. Written(d.ram, s, n, id, d.curr, pages)
  BY <1>6, <1>7 DEF Written
<1>12. QED BY <1>1, <1>6, <1>8, <1>9, <1>10, <1>11 DEF Queues

-----------------------------------------------------------------------------
(* The invariant.                                                          *)

Asking == {"select", "curr1", "curr2", "page0", "decide"}
Reading == {"packet", "header", "bad", "body", "rest", "done"}

First == NextPage(shadow)
Waiting == First # chip.curr
RingInv == \E a, n \in Nat : Queues(chip.ram, shadow, chip.bnry, chip.curr, a, n)

\* A value of CURR that is taken for news of a frame, and there is one.
TrueCurr(c) == c \in Ring /\ c # First => Waiting

\* A first read of CURR that is not to be believed was a fault, and of a kind
\* that the second read cannot repeat: page 1 and with it the value on the data
\* lines were confirmed by SELECT_PAGE.
CurrInv ==
    /\ pc \in Asking => reg.b = First
    /\ pc = "select" /\ reg.after = "curr1" => ~reg.flipped
    /\ pc = "curr1" => ~reg.flipped /\ Page(chip) = 1 /\ chip.bus = Page1Start
    /\ pc = "curr2" =>
          /\ Page(chip) = 1
          /\ ~TrueCurr(reg.c) =>
                faults > 0 /\ (reg.flipped \/ (reg.c = Page1Start /\ "read" \in Faulty))
    /\ pc \in {"page0", "decide"} \/ (pc = "select" /\ reg.after = "decide") => TrueCurr(reg.c)
    /\ Page(chip) = 1 => chip.cr = Page1Start

\* The first pages of the frame that begins with hdr.
Cut(body, hdr) == \A k \in DOMAIN body : body[k] = Follows(hdr, k - 1)
AtHead(hdr) == Waiting /\ hdr = chip.ram[First] /\ hdr.part = 0

HeadInv ==
    /\ pc \in Reading => Waiting
    /\ pc \in Reading \ {"packet"} => reg.b = First
    /\ pc \in {"body", "rest", "done"} \/ (pc = "bad" /\ NextValid(reg.hdr)) => AtHead(reg.hdr)
    /\ pc \in {"rest", "done"} => Cut(reg.body, reg.hdr)
    /\ pc = "rest" => Len(reg.body) = PStop - reg.b
    /\ pc = "done" => Len(reg.body) = reg.hdr.pages
    /\ held # <<>> => AtHead(held[1]) /\ Cut(held, held[1]) /\ Len(held) = held[1].pages

QueueInv == RingInv /\ CurrInv /\ HeadInv

\* The two reads of a poll give the same wrong page of the ring only when the
\* card may sit out a cycle after a misdirected one, when CR's value, which is
\* on the data lines, is a page of the ring, or when it took three faults.
NoFalseCurr ==
    \/ MaxFaults <= 1
    \/ /\ "repeat" \notin Faulty
       /\ "read" \notin Faulty \/ (MaxFaults <= 2 /\ Page1Start \notin Ring)

\* What reads back where no header lies names no page of the ring.
PoisonOutside == Poison.next \notin Ring

LEMMA WaitingFacts ==
    ASSUME NEW a, NEW n, chip.bnry \in Ring,
           Queues(chip.ram, shadow, chip.bnry, chip.curr, a, n)
    PROVE  /\ shadow \in Ring /\ First \in Ring /\ First = Behind(shadow, 1)
           /\ (Waiting <=> n > 0) /\ n \in Nat
BY QueuesInRing DEF First, Waiting, Queues

LEMMA RingTokens ==
    ASSUME IInv, PageInv, NEW a, NEW n, Queues(chip.ram, shadow, chip.bnry, chip.curr, a, n)
    PROVE  \A i \in 1 .. n : chip.ram[Behind(shadow, i)] \in Token
<1>1. chip.bnry \in Ring /\ chip \in Chip
  BY DEF IInv, ChipInv, PageInv
<1>2. n \in Nat
  BY DEF Queues
<1>3. ASSUME NEW i \in 1 .. n PROVE Behind(shadow, i) \in Ring
  <2>1. i \in 0 .. n + 1
    BY <1>2
  <2>2. QED BY <1>1, <2>1, QueuesInRing
<1>4. QED BY <1>1, <1>3 DEF Chip

\* The boundary moves m pages on, or stays.
LEMMA BoundaryMoves ==
    ASSUME IInv, PageInv, NEW a, NEW n, Queues(chip.ram, shadow, chip.bnry, chip.curr, a, n),
           NEW m \in 0 .. n, shadow' = Behind(shadow, m), chip'.ram = chip.ram,
           Moved(chip, chip', shadow')
    PROVE  RingInv'
<1>1. chip.bnry \in Ring
  BY DEF PageInv
<1>2. chip'.curr = chip.curr /\ chip'.bnry \in {chip.bnry, Behind(shadow, m)}
  BY DEF Moved
<1>3. \A i \in 1 .. n : chip.ram[Behind(shadow, i)] \in Token
  BY RingTokens
<1> DEFINE b == chip'.bnry
           ram == chip.ram
           bnry == chip.bnry
           curr == chip.curr
<1>4. b \in {bnry, Behind(shadow, m)}
  BY <1>2
<1>5. Queues(ram, shadow, bnry, curr, a, n) /\ bnry \in Ring
  BY <1>1
<1> HIDE DEF b, ram, bnry, curr
<1>6. \E i, j \in Nat : Queues(ram, Behind(shadow, m), b, curr, i, j)
  <2>1. \A i \in 1 .. n : ram[Behind(shadow, i)] \in Token
    BY <1>3 DEF ram
  <2>2. QED BY <1>4, <1>5, <2>1, Dropped
<1>7. QED BY <1>2, <1>6 DEF RingInv, b, ram, bnry, curr

\* A step that leaves the boundary and the frames.
LEMMA RingStays ==
    ASSUME IInv, PageInv, RingInv, chip'.ram = chip.ram, shadow' = shadow,
           Moved(chip, chip', shadow)
    PROVE  /\ RingInv' /\ First' = First /\ (Waiting' <=> Waiting)
           /\ \A c : TrueCurr(c)' <=> TrueCurr(c)
           /\ \A hdr : AtHead(hdr)' <=> AtHead(hdr)
<1>1. PICK a \in Nat, n \in Nat : Queues(chip.ram, shadow, chip.bnry, chip.curr, a, n)
  BY DEF RingInv
<1>2. chip.bnry \in Ring /\ n \in Nat
  BY DEF PageInv
<1>3. shadow' = Behind(shadow, 0)
  BY <1>1, <1>2, QueuesInRing, BehindTyped, RingInts
<1>4. RingInv'
  <2> DEFINE m == 0
  <2>1. m \in 0 .. n /\ shadow' = Behind(shadow, m)
    BY <1>2, <1>3
  <2> HIDE DEF m
  <2>2. QED BY <1>1, <2>1, BoundaryMoves
<1>5. First' = First /\ (Waiting' <=> Waiting)
  BY DEF First, Waiting, NextPage, Moved
<1>6. QED BY <1>4, <1>5 DEF TrueCurr, AtHead

\* A step to a label at which nothing is known of the frames but what is held.
LEMMA RestingKeeps ==
    ASSUME IInv, PageInv, QueueInv, chip'.ram = chip.ram, shadow' = shadow,
           Moved(chip, chip', shadow), Page(chip') = 1 => chip'.cr = Page1Start,
           held' \in {held, <<>>}, pc' \notin Asking \cup Reading
    PROVE  QueueInv'
<1>1. /\ RingInv' /\ First' = First /\ \A hdr : AtHead(hdr)' <=> AtHead(hdr)
  BY RingStays DEF QueueInv
<1>2. CurrInv'
  BY DEF CurrInv, Asking, Page
<1>3. HeadInv'
  BY <1>1 DEF QueueInv, HeadInv, Reading
<1>4. QED BY <1>1, <1>2, <1>3 DEF QueueInv

LEMMA InitQueue ==
    ASSUME Init
    PROVE  QueueInv
<1>1. PICK tpsr \in {0, TxPage} : chip = InitNormal(tpsr)
  BY DEF Init
<1>2. chip.bnry = PStart /\ chip.curr = PStart + 1 /\ Page(chip) = 0
  BY <1>1, InitBoots
<1>3. shadow = PStart /\ pc = "idle" /\ held = <<>>
  BY DEF Init
<1>4. PStart \in Ring /\ Behind(PStart, 0) = PStart /\ Behind(PStart, 1) = PStart + 1
  BY RingInts DEF Behind
<1>5. Queues(chip.ram, shadow, chip.bnry, chip.curr, 0, 0)
  BY <1>2, <1>3, <1>4, RingInts DEF Queues, Laid
<1>6. RingInv
  BY <1>5 DEF RingInv
<1>7. CurrInv
  BY <1>2, <1>3 DEF CurrInv, Asking
<1>8. HeadInv
  BY <1>3 DEF HeadInv, Reading
<1>9. QED BY <1>6, <1>7, <1>8 DEF QueueInv

LEMMA ArriveQueue ==
    ASSUME IInv, PageInv, QueueInv, NEW dest, NEW pages \in Sizes, Arrive(dest, pages)
    PROVE  QueueInv'
<1>1. /\ UNCHANGED <<shadow, pc, reg, held, faults>> /\ First' = First
      /\ pages \in Byte \ {0}
  BY NicAssumption, RingAssumption DEF Arrive, First, NextPage, Byte
<1>2. PICK a \in Nat, n \in Nat : Queues(chip.ram, shadow, chip.bnry, chip.curr, a, n)
  BY DEF QueueInv, RingInv
<1>3. chip.bnry \in Ring /\ chip \in Chip /\ Bounded(chip) /\ n \in Nat
  BY DEF PageInv, IInv, ChipInv
<1>4. /\ RingInv' /\ chip'.cr = chip.cr /\ chip'.bus = chip.bus
      /\ Waiting => Waiting' /\ chip'.ram[First] = chip.ram[First]
  <2>1. CASE Fits(chip, pages)
    <3> DEFINE id == arrived + 1
               d == Store(chip, id, pages)
               more == n + pages
    <3>1. chip' = d
      BY <2>1 DEF Arrive
    <3>2. /\ Queues(d.ram, shadow, chip.bnry, d.curr, a, more)
          /\ \A i \in 1 .. n : d.ram[Behind(shadow, i)] = chip.ram[Behind(shadow, i)]
      <4> HIDE DEF id
      <4>1. QED BY <1>1, <1>2, <1>3, <2>1, Stores
    <3>3. d.bnry = chip.bnry /\ d.cr = chip.cr /\ d.bus = chip.bus
      BY <1>3 DEF Store, Chip
    <3> HIDE DEF d, more
    <3>4. /\ Queues(chip'.ram, shadow', chip'.bnry, chip'.curr, a, more) /\ more \in Nat
          /\ chip'.bnry \in Ring
      BY <1>1, <1>3, <3>1, <3>2, <3>3 DEF Queues
    <3>5. RingInv'
      BY <1>2, <3>4 DEF RingInv
    <3>6. /\ First = Behind(shadow, 1) /\ (Waiting <=> n > 0)
      BY <1>2, <1>3, WaitingFacts
    <3>7. NextPage(shadow') # chip'.curr <=> more > 0
      BY <3>4, QueuesInRing
    <3>8. Waiting' <=> more > 0
      BY <3>7 DEF Waiting, First
    <3>9. n > 0 => more > 0
      BY <1>1, <1>3 DEF more, Byte
    <3>10. n > 0 => chip'.ram[First] = chip.ram[First]
      <4>1. n > 0 => 1 \in 1 .. n
        BY <1>3
      <4>2. QED BY <3>1, <3>2, <3>6, <4>1
    <3>11. QED BY <3>1, <3>3, <3>5, <3>6, <3>8, <3>9, <3>10
  <2>2. CASE ~Fits(chip, pages)
    <3>1. chip' = Halt(chip)
      BY <2>2 DEF Arrive
    <3>2. Keeps(chip, chip') /\ Aligned(chip, chip') /\ chip'.cr = chip.cr
      BY <1>3, <3>1, HaltTyped
    <3>3. chip'.bus = chip.bus
      BY <1>3, <3>1 DEF Halt, Chip
    <3>4. Moved(chip, chip', shadow) /\ chip'.ram = chip.ram
      BY <3>2 DEF Aligned, Moved, Keeps, SameStore
    <3>5. RingInv' /\ (Waiting' <=> Waiting)
      BY <1>1, <3>4, RingStays DEF QueueInv
    <3>6. QED BY <3>2, <3>3, <3>4, <3>5
  <2>3. QED BY <2>1, <2>2
<1>5. \A c : TrueCurr(c) => TrueCurr(c)'
  BY <1>1, <1>4 DEF TrueCurr
<1>6. \A hdr : AtHead(hdr) => AtHead(hdr)'
  BY <1>1, <1>4 DEF AtHead
<1>7. CurrInv'
  BY <1>1, <1>4, <1>5 DEF QueueInv, CurrInv, Page
<1>8. HeadInv'
  BY <1>1, <1>4, <1>6 DEF QueueInv, HeadInv
<1>9. QED BY <1>4, <1>7, <1>8 DEF QueueInv

-----------------------------------------------------------------------------
(* A poll.                                                                 *)

LEMMA PollQueue ==
    ASSUME IInv, PageInv, QueueInv, Poll
    PROVE  QueueInv'
<1>1. /\ pc' = "select" /\ held' = <<>> /\ UNCHANGED <<chip, shadow>>
      /\ reg'.b = First /\ reg'.after = "curr1" /\ ~reg'.flipped
  BY DEF Poll, NoReg, First
<1>2. Moved(chip, chip', shadow) /\ chip'.ram = chip.ram
  BY <1>1 DEF Moved
<1>3. RingInv' /\ First' = First
  BY <1>1, <1>2, RingStays DEF QueueInv
<1>4. CurrInv'
  BY <1>1, <1>3 DEF QueueInv, CurrInv, Page
<1>5. HeadInv'
  BY <1>1 DEF HeadInv, Reading
<1>6. QED BY <1>3, <1>4, <1>5 DEF QueueInv

\* Page 1 is what a confirmed SELECT_PAGE of it has selected, and CR's value is
\* then on the data lines.
LEMMA SelectConfirms ==
    ASSUME NoFalseCurr, IInv, PageInv, CurrInv,
           NEW lost \in BOOLEAN, NEW missed \in [1 .. 4 -> BOOLEAN], SelectTry(lost, missed)
    PROVE  /\ Page(chip') = 1 => chip'.cr = Page1Start
           /\ pc' = "curr1" => Page(chip') = 1 /\ chip'.bus = Page1Start
<1> DEFINE written == IF lost THEN LostWrite(chip, reg.want) ELSE WriteReg(chip, CR, reg.want)
<1>1. /\ chip \in Chip /\ reg.want \in {Page0Start, Page1Start} /\ reg.want \in Byte
      /\ reg \in Reg /\ reg.tries \in Nat /\ reg.tries > 0
      /\ \/ reg.want = Page0Start /\ reg.after = "decide"
         \/ reg.want = Page1Start /\ reg.after = "curr1"
      /\ faults \in Nat /\ MaxFaults \in Nat /\ chip.par = Mac
      /\ Page(chip) = 1 => chip.cr = Page1Start
  <2>1. chip \in Chip /\ reg \in Reg /\ faults \in 0 .. MaxFaults /\ MaxFaults \in Nat
    BY NicAssumption DEF IInv, ChipInv, TypeInv
  <2>2. /\ reg.tries > 0
        /\ \/ reg.want = Page0Start /\ reg.after = "decide"
           \/ reg.want = Page1Start /\ reg.after = "curr1"
    BY DEF IInv, CallInv, SelectTry
  <2>3. Page0Start \in Byte /\ Page1Start \in Byte
    BY DEF Page0Start, Page1Start, Byte
  <2>4. QED BY <2>1, <2>2, <2>3 DEF Reg, PageInv, CurrInv
<1>2. /\ written \in Chip /\ written.par = Mac
      /\ IF lost THEN written.cr = chip.cr ELSE written.cr = reg.want
  <2>1. CASE lost
    BY <1>1, <2>1, LostKeeps DEF OnlyBus, SameOne, SameRun
  <2>2. CASE ~lost
    BY <1>1, <2>2, CommandKeeps DEF Keeps, Aligned, Moved
  <2>3. QED BY <2>1, <2>2
<1>3. /\ chip' = AfterChecks(written, reg.want, missed)
      /\ faults' = faults + Count(missed) + (IF lost THEN 1 ELSE 0) /\ faults' <= MaxFaults
      /\ Count(missed) > 0 => "read" \in Faulty
  BY DEF SelectTry
<1>4. ~Confirms(written, reg.want, missed) => pc' # "curr1"
  <2>1. SUFFICES ASSUME ~Confirms(written, reg.want, missed) PROVE pc' # "curr1"
    OBVIOUS
  <2>2. CASE reg.tries > 1
    <3>1. reg.tries # 1
      BY <2>2
    <3>2. QED BY <2>1, <2>2, <3>1 DEF SelectTry, Goto
  <2>3. CASE reg.tries = 1 /\ reg.after = "curr1"
    BY <2>1, <2>3 DEF SelectTry, Goto
  <2>4. CASE reg.tries = 1 /\ reg.after = "decide"
    BY <2>1, <2>4 DEF SelectTry, Return
  <2>5. QED BY <1>1, <2>2, <2>3, <2>4
<1>5. Confirms(written, reg.want, missed) => pc' = reg.after
  BY DEF SelectTry, Goto
<1> HIDE DEF written
<1>6. OnlyBus(written, chip')
  BY <1>2, <1>3, ChecksTyped
<1>7. chip'.cr = written.cr
  BY <1>6 DEF OnlyBus, SameRun
<1>8. Page(chip') = 1 => chip'.cr = Page1Start
  BY <1>1, <1>2, <1>7 DEF Page, Page0Start, Page1Start
<1>9. ASSUME pc' = "curr1" PROVE Page(chip') = 1 /\ chip'.bus = Page1Start
  <2>1. Confirms(written, Page1Start, missed) /\ reg.want = Page1Start
    BY <1>1, <1>4, <1>5, <1>9
  <2>2. /\ Count(missed) \in Nat /\ (missed[2] /\ missed[4] => Count(missed) >= 2)
        /\ missed[2] /\ missed[3] /\ missed[4] => Count(missed) >= 3
    BY CountTyped
  <2>3. ~(Count(missed) >= 3) /\ ~(lost /\ Count(missed) >= 2)
    BY <1>1, <1>3, <2>2 DEF NoFalseCurr
  <2>4. Page(written) = 1 => written.cr = Page1Start
    BY <1>1, <1>2 DEF Page, Page0Start, Page1Start
  <2>5. ~lost => Page(written) = 1
    BY <1>2, <2>1 DEF Page, Page1Start
  <2>6. /\ Page(written) # 1 => missed[2] /\ missed[4]
        /\ Page(written) = 1 /\ chip'.bus # Page1Start => missed[2] /\ missed[3] /\ missed[4]
    BY <1>2, <1>3, <2>1, <2>4, RightConfirmation
  <2>7. Page(written) = 1 /\ chip'.bus = Page1Start
    BY <2>2, <2>3, <2>5, <2>6
  <2>8. QED BY <1>7, <2>7 DEF Page
<1>10. QED BY <1>8, <1>9

LEMMA SelectQueue ==
    ASSUME NoFalseCurr, IInv, PageInv, QueueInv,
           NEW lost \in BOOLEAN, NEW missed \in [1 .. 4 -> BOOLEAN], SelectTry(lost, missed)
    PROVE  QueueInv'
<1>1. /\ pc = "select" /\ UNCHANGED <<held, shadow>> /\ reg \in Reg
      /\ reg.after \in {"curr1", "decide"}
  BY DEF SelectTry, ringVars, IInv, TypeInv, CallInv
<1>2. /\ Page(chip') = 1 => chip'.cr = Page1Start
      /\ pc' = "curr1" => Page(chip') = 1 /\ chip'.bus = Page1Start
  BY SelectConfirms DEF QueueInv
<1>3. /\ Keeps(chip, chip') /\ Aligned(chip, chip')
      /\ \/ pc' = reg.after /\ reg' = [reg EXCEPT !.after = "none"]
         \/ pc' = "select" /\ reg.tries > 1 /\ reg' = [reg EXCEPT !.tries = reg.tries - 1]
         \/ pc' = "page0" /\ reg.after = "curr1" /\ reg' = [reg EXCEPT !.c = AllBits]
         \/ pc' = "idle" /\ reg.after = "decide" /\ reg.tries = 1 /\ reg' = NoReg
  BY SelectEffect
<1>4. chip'.ram = chip.ram /\ Moved(chip, chip', shadow)
  BY <1>3 DEF Keeps, SameStore, Aligned, Moved
<1>5. /\ RingInv' /\ First' = First /\ \A c : TrueCurr(c)' <=> TrueCurr(c)
      /\ \A hdr : AtHead(hdr)' <=> AtHead(hdr)
  BY <1>1, <1>4, RingStays DEF QueueInv
<1>6. HeadInv'
  BY <1>1, <1>3, <1>5 DEF QueueInv, HeadInv, Reading
<1>7. /\ reg.b = First /\ (reg.after = "curr1" => ~reg.flipped)
      /\ reg.after = "decide" => TrueCurr(reg.c)
  BY <1>1 DEF QueueInv, CurrInv, Asking
<1>8. TrueCurr(AllBits)
  BY RingAssumption DEF TrueCurr, AllBits, Ring
<1>9. CASE pc' = reg.after /\ reg' = [reg EXCEPT !.after = "none"]
  <2>1. reg'.b = reg.b /\ reg'.flipped = reg.flipped /\ reg'.c = reg.c
    BY <1>1, <1>9 DEF Reg
  <2>2. CurrInv'
    BY <1>1, <1>2, <1>5, <1>7, <1>9, <2>1 DEF CurrInv, Page
  <2>3. QED BY <1>5, <1>6, <2>2 DEF QueueInv
<1>10. CASE pc' = "select" /\ reg' = [reg EXCEPT !.tries = reg.tries - 1]
  <2>1. reg'.b = reg.b /\ reg'.flipped = reg.flipped /\ reg'.c = reg.c /\ reg'.after = reg.after
    BY <1>1, <1>10 DEF Reg
  <2>2. CurrInv'
    BY <1>1, <1>2, <1>5, <1>7, <1>10, <2>1 DEF CurrInv, Page
  <2>3. QED BY <1>5, <1>6, <2>2 DEF QueueInv
<1>11. CASE pc' = "page0" /\ reg' = [reg EXCEPT !.c = AllBits]
  <2>1. reg'.b = reg.b /\ reg'.c = AllBits
    BY <1>1, <1>11 DEF Reg
  <2>2. CurrInv'
    BY <1>1, <1>2, <1>5, <1>7, <1>8, <1>11, <2>1 DEF CurrInv, Page
  <2>3. QED BY <1>5, <1>6, <2>2 DEF QueueInv
<1>12. CASE pc' = "idle"
  BY <1>1, <1>2, <1>4, <1>12, RestingKeeps DEF Asking, Reading
<1>13. QED BY <1>3, <1>9, <1>10, <1>11, <1>12

\* The reads of CURR.
LEMMA CurrFirstQueue ==
    ASSUME IInv, PageInv, QueueInv, NEW missed \in BOOLEAN, NEW flipped \in BOOLEAN,
           CurrFirst(missed, flipped)
    PROVE  QueueInv'
<1> DEFINE v == IF flipped THEN OtherPage(chip.curr) ELSE ReadReg(chip, CURR, missed)
<1>1. /\ pc = "curr1" /\ pc' = "curr2" /\ UNCHANGED <<shadow, held>>
      /\ missed => ~flipped
      /\ May(IF missed THEN "read" ELSE "curr", missed \/ flipped)
  BY DEF CurrFirst, CurrRead, Goto, ringVars
<1>2. reg' = [reg EXCEPT !.flipped = reg.flipped \/ flipped, !.c = v]
  BY DEF CurrFirst, CurrRead
<1> HIDE DEF v
<1>3. reg \in Reg /\ chip \in Chip /\ faults \in Nat
  BY DEF IInv, ChipInv, TypeInv
<1>4. reg.b = First /\ ~reg.flipped /\ Page(chip) = 1 /\ chip.bus = Page1Start
  BY <1>1 DEF QueueInv, CurrInv, Asking
<1>5. reg'.b = reg.b /\ reg'.flipped = flipped /\ reg'.c = v
  BY <1>2, <1>3, <1>4 DEF Reg
<1>6. OnlyBus(chip, chip')
  BY CurrKeeps
<1>7. /\ Page(chip') = Page(chip) /\ chip'.cr = chip.cr /\ chip'.ram = chip.ram
      /\ Moved(chip, chip', shadow)
  BY <1>6, OnlyBusKeeps DEF Keeps, SameStore, Aligned, Moved, OnlyBus, SameRun
<1>8. RingInv' /\ First' = First /\ \A c : TrueCurr(c)' <=> TrueCurr(c)
  BY <1>1, <1>7, RingStays DEF QueueInv
<1>9. missed \/ flipped => faults' > 0 /\ (missed => "read" \in Faulty)
  BY <1>1, <1>3 DEF May
<1>10. ~TrueCurr(v) => faults' > 0 /\ (flipped \/ (v = Page1Start /\ "read" \in Faulty))
  <2>1. CASE flipped
    BY <1>9, <2>1
  <2>2. CASE missed /\ ~flipped
    <3>1. v = Page1Start
      BY <1>3, <1>4, <2>2, ReadTyped DEF v
    <3>2. QED BY <1>9, <2>2, <3>1
  <2>3. CASE ~missed /\ ~flipped
    <3>1. v = chip.curr
      BY <1>3, <1>4, <2>3, ReadTyped DEF v
    <3>2. QED BY <3>1 DEF TrueCurr, Waiting
  <2>4. QED BY <2>1, <2>2, <2>3
<1>11. CurrInv'
  <2>1. Page(chip)' = Page(chip')
    BY DEF Page
  <2>2. chip'.cr = Page1Start
    BY <1>4, <1>7 DEF QueueInv, CurrInv
  <2>3. QED BY <1>1, <1>4, <1>5, <1>7, <1>8, <1>10, <2>1, <2>2 DEF CurrInv
<1>12. HeadInv'
  <2>1. held' = <<>>
    BY <1>1 DEF PageInv, SentLabels
  <2>2. QED BY <1>1, <2>1 DEF HeadInv, Reading
<1>13. QED BY <1>8, <1>11, <1>12 DEF QueueInv

LEMMA CurrAgainQueue ==
    ASSUME NoFalseCurr, IInv, PageInv, QueueInv,
           NEW missed \in BOOLEAN, NEW flipped \in BOOLEAN, CurrAgain(missed, flipped)
    PROVE  QueueInv'
<1> DEFINE v == IF flipped THEN OtherPage(chip.curr) ELSE ReadReg(chip, CURR, missed)
           now == IF v = reg.c THEN v ELSE AllBits
<1>1. /\ pc = "curr2" /\ pc' = "page0" /\ UNCHANGED <<shadow, held>>
      /\ missed => ~flipped
      /\ reg.flipped => ~flipped /\ (missed => "repeat" \in Faulty)
      /\ May(IF missed THEN "read" ELSE "curr", missed \/ flipped)
  BY DEF CurrAgain, CurrRead, Goto, ringVars
<1>2. reg' = [reg EXCEPT !.flipped = reg.flipped \/ flipped, !.c = now]
  BY DEF CurrAgain, CurrRead
<1> HIDE DEF v, now
<1>3. reg \in Reg /\ chip \in Chip /\ faults \in Nat /\ MaxFaults \in Nat
  BY NicAssumption DEF IInv, ChipInv, TypeInv
<1>4. /\ reg.b = First /\ Page(chip) = 1
      /\ ~TrueCurr(reg.c) =>
            faults > 0 /\ (reg.flipped \/ (reg.c = Page1Start /\ "read" \in Faulty))
  BY <1>1 DEF QueueInv, CurrInv, Asking
<1>5. reg'.b = reg.b /\ reg'.c = now
  BY <1>2, <1>3 DEF Reg
<1>6. OnlyBus(chip, chip')
  BY CurrKeeps
<1>7. /\ Page(chip') = Page(chip) /\ chip'.cr = chip.cr /\ chip'.ram = chip.ram
      /\ Moved(chip, chip', shadow)
  BY <1>6, OnlyBusKeeps DEF Keeps, SameStore, Aligned, Moved, OnlyBus, SameRun
<1>8. RingInv' /\ First' = First /\ \A c : TrueCurr(c)' <=> TrueCurr(c)
  BY <1>1, <1>7, RingStays DEF QueueInv
<1>9. missed \/ flipped => faults < MaxFaults
  BY <1>1, <1>3 DEF May
<1>10. TrueCurr(now)
  <2>1. CASE v # reg.c
    <3>1. now = AllBits
      BY <2>1 DEF now
    <3>2. QED BY <3>1, RingAssumption DEF TrueCurr, AllBits, Ring
  <2>2. CASE v = reg.c
    <3>1. now = reg.c
      BY <2>2 DEF now
    <3>2. SUFFICES ASSUME ~TrueCurr(reg.c) PROVE FALSE
      BY <3>1
    <3>3. reg.c \in Ring /\ reg.c # First /\ First = chip.curr
      BY <3>2 DEF TrueCurr, Waiting
    <3>4. ~missed /\ ~flipped => FALSE
      <4>1. ~missed /\ ~flipped => v = chip.curr
        BY <1>3, <1>4, ReadTyped DEF v
      <4>2. QED BY <2>2, <3>3, <4>1
    <3>5. ~(MaxFaults <= 1)
      BY <1>3, <1>4, <1>9, <3>2, <3>4
    <3>6. ~reg.flipped => reg.c = Page1Start /\ "read" \in Faulty
      BY <1>4, <3>2
    <3>7. QED BY <1>1, <3>3, <3>4, <3>5, <3>6 DEF NoFalseCurr
  <2>3. QED BY <2>1, <2>2
<1>11. CurrInv'
  <2>1. Page(chip)' = Page(chip')
    BY DEF Page
  <2>2. chip'.cr = Page1Start
    BY <1>4, <1>7 DEF QueueInv, CurrInv
  <2>3. QED BY <1>1, <1>4, <1>5, <1>7, <1>8, <1>10, <2>1, <2>2 DEF CurrInv
<1>12. HeadInv'
  <2>1. held' = <<>>
    BY <1>1 DEF PageInv, SentLabels
  <2>2. QED BY <1>1, <2>1 DEF HeadInv, Reading
<1>13. QED BY <1>8, <1>11, <1>12 DEF QueueInv

LEMMA SelectPage0Queue ==
    ASSUME IInv, PageInv, QueueInv, SelectPage0
    PROVE  QueueInv'
<1>1. /\ pc = "page0" /\ pc' = "select" /\ UNCHANGED <<chip, shadow, held>>
      /\ reg \in Reg
  BY DEF SelectPage0, Call, ringVars, IInv, TypeInv
<1>2. reg'.after = "decide" /\ reg'.b = reg.b /\ reg'.c = reg.c
  BY <1>1 DEF SelectPage0, Call, Reg
<1>3. Moved(chip, chip', shadow) /\ chip'.ram = chip.ram
  BY <1>1 DEF Moved
<1>4. RingInv' /\ First' = First /\ \A c : TrueCurr(c)' <=> TrueCurr(c)
  BY <1>1, <1>3, RingStays DEF QueueInv
<1>5. reg.b = First /\ TrueCurr(reg.c)
  BY <1>1 DEF QueueInv, CurrInv, Asking
<1>6. CurrInv'
  BY <1>1, <1>2, <1>4, <1>5 DEF QueueInv, CurrInv, Page
<1>7. HeadInv'
  <2>1. held' = <<>>
    BY <1>1 DEF PageInv, SentLabels
  <2>2. QED BY <1>1, <2>1 DEF HeadInv, Reading
<1>8. QED BY <1>4, <1>6, <1>7 DEF QueueInv

LEMMA DecideQueue ==
    ASSUME IInv, PageInv, QueueInv, Decide
    PROVE  QueueInv'
<1>1. pc = "decide" /\ UNCHANGED <<chip, shadow, held>> /\ held = <<>>
  BY DEF Decide, ringVars, PageInv, SentLabels
<1>2. Moved(chip, chip', shadow) /\ chip'.ram = chip.ram
  BY <1>1 DEF Moved
<1>3. Page(chip') = 1 => chip'.cr = Page1Start
  BY <1>1 DEF QueueInv, CurrInv
<1>4. CASE reg.c \in Ring /\ reg.c # reg.b
  <2>1. pc' = "packet"
    BY <1>4 DEF Decide, Goto
  <2>2. Waiting
    BY <1>1, <1>4 DEF QueueInv, CurrInv, TrueCurr, Asking
  <2>3. RingInv' /\ First' = First /\ (Waiting' <=> Waiting)
    BY <1>1, <1>2, RingStays DEF QueueInv
  <2>4. CurrInv'
    BY <1>3, <2>1 DEF CurrInv, Asking, Page
  <2>5. HeadInv'
    BY <1>1, <2>1, <2>2, <2>3 DEF HeadInv
  <2>6. QED BY <2>3, <2>4, <2>5 DEF QueueInv
<1>5. CASE ~(reg.c \in Ring /\ reg.c # reg.b)
  <2>1. pc' \in {"idle", "isr1"}
    BY <1>5 DEF Decide, Return, Goto
  <2>2. QED BY <1>1, <1>2, <1>3, <2>1, RestingKeeps DEF Asking, Reading
<1>6. QED BY <1>4, <1>5

LEMMA IsrQueue ==
    ASSUME IInv, PageInv, QueueInv, NEW missed \in BOOLEAN, IsrFirst(missed) \/ IsrAgain(missed)
    PROVE  QueueInv'
<1>1. OnlyBus(chip, chip')
  BY IsrKeeps
<1>2. /\ chip'.cr = chip.cr /\ chip'.ram = chip.ram /\ Moved(chip, chip', shadow)
  BY <1>1 DEF OnlyBus, SameRun, SameStore, SameOne, SameZero, SameBounds, Moved
<1>3. /\ UNCHANGED <<shadow, held>> /\ pc' \in {"idle", "isr2", "monitor"}
  BY DEF IsrFirst, IsrAgain, IsrRead, Return, Goto, ringVars
<1>4. Page(chip') = 1 => chip'.cr = Page1Start
  BY <1>2 DEF QueueInv, CurrInv, Page
<1>5. QED BY <1>2, <1>3, <1>4, RestingKeeps DEF Asking, Reading

-----------------------------------------------------------------------------
(* The recovery.                                                           *)

LEMMA RecoveryQueue ==
    ASSUME IInv, PageInv, QueueInv, NEW lost \in BOOLEAN,
           MonitorMode \/ StopChip(lost) \/ RestartChip(lost)
    PROVE  QueueInv'
<1>1. /\ pc \in {"monitor", "stop", "restart"} /\ pc' \in {"stop", "restart", "idle"}
      /\ UNCHANGED <<shadow, held>>
  BY DEF MonitorMode, StopChip, RestartChip, Return, Goto, ringVars
<1>2. Page(chip) = 0
  <2>1. Page(chip) \in {0, 1}
    BY DEF IInv, ChipInv, Chip, Page
  <2>2. QED BY <1>1, <2>1 DEF PageInv, SentLabels
<1>3. chip'.ram = chip.ram /\ Moved(chip, chip', shadow) /\ Page(chip') = 0
  <2>1. CASE MonitorMode
    BY <1>2, <2>1, MonitorKeeps DEF Aligned, Moved, Page
  <2>2. CASE StopChip(lost)
    BY <1>2, <2>2, StopKeeps DEF Aligned, Moved
  <2>3. CASE RestartChip(lost)
    BY <1>2, <2>3, RestartKeeps
  <2>4. QED BY <2>1, <2>2, <2>3
<1>4. QED BY <1>1, <1>3, RestingKeeps DEF Asking, Reading

-----------------------------------------------------------------------------
(* The reading of a frame.                                                 *)

\* The label says that the driver is on page 0, and no frame is held.
LEMMA OnPage0 ==
    ASSUME IInv, PageInv, pc \in Reading
    PROVE  Page(chip) = 0 /\ held = <<>>
<1>1. Page(chip) \in {0, 1}
  BY DEF IInv, ChipInv, Chip, Page
<1>2. QED BY <1>1 DEF PageInv, SentLabels, Reading

\* A step of the reading, which leaves the ring as it is.
LEMMA ReadingKeeps ==
    ASSUME IInv, PageInv, QueueInv, pc \in Reading, pc' \in Reading, Page(chip') = 0,
           chip'.ram = chip.ram, Aligned(chip, chip'), UNCHANGED <<shadow, held>>,
           reg'.b = First,
           pc' \in {"body", "rest", "done"} \/ (pc' = "bad" /\ NextValid(reg'.hdr)) =>
                AtHead(reg'.hdr),
           pc' \in {"rest", "done"} => Cut(reg'.body, reg'.hdr),
           pc' = "rest" => Len(reg'.body) = PStop - reg'.b,
           pc' = "done" => Len(reg'.body) = reg'.hdr.pages
    PROVE  QueueInv'
<1>1. Moved(chip, chip', shadow) /\ held' = <<>>
  BY OnPage0 DEF Aligned, Moved
<1>2. /\ RingInv' /\ First' = First /\ (Waiting' <=> Waiting)
      /\ \A hdr : AtHead(hdr)' <=> AtHead(hdr)
  BY <1>1, RingStays DEF QueueInv
<1>3. CurrInv'
  BY DEF CurrInv, Asking, Reading, Page
<1>4. Waiting
  BY DEF QueueInv, HeadInv
<1>5. HeadInv'
  BY <1>1, <1>2, <1>4 DEF HeadInv, Cut, NextValid
<1>6. QED BY <1>2, <1>3, <1>5 DEF QueueInv

LEMMA PacketQueue ==
    ASSUME IInv, PageInv, QueueInv, NEW peek \in BOOLEAN, PacketCall(peek)
    PROVE  QueueInv'
<1>1. /\ pc = "packet" /\ pc' = "header" /\ UNCHANGED <<chip, shadow, held>>
  BY DEF PacketCall, Goto, ringVars
<1>2. reg'.b = First
  BY DEF PacketCall, First, IInv, TypeInv, Reg
<1>3. Page(chip') = 0 /\ Aligned(chip, chip')
  BY <1>1, OnPage0 DEF Aligned, Moved, Reading
<1>4. QED BY <1>1, <1>2, <1>3, ReadingKeeps DEF Reading

\* A header that was found good, or names a page of the ring, is the one at the
\* head of the queue.
LEMMA HeaderQueue ==
    ASSUME PoisonOutside, IInv, PageInv, QueueInv,
           NEW harm \in {"none", "status", "next"}, NEW lost \in BOOLEAN, ReadHeader(harm, lost)
    PROVE  QueueInv'
<1> DEFINE c == DmaSetUp(chip, reg.b, 0, 4, DmaReadCmd, lost)
           h == IF harm = "next" THEN [HeaderAt(c) EXCEPT !.next = 255] ELSE HeaderAt(c)
<1>1. /\ pc = "header" /\ reg \in Reg /\ reg.b \in Ring /\ reg.b = First /\ reg.tries > 0
      /\ chip \in Chip /\ Rested(chip) /\ Waiting /\ Page(chip) = 0
      /\ UNCHANGED <<shadow, held>>
  <2>1. pc = "header" /\ UNCHANGED <<shadow, held>>
    BY DEF ReadHeader
  <2>2. reg \in Reg /\ reg.b \in Ring /\ reg.tries > 0 /\ chip \in Chip /\ Rested(chip)
    BY <2>1 DEF IInv, ChipInv, TypeInv, CallInv
  <2>3. reg.b = First /\ Waiting
    BY <2>1 DEF QueueInv, HeadInv, Reading
  <2>4. QED BY <2>1, <2>2, <2>3, OnPage0 DEF Reading
<1>2. \/ HeaderGood(h, harm # "status") /\ pc' = "body" /\ reg' = [reg EXCEPT !.hdr = h]
      \/ pc' = "header" /\ reg.tries > 1 /\ reg' = [reg EXCEPT !.tries = reg.tries - 1]
      \/ pc' = "bad" /\ reg' = [reg EXCEPT !.hdr = h]
  <2>1. reg.tries \in Nat /\ (reg.tries > 1 \/ reg.tries = 1)
    BY <1>1 DEF Reg
  <2>2. CASE HeaderGood(h, harm # "status")
    BY <2>2 DEF ReadHeader, Goto
  <2>3. CASE ~HeaderGood(h, harm # "status") /\ reg.tries > 1
    <3>1. reg.tries # 1
      BY <2>3
    <3>2. QED BY <2>3, <3>1 DEF ReadHeader, Goto
  <2>4. CASE ~HeaderGood(h, harm # "status") /\ reg.tries = 1
    BY <2>4 DEF ReadHeader, Goto
  <2>5. QED BY <2>1, <2>2, <2>3, <2>4
<1>3. /\ HeaderAt(c) \in Header
      /\ HeaderAt(c) = Poison \/ (HeaderAt(c) = chip.ram[reg.b] /\ chip.ram[reg.b].part = 0)
  <2> DEFINE off == 0
             count == 4
             d == DmaEnd(c)
  <2>1. off \in Byte /\ count \in Byte /\ count > 0
    BY DEF Byte
  <2>2. c = DmaSetUp(chip, reg.b, off, count, DmaReadCmd, lost)
    OBVIOUS
  <2> HIDE DEF c, off, count
  <2>3. QED BY <1>1, <2>1, <2>2, ReadDmaKeeps
<1> HIDE DEF c
<1>4. NextValid(h) => h = HeaderAt(c) /\ h # Poison
  <2>1. 255 \notin Ring /\ Poison.next \notin Ring
    BY RingAssumption DEF Ring, PoisonOutside
  <2>2. harm = "next" => h.next = 255
    BY <1>3 DEF Header
  <2>3. QED BY <2>1, <2>2 DEF NextValid
<1>5. HeaderGood(h, harm # "status") => NextValid(h)
  BY DEF HeaderGood
<1>6. NextValid(h) => AtHead(h)
  BY <1>1, <1>3, <1>4 DEF AtHead
<1> HIDE DEF h
<1>7. Aligned(chip, chip') /\ Page(chip') = 0 /\ chip'.ram = chip.ram
  BY <1>1, HeaderKeeps DEF Page, Page0Start
<1>8. /\ pc' \in {"body", "header", "bad"} /\ reg'.b = First
      /\ pc' \in {"body", "bad"} => reg'.hdr = h
      /\ pc' = "body" => NextValid(h)
  BY <1>1, <1>2, <1>5 DEF Reg
<1>9. pc \in Reading /\ pc' \in Reading
  BY <1>1, <1>8 DEF Reading
<1>10. pc' \in {"body", "rest", "done"} \/ (pc' = "bad" /\ NextValid(reg'.hdr)) =>
            AtHead(reg'.hdr)
  BY <1>6, <1>8
<1>11. pc' \notin {"rest", "done"}
  BY <1>8
<1>12. QED BY <1>1, <1>7, <1>8, <1>9, <1>10, <1>11, ReadingKeeps

\* Where the frame at the head lies.
LEMMA HeadPlaces ==
    ASSUME IInv, PageInv, RingInv, NEW hdr, AtHead(hdr)
    PROVE  /\ hdr \in Header /\ hdr.pages \in 1 .. Size /\ First \in Ring
           /\ \A k \in 0 .. hdr.pages - 1 : /\ Behind(First, k) \in Ring
                                            /\ chip.ram[Behind(First, k)] = Follows(hdr, k)
           /\ \E a, n \in Nat : /\ Queues(chip.ram, shadow, chip.bnry, chip.curr, a, n)
                                /\ hdr.pages <= n
                                /\ Before(hdr.next) = Behind(shadow, hdr.pages)
<1>1. PICK a \in Nat, n \in Nat : Queues(chip.ram, shadow, chip.bnry, chip.curr, a, n)
  BY DEF RingInv
<1>2. chip.bnry \in Ring /\ chip \in Chip
  BY DEF PageInv, IInv, ChipInv
<1>3. /\ shadow \in Ring /\ First \in Ring /\ First = Behind(shadow, 1) /\ n > 0 /\ n \in Nat
  BY <1>1, <1>2, WaitingFacts DEF AtHead
<1>4. hdr = chip.ram[Behind(shadow, 1)] /\ hdr.part = 0 /\ hdr \in Header
  <2>1. hdr = chip.ram[First] /\ hdr \in Token
    BY <1>2, <1>3 DEF AtHead, Chip
  <2>2. QED BY <1>3, <2>1, RegTyped DEF AtHead
<1>5. hdr.pages \in Nat
  BY <1>4 DEF Header, Byte
<1>6. /\ 0 < hdr.pages /\ hdr.pages <= n /\ hdr.next = Behind(shadow, 1 + hdr.pages)
      /\ \A k \in 0 .. hdr.pages - 1 : chip.ram[Behind(shadow, 1 + k)] = Follows(hdr, k)
  <2> DEFINE ram == chip.ram
             bnry == chip.bnry
             curr == chip.curr
  <2>1. /\ Queues(ram, shadow, bnry, curr, a, n) /\ bnry \in Ring /\ hdr = ram[Behind(shadow, 1)]
    BY <1>1, <1>2, <1>4
  <2> HIDE DEF ram, bnry, curr
  <2>2. /\ 0 < hdr.pages /\ hdr.pages <= n /\ hdr.next = Behind(shadow, 1 + hdr.pages)
        /\ \A k \in 0 .. hdr.pages - 1 : ram[Behind(shadow, 1 + k)] = Follows(hdr, k)
    BY <1>3, <1>4, <1>5, <2>1, HeadLies
  <2>3. QED BY <2>2 DEF ram
<1>7. n + 1 <= Size /\ Size \in Nat
  BY <1>1, <1>3, RingInts DEF Queues
<1>8. ASSUME NEW k \in 0 .. hdr.pages - 1
      PROVE  Behind(First, k) \in Ring /\ chip.ram[Behind(First, k)] = Follows(hdr, k)
  <2>1. k \in Nat /\ k \in 0 .. Size /\ 1 + k <= Size
    BY <1>3, <1>5, <1>6, <1>7
  <2>2. Behind(First, k) = Behind(shadow, 1 + k)
    BY <1>3, <2>1, BehindBehind
  <2>3. QED BY <1>3, <1>6, <2>1, <2>2, BehindTyped
<1>9. Before(hdr.next) = Behind(shadow, hdr.pages)
  <2> DEFINE k == 1 + hdr.pages
  <2>1. k \in 1 .. Size /\ k - 1 = hdr.pages /\ hdr.next = Behind(shadow, k)
    BY <1>3, <1>5, <1>6, <1>7
  <2> HIDE DEF k
  <2>2. QED BY <1>3, <2>1, BeforeIsBehind
<1>10. hdr.pages \in 1 .. Size
  BY <1>3, <1>5, <1>6, <1>7
<1>11. QED BY <1>1, <1>3, <1>4, <1>6, <1>8, <1>9, <1>10

LEMMA BodyQueue ==
    ASSUME IInv, PageInv, QueueInv, NEW lost \in BOOLEAN, ReadBody(lost)
    PROVE  QueueInv'
<1> DEFINE count == FirstPages
           pages == ReadPages(reg.b, FirstPages)
           all == reg.hdr.pages
           room == PStop - reg.b
<1>1. /\ pc = "body" /\ reg \in Reg /\ reg.b = First /\ First \in Ring
      /\ AtHead(reg.hdr) /\ Page(chip) = 0
  BY OnPage0 DEF ReadBody, IInv, TypeInv, CallInv, QueueInv, HeadInv, Reading
<1>2. /\ reg.hdr \in Header /\ all \in 1 .. Size
      /\ \A k \in 0 .. all - 1 : /\ Behind(First, k) \in Ring
                                 /\ chip.ram[Behind(First, k)] = Follows(reg.hdr, k)
  BY <1>1, HeadPlaces DEF QueueInv
<1>3. /\ room > 0 /\ room \in Int /\ count = IF all < room THEN all ELSE room
  BY <1>1, RingInts DEF FirstPages
<1>4. /\ reg' = [reg EXCEPT !.body = pages] /\ UNCHANGED <<shadow, held>>
      /\ pc' = IF count < all THEN "rest" ELSE "done"
  BY DEF ReadBody, Goto, ringVars
<1>5. count \in Nat /\ count > 0 /\ count <= all /\ count <= room
  <2> HIDE DEF count, room, all
  <2>1. QED BY <1>2, <1>3, RingInts
<1>6. DOMAIN pages = 1 .. count /\ Len(pages) = count
  <2> HIDE DEF count
  <2>1. Len(pages) = count /\ pages \in Seq(Token)
    <3>1. reg.b \in Int
      BY <1>1, RingInts
    <3>2. pages = ReadPages(reg.b, count)
      BY DEF count
    <3>3. QED BY <1>5, <3>1, <3>2, PagesTyped DEF IInv
  <2>2. QED BY <2>1
<1>7. ASSUME NEW k \in 1 .. count PROVE pages[k] = Follows(reg.hdr, k - 1)
  <2> DEFINE j == k - 1
  <2>1. j \in 0 .. all - 1 /\ j < room /\ First + k - 1 = First + j /\ j \in Nat
    BY <1>1, <1>2, <1>3, <1>5, RingInts
  <2>2. pages[k] = TokenAt(chip, First + k - 1)
    BY <1>1, <1>5 DEF ReadPages
  <2> HIDE DEF j
  <2>3. Behind(First, j) = First + j
    BY <1>1, <2>1, RingInts DEF Behind
  <2>4. pages[k] = chip.ram[Behind(First, j)]
    BY <1>2, <2>1, <2>2, <2>3 DEF TokenAt
  <2>5. QED BY <1>2, <2>1, <2>4 DEF j
<1> HIDE DEF count, pages
<1>8. reg'.b = First /\ reg'.hdr = reg.hdr /\ reg'.body = pages
  BY <1>1, <1>4 DEF Reg
<1>9. /\ Aligned(chip, chip') /\ Page(chip') = 0 /\ chip'.ram = chip.ram
  BY <1>1, BodyKeeps DEF Page, Page0Start
<1>10. Cut(reg'.body, reg'.hdr)
  BY <1>6, <1>7, <1>8 DEF Cut
<1>11. /\ pc' = "rest" => Len(reg'.body) = PStop - reg'.b
       /\ pc' = "done" => Len(reg'.body) = reg'.hdr.pages
  BY <1>1, <1>2, <1>3, <1>4, <1>5, <1>6, <1>8
<1>12. pc \in Reading /\ pc' \in Reading
  BY <1>1, <1>4 DEF Reading
<1>13. QED BY <1>1, <1>4, <1>8, <1>9, <1>10, <1>11, <1>12, ReadingKeeps

LEMMA RestQueue ==
    ASSUME IInv, PageInv, QueueInv, NEW lost \in BOOLEAN, ReadRest(lost)
    PROVE  QueueInv'
<1> DEFINE all == reg.hdr.pages
           room == PStop - reg.b
           count == all - Len(reg.body)
           pages == ReadPages(PStart, count)
           body == reg.body \o pages
<1>1. /\ pc = "rest" /\ reg \in Reg /\ reg.b = First /\ First \in Ring
      /\ AtHead(reg.hdr) /\ Page(chip) = 0
      /\ Cut(reg.body, reg.hdr) /\ Len(reg.body) = room /\ Len(reg.body) < all
      /\ reg.body \in Seq(Token)
  BY OnPage0 DEF ReadRest, IInv, TypeInv, CallInv, QueueInv, HeadInv, Reading, Reg
<1>2. /\ reg.hdr \in Header /\ all \in 1 .. Size
      /\ \A k \in 0 .. all - 1 : /\ Behind(First, k) \in Ring
                                 /\ chip.ram[Behind(First, k)] = Follows(reg.hdr, k)
  BY <1>1, HeadPlaces DEF QueueInv
<1>3. /\ room > 0 /\ room \in Int /\ count \in Nat /\ count = all - room
      /\ all \in Int /\ First + room = PStop /\ First \in Int
  BY <1>1, <1>2, RingInts
<1>4. /\ reg' = [reg EXCEPT !.body = body] /\ UNCHANGED <<shadow, held>> /\ pc' = "done"
  BY DEF ReadRest, Goto, ringVars
<1>5. Len(pages) = count /\ pages \in Seq(Token)
  <2> HIDE DEF count
  <2>1. PStart \in Int
    BY RingInts
  <2>2. QED BY <1>3, <2>1, PagesTyped DEF IInv
<1>6. ASSUME NEW k \in 1 .. count PROVE pages[k] = Follows(reg.hdr, room + k - 1)
  <2> DEFINE j == room + k - 1
  <2>1. j \in 0 .. all - 1 /\ First + j = PStop + k - 1
    <3> HIDE DEF all, room, count
    <3>1. k \in Int /\ 1 <= k /\ k <= count /\ PStop \in Int
      BY <1>3, RingInts
    <3>2. QED BY <1>3, <3>1
  <2>2. pages[k] = TokenAt(chip, PStart + k - 1)
    <3> HIDE DEF count
    <3>1. QED BY DEF ReadPages
  <2> HIDE DEF j
  <2>3. Behind(First, j) = PStart + k - 1
    <3>1. /\ PStart \in Int /\ PStop \in Int /\ Size = PStop - PStart /\ k \in Int /\ k >= 1
      BY RingInts DEF Size
    <3>2. First \in Int /\ j \in Int
      BY <1>3, <2>1
    <3> HIDE DEF Size, all, room, count
    <3>3. QED BY <2>1, <3>1, <3>2 DEF Behind
  <2>4. pages[k] = chip.ram[Behind(First, j)]
    BY <1>2, <2>1, <2>2, <2>3 DEF TokenAt
  <2>5. QED BY <1>2, <2>1, <2>4 DEF j
<1> HIDE DEF count, pages
<1>7. body \in Seq(Token) /\ Len(body) = all /\ DOMAIN body = 1 .. all
  <2>1. Len(body) = Len(reg.body) + Len(pages) /\ body \in Seq(Token)
    BY <1>1, <1>5
  <2>2. QED BY <1>1, <1>2, <1>3, <1>5, <2>1
<1>8. ASSUME NEW k \in 1 .. all PROVE body[k] = Follows(reg.hdr, k - 1)
  <2>1. CASE k <= room
    <3>1. k \in DOMAIN reg.body /\ body[k] = reg.body[k]
      BY <1>1, <1>3, <1>5, <2>1
    <3>2. QED BY <1>1, <3>1 DEF Cut
  <2>2. CASE k > room
    <3> DEFINE i == k - room
    <3>1. i \in 1 .. count /\ room + i - 1 = k - 1
      <4> HIDE DEF all, room
      <4>1. QED BY <1>3, <2>2
    <3>2. body[k] = pages[i]
      <4> HIDE DEF all
      <4>1. k \in 1 .. Len(reg.body) + Len(pages) /\ k > Len(reg.body)
        BY <1>1, <1>3, <1>5, <2>2
      <4>2. QED BY <1>1, <1>5, <4>1
    <3> HIDE DEF i
    <3>3. QED BY <1>6, <3>1, <3>2
  <2>3. k \in Int /\ room \in Int
    <3> HIDE DEF all, room
    <3>1. QED BY <1>3
  <2> HIDE DEF all, room, body
  <2>4. QED BY <2>1, <2>2, <2>3
<1> HIDE DEF body
<1>9. reg'.b = First /\ reg'.hdr = reg.hdr /\ reg'.body = body
  BY <1>1, <1>4 DEF Reg
<1>10. /\ Aligned(chip, chip') /\ Page(chip') = 0 /\ chip'.ram = chip.ram
  BY <1>1, RestKeeps DEF Page, Page0Start
<1>11. Cut(reg'.body, reg'.hdr)
  BY <1>7, <1>8, <1>9 DEF Cut
<1>12. pc \in Reading /\ pc' \in Reading
  BY <1>1, <1>4 DEF Reading
<1>13. QED BY <1>1, <1>4, <1>7, <1>9, <1>10, <1>11, <1>12, ReadingKeeps

-----------------------------------------------------------------------------
(* A frame is handed over, released or given up.                           *)

\* What PEEK_PACKET returns is whole.
LEMMA PeekDoneQueue ==
    ASSUME IInv, PageInv, QueueInv, PeekDone
    PROVE  QueueInv'
<1>1. /\ pc = "done" /\ pc' = "idle" /\ held' = reg.body /\ UNCHANGED <<chip, shadow>>
  BY DEF PeekDone, Return
<1>2. /\ AtHead(reg.hdr) /\ Cut(reg.body, reg.hdr) /\ Len(reg.body) = reg.hdr.pages
      /\ reg.body \in Seq(Token) /\ reg.body # <<>> /\ Page(chip) = 0
  BY <1>1, OnPage0 DEF IInv, TypeInv, CallInv, QueueInv, HeadInv, Reading, Reg
<1>3. reg.hdr \in Header
  BY DEF IInv, TypeInv, Reg
<1>4. reg.body[1] = reg.hdr
  <2>1. 1 \in DOMAIN reg.body /\ 1 - 1 = 0
    BY <1>2
  <2>2. reg.body[1] = Follows(reg.hdr, 0)
    BY <1>2, <2>1 DEF Cut
  <2>3. Follows(reg.hdr, 0) = reg.hdr
    BY <1>3 DEF Follows, Header
  <2>4. QED BY <2>2, <2>3
<1>5. Moved(chip, chip', shadow) /\ chip'.ram = chip.ram
  BY <1>1 DEF Moved
<1>6. /\ RingInv' /\ \A hdr : AtHead(hdr)' <=> AtHead(hdr)
  BY <1>1, <1>5, RingStays DEF QueueInv
<1>7. CurrInv'
  BY <1>1, <1>2 DEF CurrInv, Asking, Page
<1>8. HeadInv'
  BY <1>1, <1>2, <1>4, <1>6 DEF HeadInv, Reading, Cut
<1>9. QED BY <1>6, <1>7, <1>8 DEF QueueInv

\* A frame at the head is released.
LEMMA ReleaseQueue ==
    ASSUME IInv, PageInv, QueueInv, NEW hdr, AtHead(hdr), shadow' = Before(hdr.next),
           chip'.ram = chip.ram, Moved(chip, chip', shadow'), Page(chip') = 0,
           pc' = "idle", held' = <<>>
    PROVE  QueueInv'
<1>1. PICK a \in Nat, n \in Nat :
         /\ Queues(chip.ram, shadow, chip.bnry, chip.curr, a, n)
         /\ hdr.pages <= n /\ Before(hdr.next) = Behind(shadow, hdr.pages)
  BY HeadPlaces DEF QueueInv
<1>2. hdr.pages \in 1 .. Size
  BY HeadPlaces DEF QueueInv
<1> DEFINE m == hdr.pages
<1>3. m \in 0 .. n /\ shadow' = Behind(shadow, m)
  BY <1>1, <1>2, RingInts
<1> HIDE DEF m
<1>4. RingInv'
  BY <1>1, <1>3, BoundaryMoves
<1>5. CurrInv'
  BY DEF CurrInv, Asking, Page
<1>6. HeadInv'
  BY DEF HeadInv, Reading
<1>7. QED BY <1>4, <1>5, <1>6 DEF QueueInv

LEMMA ReadDoneQueue ==
    ASSUME IInv, PageInv, QueueInv, NEW lost \in BOOLEAN, ReadDone(lost)
    PROVE  QueueInv'
<1>1. /\ pc = "done" /\ pc' = "idle" /\ held' = held /\ shadow' = Before(reg.hdr.next)
  BY DEF ReadDone, Return, Release
<1>2. AtHead(reg.hdr) /\ Page(chip) = 0 /\ held = <<>>
  BY <1>1, OnPage0 DEF QueueInv, HeadInv, Reading
<1>3. chip'.ram = chip.ram /\ Moved(chip, chip', shadow') /\ Page(chip') = 0
  BY <1>2, ReadDoneKeeps DEF Page
<1>4. QED BY <1>1, <1>2, <1>3, ReleaseQueue

LEMMA CommitQueue ==
    ASSUME IInv, PageInv, QueueInv, NEW lost \in BOOLEAN, CommitPacket(lost)
    PROVE  QueueInv'
<1>1. /\ pc = "idle" /\ pc' = "idle" /\ held # <<>> /\ held' = <<>>
      /\ shadow' = Before(held[1].next)
  BY DEF CommitPacket, Release
<1>2. AtHead(held[1])
  BY <1>1 DEF QueueInv, HeadInv
<1>3. Page(chip) = 0
  <2>1. Page(chip) \in {0, 1}
    BY DEF IInv, ChipInv, Chip, Page
  <2>2. QED BY <1>1, <2>1 DEF PageInv
<1>4. chip'.ram = chip.ram /\ Moved(chip, chip', shadow') /\ Page(chip') = 0
  BY <1>3, CommitKeeps DEF Page
<1> DEFINE hdr == held[1]
<1>5. AtHead(hdr) /\ shadow' = Before(hdr.next)
  BY <1>1, <1>2
<1> HIDE DEF hdr
<1>6. QED BY <1>1, <1>4, <1>5, ReleaseQueue

\* "drop just this ring slot": the whole frame when its header names a page of
\* the ring, its first page when not.
LEMMA BadQueue ==
    ASSUME IInv, PageInv, QueueInv, NEW lost \in BOOLEAN, BadHeader(lost)
    PROVE  QueueInv'
<1>1. /\ pc = "bad" /\ pc' = "idle" /\ held' = held
      /\ shadow' = IF NextValid(reg.hdr) THEN Before(reg.hdr.next) ELSE reg.b
  BY DEF BadHeader, Return, Release
<1>2. Page(chip) = 0 /\ held = <<>> /\ reg.b = First /\ Waiting
  BY <1>1, OnPage0 DEF QueueInv, HeadInv, Reading
<1>3. chip'.ram = chip.ram /\ Moved(chip, chip', shadow') /\ Page(chip') = 0
  BY <1>2, BadKeeps DEF Page
<1>4. CASE NextValid(reg.hdr)
  <2>1. AtHead(reg.hdr)
    BY <1>1, <1>4 DEF QueueInv, HeadInv
  <2>2. QED BY <1>1, <1>2, <1>3, <1>4, <2>1, ReleaseQueue
<1>5. CASE ~NextValid(reg.hdr)
  <2>1. PICK a \in Nat, n \in Nat : Queues(chip.ram, shadow, chip.bnry, chip.curr, a, n)
    BY DEF QueueInv, RingInv
  <2>2. First = Behind(shadow, 1) /\ n > 0
    BY <1>2, <2>1, WaitingFacts DEF PageInv
  <2> DEFINE m == 1
  <2>3. m \in 0 .. n /\ shadow' = Behind(shadow, m)
    BY <1>1, <1>2, <1>5, <2>2
  <2> HIDE DEF m
  <2>4. RingInv'
    BY <1>3, <2>1, <2>3, BoundaryMoves
  <2>5. CurrInv'
    BY <1>1, <1>3 DEF CurrInv, Asking, Page
  <2>6. HeadInv'
    BY <1>1, <1>2 DEF HeadInv, Reading
  <2>7. QED BY <2>4, <2>5, <2>6 DEF QueueInv
<1>6. QED BY <1>4, <1>5

-----------------------------------------------------------------------------
(* SEND_FRAME.                                                             *)

LEMMA SendingQueue ==
    ASSUME FewFaults, IInv, PageInv, QueueInv, SendFrame \/ Sending
    PROVE  QueueInv'
<1>1. Page(chip) \in {0, 1}
  BY DEF IInv, ChipInv, Chip, Page
<1>2. CASE SendFrame
  <2>1. UNCHANGED <<chip, shadow, held>> /\ pc' = "write"
    BY <1>2 DEF SendFrame, Goto, ringVars
  <2>2. Moved(chip, chip', shadow) /\ (Page(chip') = 1 => chip'.cr = Page1Start)
    BY <2>1 DEF Moved, QueueInv, CurrInv
  <2>3. QED BY <2>1, <2>2, RestingKeeps DEF Asking, Reading
<1>3. ASSUME NEW harm \in {"none", "prefix", "rest"}, NEW lost \in BOOLEAN,
             WriteFrame(harm, lost)
      PROVE  QueueInv'
  <2>1. /\ pc = "write" /\ pc' \in {"length", "write", "idle"} /\ UNCHANGED <<shadow, held>>
    <3>1. pc = "write" /\ UNCHANGED ringVars
      BY <1>3 DEF WriteFrame
    <3>2. pc' \in {"length", "write", "idle"}
      BY <1>3, WriteGoesOn
    <3>3. QED BY <3>1, <3>2 DEF ringVars
  <2>2. ~(lost /\ Page(chip) = 1)
    BY <1>3, WriteOnPage0
  <2>3. Aligned(chip, chip') /\ Page(chip') = 0 /\ chip'.ram = chip.ram
    BY <1>3, <2>2, WriteEffect DEF Page, Page0Start
  <2>4. QED BY <2>1, <2>3, RestingKeeps DEF Aligned, Moved, Asking, Reading
<1>4. ASSUME NEW lost \in [1 .. 3 -> BOOLEAN], SetLength(lost)
      PROVE  QueueInv'
  <2>1. pc' = "clear" /\ UNCHANGED <<shadow, held>>
    BY <1>4 DEF SetLength, Goto, ringVars
  <2>2. chip'.ram = chip.ram /\ Moved(chip, chip', shadow) /\ Page(chip') = 0
    BY <1>4, LengthEffect DEF Keeps, SameStore, Aligned, Moved
  <2>3. QED BY <2>1, <2>2, RestingKeeps DEF Asking, Reading
<1>5. ASSUME NEW lost \in BOOLEAN, NEW missed \in BOOLEAN, ClearStatus(lost, missed)
      PROVE  QueueInv'
  <2>1. UNCHANGED <<shadow, held>>
    BY <1>5 DEF ClearStatus, ringVars
  <2>2. /\ chip'.ram = chip.ram /\ Moved(chip, chip', shadow) /\ Page(chip') = 0
        /\ pc' \in {"txp", "clear", "idle"}
    BY <1>5, ClearEffect DEF Keeps, SameStore, Aligned, Moved
  <2>3. QED BY <2>1, <2>2, RestingKeeps DEF Asking, Reading
<1>6. ASSUME NEW lost \in BOOLEAN, NEW fails \in BOOLEAN, Transmit(lost, fails)
      PROVE  QueueInv'
  <2>1. pc' = "ptx" /\ UNCHANGED <<shadow, held>>
    BY <1>6 DEF Transmit, Goto, ringVars
  <2>2. QED BY <1>6, <2>1, TransmitKeeps, RestingKeeps DEF Aligned, Moved, Asking, Reading
<1>7. ASSUME NEW lost \in BOOLEAN, NEW missed \in [1 .. 3 -> BOOLEAN], WaitPtx(lost, missed)
      PROVE  QueueInv'
  <2>1. pc = "ptx" /\ pc' = "idle" /\ UNCHANGED <<shadow, held>>
    BY <1>7 DEF WaitPtx, Return, ringVars
  <2>2. Page(chip) = 0
    BY <1>1, <2>1 DEF PageInv
  <2>3. QED BY <1>7, <2>1, <2>2, WaitKeeps, RestingKeeps DEF Aligned, Moved, Asking, Reading
<1>8. QED BY <1>2, <1>3, <1>4, <1>5, <1>6, <1>7 DEF Sending

-----------------------------------------------------------------------------
(* The theorem.                                                            *)

LEMMA NextQueue ==
    ASSUME FewFaults, NoFalseCurr, PoisonOutside, IInv, PageInv, QueueInv, [Next]_vars
    PROVE  QueueInv'
<1>1. CASE Network
  BY <1>1, ArriveQueue DEF Network
<1>2. CASE Poll \/ Commit
  BY <1>2, PollQueue, CommitQueue DEF Commit
<1>3. CASE Receiving
  <2>1. CASE \/ \E lost \in BOOLEAN, missed \in [1 .. 4 -> BOOLEAN] : SelectTry(lost, missed)
             \/ \E missed, flipped \in BOOLEAN :
                   CurrFirst(missed, flipped) \/ CurrAgain(missed, flipped)
             \/ SelectPage0 \/ Decide
             \/ \E missed \in BOOLEAN : IsrFirst(missed) \/ IsrAgain(missed)
    BY <2>1, SelectQueue, CurrFirstQueue, CurrAgainQueue, SelectPage0Queue, DecideQueue, IsrQueue
  <2>2. CASE MonitorMode \/ \E lost \in BOOLEAN : StopChip(lost) \/ RestartChip(lost)
    BY <2>2, RecoveryQueue
  <2>3. CASE \/ \E peek \in BOOLEAN : PacketCall(peek)
             \/ \E harm \in {"none", "status", "next"}, lost \in BOOLEAN : ReadHeader(harm, lost)
             \/ \E lost \in BOOLEAN :
                   BadHeader(lost) \/ ReadBody(lost) \/ ReadRest(lost) \/ ReadDone(lost)
             \/ PeekDone
    BY <2>3, PacketQueue, HeaderQueue, BadQueue, BodyQueue, RestQueue, ReadDoneQueue, PeekDoneQueue
  <2>4. QED BY <1>3, <2>1, <2>2, <2>3 DEF Receiving
<1>4. CASE SendFrame \/ Sending
  BY <1>4, SendingQueue
<1>5. CASE UNCHANGED vars
  <2>1. UNCHANGED <<chip, shadow, pc, reg, held, faults>>
    BY <1>5 DEF vars
  <2>2. RingInv' /\ CurrInv' /\ HeadInv'
    BY <2>1 DEF QueueInv, RingInv, CurrInv, HeadInv, TrueCurr, AtHead, Waiting, First,
                NextPage, Page
  <2>3. QED BY <2>2 DEF QueueInv
<1>6. QED BY <1>1, <1>2, <1>3, <1>4, <1>5 DEF Next, Code

LEMMA QueueWhole ==
    ASSUME IInv, PageInv, QueueInv
    PROVE  HeldIsWhole
<1>1. ASSUME NEW body \in Seq(Token), NEW hdr, AtHead(hdr), Cut(body, hdr), Len(body) = hdr.pages
      PROVE  /\ First # chip.curr /\ chip.ram[First].part = 0
             /\ Whole(body, chip.ram[First].frame)
  <2>1. hdr \in Header /\ hdr = chip.ram[First] /\ hdr.part = 0 /\ hdr.pages \in 1 .. Size
    BY <1>1, HeadPlaces DEF AtHead, QueueInv
  <2>2. \A k \in DOMAIN body : body[k] = [hdr EXCEPT !.part = hdr.part + (k - 1)]
    BY <1>1 DEF Cut, Follows
  <2>3. \A k \in DOMAIN body : k \in Int
    BY <1>1
  <2>4. ASSUME NEW k \in DOMAIN body
        PROVE  /\ body[k].frame = hdr.frame /\ body[k].part = k - 1
               /\ body[k].pages = hdr.pages
    <3> DEFINE part == hdr.part + (k - 1)
    <3>1. part = k - 1
      BY <2>1, <2>3
    <3>2. body[k] = [hdr EXCEPT !.part = part]
      BY <2>2
    <3> HIDE DEF part
    <3>3. QED BY <2>1, <3>1, <3>2 DEF Header
  <2>5. 1 \in DOMAIN body
    BY <1>1, <2>1
  <2>6. Whole(body, hdr.frame)
    BY <1>1, <2>4, <2>5 DEF Whole
  <2>7. QED BY <1>1, <2>1, <2>6 DEF AtHead, Waiting
<1>2. pc = "done" => reg.body \in Seq(Token) /\ AtHead(reg.hdr) /\ Cut(reg.body, reg.hdr)
                     /\ Len(reg.body) = reg.hdr.pages
  BY DEF IInv, TypeInv, Reg, QueueInv, HeadInv
<1>3. held # <<>> => held \in Seq(Token) /\ AtHead(held[1]) /\ Cut(held, held[1])
                     /\ Len(held) = held[1].pages
  BY DEF IInv, TypeInv, QueueInv, HeadInv
<1>4. QED BY <1>1, <1>2, <1>3 DEF HeldIsWhole, First

\* What PEEK_PACKET or READ_PACKET has read is the frame at the head of the ring,
\* every page of it and no other, across the end of the ring too, and it stays so
\* until it is released, whatever the receiver stores and the card loses meanwhile.
THEOREM HeldWhole ==
    ASSUME FewFaults, NoFalseCurr, PoisonOutside
    PROVE  Spec => []HeldIsWhole
<1>1. Init => IInv /\ PageInv /\ QueueInv
  BY InitKeeps, InitPage, InitQueue
<1>2. IInv /\ PageInv /\ QueueInv /\ [Next]_vars => (IInv /\ PageInv /\ QueueInv)'
  BY NextKeeps, NextPageInv, NextQueue
<1>3. IInv /\ PageInv /\ QueueInv => HeldIsWhole
  BY QueueWhole
<1>4. QED BY <1>1, <1>2, <1>3, PTL DEF Spec

=============================================================================
