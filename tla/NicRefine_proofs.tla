------------------------- MODULE NicRefine_proofs -------------------------
(***************************************************************************)
(* Proofs that the receive ring of NicRing is the queue of FrameQueue.     *)
(*                                                                         *)
(* The queue and the sum of its pages are computed by recursion.  The      *)
(* induction this takes is over a set of numbers, from the library's       *)
(* theorem that a set of naturals has a least element; each recursive      *)
(* function is first shown to exist and to obey its equation.              *)
(***************************************************************************)
EXTENDS NicQueue_proofs, WellFoundedInduction

-----------------------------------------------------------------------------
(* Induction.                                                              *)

LEMMA Induction ==
    ASSUME NEW S, 0 \in S, \A n \in Nat : n \in S => n + 1 \in S
    PROVE  Nat \subseteq S
<1> DEFINE T == Nat \ S
           R == OpToRel(<, Nat)
<1>1. SUFFICES ASSUME T # {} PROVE FALSE
  OBVIOUS
<1>2. IsWellFoundedOn(R, Nat)
  BY NatLessThanWellFounded
<1>3. \A x, y \in Nat : x < y => <<x, y>> \in R
  BY DEF OpToRel
<1> HIDE DEF R
<1>4. PICK x \in T : \A y \in T : ~ (<<y, x>> \in R)
  <2>1. T \subseteq Nat
    OBVIOUS
  <2> HIDE DEF T
  <2>2. QED BY <1>1, <1>2, <2>1, WFMin
<1>5. x - 1 \in Nat /\ x - 1 < x /\ (x - 1) + 1 = x
  OBVIOUS
<1>6. x - 1 \notin T
  BY <1>3, <1>4, <1>5
<1>7. QED BY <1>5, <1>6

\* Induction up to a bound.
LEMMA InductionTo ==
    ASSUME NEW n \in Nat, NEW S, 0 \in S, \A k \in 0 .. n - 1 : k \in S => k + 1 \in S
    PROVE  0 .. n \subseteq S
<1> DEFINE T == S \cup {k \in Nat : k > n}
<1>1. ASSUME NEW k \in Nat, k \in T PROVE k + 1 \in T
  BY <1>1
<1>2. 0 \in T
  OBVIOUS
<1> HIDE DEF T
<1>3. Nat \subseteq T
  BY <1>1, <1>2, Induction
<1>4. QED BY <1>3 DEF T

-----------------------------------------------------------------------------
(* The frames that begin on the pages behind the boundary.                 *)

Framed == [id : 0 .. MaxFrames, pages : Nat]

LEMMA HeadsExist ==
    ASSUME NEW ram, NEW s
    PROVE  \E g : g = [k \in 0 .. Size |->
                          IF k = 0 THEN <<>> ELSE g[k - 1] \o Begins(ram[Behind(s, k)])]
<1> DEFINE Obeys(g, n) ==
        g = [k \in 0 .. n |-> IF k = 0 THEN <<>> ELSE g[k - 1] \o Begins(ram[Behind(s, k)])]
           S == {n \in Nat : \E g : Obeys(g, n)}
<1>1. 0 \in S
  <2> DEFINE g == [k \in 0 .. 0 |-> <<>>]
  <2>1. Obeys(g, 0)
    OBVIOUS
  <2>2. QED BY <2>1
<1>2. ASSUME NEW n \in Nat, n \in S PROVE n + 1 \in S
  <2>1. PICK g : Obeys(g, n)
    BY <1>2
  <2> DEFINE h == [k \in 0 .. n + 1 |->
                      IF k = 0 THEN <<>> ELSE g[k - 1] \o Begins(ram[Behind(s, k)])]
  <2>2. \A k \in 0 .. n : h[k] = g[k]
    BY <2>1
  <2>3. \A k \in 0 .. n + 1 : k # 0 => h[k - 1] = g[k - 1]
    <3>1. \A k \in 0 .. n + 1 : k # 0 => k - 1 \in 0 .. n
      OBVIOUS
    <3> HIDE DEF h
    <3>2. QED BY <2>2, <3>1
  <2>4. Obeys(h, n + 1)
    BY <2>3
  <2> HIDE DEF h
  <2>5. QED BY <2>4
<1>3. Size \in S
  <2>1. Size \in Nat
    BY RingInts
  <2> HIDE DEF S
  <2>2. QED BY <1>1, <1>2, <2>1, Induction
<1>4. QED BY <1>3

LEMMA HeadsDef ==
    ASSUME NEW ram, NEW s
    PROVE  Heads(ram, s) = [k \in 0 .. Size |->
              IF k = 0 THEN <<>> ELSE Heads(ram, s)[k - 1] \o Begins(ram[Behind(s, k)])]
<1> DEFINE Obeys(g) ==
        g = [k \in 0 .. Size |-> IF k = 0 THEN <<>> ELSE g[k - 1] \o Begins(ram[Behind(s, k)])]
<1>1. \E g : Obeys(g)
  BY HeadsExist
<1>2. Heads(ram, s) = CHOOSE g : Obeys(g)
  BY DEF Heads
<1> HIDE DEF Obeys
<1>3. Obeys(Heads(ram, s))
  BY <1>1, <1>2
<1>4. QED BY <1>3 DEF Obeys

LEMMA HeadsEmpty ==
    ASSUME NEW ram, NEW s
    PROVE  Heads(ram, s)[0] = <<>>
<1>1. 0 \in 0 .. Size
  BY RingInts
<1>2. QED BY <1>1, HeadsDef

LEMMA HeadsStep ==
    ASSUME NEW ram, NEW s, NEW k \in 0 .. Size - 1
    PROVE  Heads(ram, s)[k + 1] = Heads(ram, s)[k] \o Begins(ram[Behind(s, k + 1)])
<1> DEFINE h == Heads(ram, s)
           j == k + 1
<1>1. h = [i \in 0 .. Size |-> IF i = 0 THEN <<>> ELSE h[i - 1] \o Begins(ram[Behind(s, i)])]
  BY HeadsDef
<1>2. j \in 0 .. Size /\ j # 0 /\ j - 1 = k
  BY RingInts
<1> HIDE DEF h, j
<1>3. h[j] = h[j - 1] \o Begins(ram[Behind(s, j)])
  BY <1>1, <1>2
<1>4. QED BY <1>2, <1>3 DEF h, j

LEMMA BeginsTyped ==
    ASSUME NEW t \in Token
    PROVE  Begins(t) \in Seq(Framed)
<1>1. t.frame \in 0 .. MaxFrames /\ t.pages \in Nat
  BY RegTyped DEF Header, Byte
<1> DEFINE f == [id |-> t.frame, pages |-> t.pages]
<1>2. f \in Framed
  BY <1>1 DEF Framed
<1> HIDE DEF f
<1>3. <<f>> \in Seq(Framed) /\ <<>> \in Seq(Framed)
  BY <1>2
<1>4. QED BY <1>3 DEF Begins, f

LEMMA HeadsTyped ==
    ASSUME NEW ram, NEW s, NEW n \in 0 .. Size, \A i \in 1 .. n : ram[Behind(s, i)] \in Token
    PROVE  \A k \in 0 .. n : Heads(ram, s)[k] \in Seq(Framed)
<1> DEFINE S == {k \in 0 .. n : Heads(ram, s)[k] \in Seq(Framed)}
<1>1. n \in Nat /\ Size \in Nat /\ n <= Size
  BY RingInts
<1>2. 0 \in S
  <2>1. Heads(ram, s)[0] = <<>> /\ <<>> \in Seq(Framed) /\ 0 \in 0 .. n
    BY <1>1, HeadsEmpty, EmptySeq
  <2>2. QED BY <2>1
<1>3. ASSUME NEW k \in 0 .. n - 1, k \in S PROVE k + 1 \in S
  <2>1. k + 1 \in 1 .. n /\ k + 1 \in 0 .. n /\ k \in 0 .. Size - 1
    BY <1>1
  <2>2. Begins(ram[Behind(s, k + 1)]) \in Seq(Framed)
    BY <2>1, BeginsTyped
  <2>3. Heads(ram, s)[k + 1] = Heads(ram, s)[k] \o Begins(ram[Behind(s, k + 1)])
    BY <2>1, HeadsStep
  <2>4. QED BY <1>3, <2>1, <2>2, <2>3, ConcatProperties
<1> HIDE DEF S
<1>4. 0 .. n \subseteq S
  BY <1>1, <1>2, <1>3, InductionTo
<1>5. QED BY <1>4 DEF S

\* A step that changes none of the pages changes no prefix of the queue.
LEMMA HeadsSame ==
    ASSUME NEW ram, NEW s, NEW n \in 0 .. Size, NEW new,
           \A i \in 1 .. n : new[Behind(s, i)] = ram[Behind(s, i)]
    PROVE  \A k \in 0 .. n : Heads(new, s)[k] = Heads(ram, s)[k]
<1> DEFINE S == {k \in 0 .. n : Heads(new, s)[k] = Heads(ram, s)[k]}
<1>1. n \in Nat /\ Size \in Nat /\ n <= Size
  BY RingInts
<1>2. 0 \in S
  <2>1. Heads(ram, s)[0] = <<>> /\ Heads(new, s)[0] = <<>> /\ 0 \in 0 .. n
    BY <1>1, HeadsEmpty
  <2>2. QED BY <2>1
<1>3. ASSUME NEW k \in 0 .. n - 1, k \in S PROVE k + 1 \in S
  <2>1. k + 1 \in 1 .. n /\ k + 1 \in 0 .. n /\ k \in 0 .. Size - 1
    BY <1>1
  <2>2. Heads(ram, s)[k + 1] = Heads(ram, s)[k] \o Begins(ram[Behind(s, k + 1)])
    BY <2>1, HeadsStep
  <2>3. Heads(new, s)[k + 1] = Heads(new, s)[k] \o Begins(new[Behind(s, k + 1)])
    BY <2>1, HeadsStep
  <2>4. QED BY <1>3, <2>1, <2>2, <2>3
<1> HIDE DEF S
<1>4. 0 .. n \subseteq S
  BY <1>1, <1>2, <1>3, InductionTo
<1>5. QED BY <1>4 DEF S

\* Pages on which no frame begins add nothing.
LEMMA HeadsQuiet ==
    ASSUME NEW ram, NEW s, NEW n \in 0 .. Size, NEW m \in 0 .. n,
           \A i \in 1 .. n : ram[Behind(s, i)] \in Token,
           \A i \in m + 1 .. n : ram[Behind(s, i)].part # 0
    PROVE  Heads(ram, s)[n] = Heads(ram, s)[m]
<1> DEFINE S == {j \in 0 .. n - m : Heads(ram, s)[m + j] = Heads(ram, s)[m]}
<1>1. /\ n \in Nat /\ m \in Nat /\ Size \in Nat /\ m <= n /\ n <= Size /\ n - m \in Nat
      /\ m + 0 = m /\ m + (n - m) = n
  BY RingInts
<1>2. 0 \in S
  BY <1>1
<1>3. ASSUME NEW j \in 0 .. n - m - 1, j \in S PROVE j + 1 \in S
  <2> DEFINE k == m + j
  <2>1. /\ k \in 0 .. Size - 1 /\ k + 1 \in m + 1 .. n /\ m + (j + 1) = k + 1
        /\ j + 1 \in 0 .. n - m /\ k \in 0 .. n
    BY <1>1
  <2> HIDE DEF k
  <2>2. Heads(ram, s)[k + 1] = Heads(ram, s)[k] \o Begins(ram[Behind(s, k + 1)])
    BY <2>1, HeadsStep
  <2>3. Begins(ram[Behind(s, k + 1)]) = <<>>
    BY <2>1 DEF Begins
  <2>4. Heads(ram, s)[k] \in Seq(Framed)
    BY <2>1, HeadsTyped
  <2>5. Heads(ram, s)[k + 1] = Heads(ram, s)[k]
    BY <2>2, <2>3, <2>4, ConcatEmptySeq
  <2>6. Heads(ram, s)[k] = Heads(ram, s)[m]
    BY <1>3 DEF k
  <2>7. QED BY <2>1, <2>5, <2>6
<1> HIDE DEF S
<1>4. 0 .. n - m \subseteq S
  BY <1>1, <1>2, <1>3, InductionTo
<1>5. n - m \in S
  BY <1>1, <1>4
<1>6. QED BY <1>1, <1>5 DEF S

\* Of the queue behind the boundary, what is behind a later boundary is the rest.
LEMMA HeadsShift ==
    ASSUME NEW ram, NEW s \in Ring, NEW n \in 0 .. Size, NEW m \in 0 .. n,
           \A i \in 1 .. n : ram[Behind(s, i)] \in Token
    PROVE  /\ Heads(ram, Behind(s, m))[n - m] \in Seq(Framed)
           /\ Heads(ram, s)[n] = Heads(ram, s)[m] \o Heads(ram, Behind(s, m))[n - m]
<1> DEFINE z == Behind(s, m)
           S == {j \in 0 .. n - m :
                    Heads(ram, s)[m + j] = Heads(ram, s)[m] \o Heads(ram, z)[j]}
<1>1. /\ n \in Nat /\ m \in Nat /\ Size \in Nat /\ m <= n /\ n <= Size /\ n - m \in Nat
      /\ m + 0 = m /\ m + (n - m) = n /\ n - m <= Size
  BY RingInts
<1>2. \A i \in 1 .. n - m : Behind(z, i) = Behind(s, m + i)
  <2> SUFFICES ASSUME NEW i \in 1 .. n - m PROVE Behind(z, i) = Behind(s, m + i)
    OBVIOUS
  <2>1. i \in Nat /\ m + i <= Size
    BY <1>1
  <2>2. QED BY <1>1, <2>1, BehindBehind
<1> HIDE DEF z
<1>3. \A i \in 1 .. n - m : ram[Behind(z, i)] \in Token
  <2> SUFFICES ASSUME NEW i \in 1 .. n - m PROVE ram[Behind(z, i)] \in Token
    OBVIOUS
  <2>1. m + i \in 1 .. n
    BY <1>1
  <2>2. QED BY <1>2, <2>1
<1>4. \A j \in 0 .. n - m : Heads(ram, z)[j] \in Seq(Framed)
  <2> DEFINE r == n - m
  <2>1. r \in 0 .. Size
    BY <1>1
  <2>2. \A i \in 1 .. r : ram[Behind(z, i)] \in Token
    BY <1>3
  <2> HIDE DEF r
  <2>3. \A j \in 0 .. r : Heads(ram, z)[j] \in Seq(Framed)
    BY <2>1, <2>2, HeadsTyped
  <2>4. QED BY <2>3 DEF r
<1>5. Heads(ram, s)[m] \in Seq(Framed)
  BY HeadsTyped
<1>6. 0 \in S
  <2>1. Heads(ram, z)[0] = <<>> /\ 0 \in 0 .. n - m
    BY <1>1, HeadsEmpty
  <2>2. Heads(ram, s)[m] = Heads(ram, s)[m] \o Heads(ram, z)[0]
    BY <1>5, <2>1, ConcatEmptySeq
  <2>3. QED BY <1>1, <2>1, <2>2
<1>7. ASSUME NEW j \in 0 .. n - m - 1, j \in S PROVE j + 1 \in S
  <2> DEFINE k == m + j
             t == ram[Behind(s, k + 1)]
  <2>1. /\ k \in 0 .. Size - 1 /\ k + 1 \in 1 .. n /\ m + (j + 1) = k + 1
        /\ j + 1 \in 0 .. n - m /\ j + 1 \in 1 .. n - m /\ j \in 0 .. Size - 1 /\ j \in 0 .. n - m
    BY <1>1
  <2> HIDE DEF k
  <2>2. Heads(ram, s)[k + 1] = Heads(ram, s)[k] \o Begins(t)
    BY <2>1, HeadsStep
  <2>3. Heads(ram, z)[j + 1] = Heads(ram, z)[j] \o Begins(t)
    <3>1. Heads(ram, z)[j + 1] = Heads(ram, z)[j] \o Begins(ram[Behind(z, j + 1)])
      BY <2>1, HeadsStep
    <3>2. Behind(z, j + 1) = Behind(s, k + 1)
      BY <1>2, <2>1
    <3>3. QED BY <3>1, <3>2
  <2>4. Begins(t) \in Seq(Framed)
    BY <2>1, BeginsTyped
  <2> HIDE DEF t
  <2>5. Heads(ram, s)[k] = Heads(ram, s)[m] \o Heads(ram, z)[j]
    BY <1>7 DEF k
  <2>6. Heads(ram, z)[j] \in Seq(Framed)
    BY <1>4, <2>1
  <2>7. Heads(ram, s)[k + 1] = Heads(ram, s)[m] \o Heads(ram, z)[j + 1]
    <3> DEFINE front == Heads(ram, s)[m]
               back == Heads(ram, z)[j]
               new == Begins(t)
    <3>1. front \in Seq(Framed) /\ back \in Seq(Framed) /\ new \in Seq(Framed)
      BY <1>5, <2>4, <2>6
    <3>2. Heads(ram, s)[k + 1] = (front \o back) \o new
      BY <2>2, <2>5
    <3>3. Heads(ram, z)[j + 1] = back \o new
      BY <2>3
    <3> HIDE DEF front, back, new
    <3>4. (front \o back) \o new = front \o (back \o new)
      BY <3>1, ConcatAssociative
    <3>5. QED BY <3>2, <3>3, <3>4 DEF front
  <2>8. QED BY <2>1, <2>7
<1> HIDE DEF S
<1>8. 0 .. n - m \subseteq S
  BY <1>1, <1>6, <1>7, InductionTo
<1>9. n - m \in S /\ n - m \in 0 .. n - m
  BY <1>1, <1>8
<1>10. QED BY <1>1, <1>4, <1>9 DEF S, z

\* No page is asked for between the boundary and CURR but the n that are there.
LEMMA PlacesToCurr ==
    ASSUME NEW s \in Ring, NEW n \in 0 .. Size - 1, NEW curr, curr = Behind(s, n + 1)
    PROVE  (curr - NextPage(s)) % Size = n
<1>1. n \in Int /\ 0 <= n /\ n < Size /\ n + 1 \in 0 .. Size /\ Size \in Nat /\ Size > 0
  BY RingInts
<1> DEFINE x == curr - NextPage(s)
<1>2. x \in Int /\ (x = n \/ x = n - Size)
  <2>1. NextPage(s) = Behind(s, 1)
    BY NextIsBehind
  <2>2. QED BY <1>1, <2>1, RingInts DEF Behind
<1> HIDE DEF x
<1>3. x % Size = n
  BY <1>1, <1>2, NearRemainder
<1>4. QED BY <1>3 DEF x

\* The queue of a ring between a boundary and a CURR.
Between(ram, s, curr) == Heads(ram, s)[(curr - NextPage(s)) % Size]

\* The queue is front, followed by rest.
Parts(queue, front, rest) == rest \in Seq(Framed) /\ queue = front \o rest

\* The boundary moves m pages on: what began on them leaves the queue.
LEMMA Leaves ==
    ASSUME NEW ram, NEW s \in Ring, NEW n \in 0 .. Size - 1, NEW m \in 0 .. n,
           NEW curr, curr = Behind(s, n + 1),
           \A i \in 1 .. n : ram[Behind(s, i)] \in Token
    PROVE  Parts(Heads(ram, s)[n], Heads(ram, s)[m], Between(ram, Behind(s, m), curr))
<1> DEFINE z == Behind(s, m)
           j == n - m
<1>1. /\ n \in 0 .. Size /\ m \in Nat /\ m \in 0 .. Size /\ j \in 0 .. Size - 1 /\ j + 1 \in Nat
      /\ m + (j + 1) = n + 1 /\ n + 1 <= Size
  BY RingInts
<1>2. z \in Ring
  BY <1>1, BehindTyped
<1>3. Behind(z, j + 1) = Behind(s, m + (j + 1))
  <2> DEFINE k == j + 1
  <2>1. k \in Nat /\ m + k <= Size
    BY <1>1
  <2> HIDE DEF k
  <2>2. QED BY <1>1, <2>1, BehindBehind DEF k
<1>4. curr = Behind(z, j + 1)
  BY <1>1, <1>3
<1> HIDE DEF z, j
<1>5. (curr - NextPage(z)) % Size = j
  BY <1>1, <1>2, <1>4, PlacesToCurr
<1>6. Between(ram, Behind(s, m), curr) = Heads(ram, Behind(s, m))[n - m]
  BY <1>5 DEF Between, z, j
<1>7. /\ Heads(ram, Behind(s, m))[n - m] \in Seq(Framed)
      /\ Heads(ram, s)[n] = Heads(ram, s)[m] \o Heads(ram, Behind(s, m))[n - m]
  BY <1>1, HeadsShift
<1>8. QED BY <1>6, <1>7 DEF Parts

\* The frame at the head is the first of the queue, and all its pages are behind
\* one another.
LEMMA Leads ==
    ASSUME NEW ram, NEW s, NEW n \in 0 .. Size - 1, Laid(ram, s, n), n > 0,
           \A i \in 1 .. n : ram[Behind(s, i)] \in Token,
           NEW t, t = ram[Behind(s, 1)], t.part = 0
    PROVE  /\ [id |-> t.frame, pages |-> t.pages] \in Framed
           /\ t.pages \in 1 .. n
           /\ \A m \in 1 .. t.pages :
                 Heads(ram, s)[m] = << [id |-> t.frame, pages |-> t.pages] >>
<1> DEFINE f == [id |-> t.frame, pages |-> t.pages]
           one == 1
<1>1. n \in Nat /\ one \in 1 .. n /\ 0 \in 0 .. Size - 1 /\ 0 + 1 = one /\ Size \in Nat
  BY RingInts
<1>2. t \in Header
  BY <1>1, RegTyped
<1>3. t.frame \in 0 .. MaxFrames /\ t.pages \in Nat /\ t.pages - t.part = t.pages
  BY <1>2 DEF Header, Byte
<1>4. LiesWhole(ram, s, n, one)
  BY <1>1 DEF Laid
<1>5. /\ 0 < t.pages /\ t.pages <= n
      /\ \A k \in 0 .. t.pages - 1 : ram[Behind(s, 1 + k)] = Follows(t, k)
  BY <1>3, <1>4 DEF LiesWhole
<1>6. Heads(ram, s)[one] = <<f>>
  <2>1. Heads(ram, s)[0 + 1] = Heads(ram, s)[0] \o Begins(ram[Behind(s, 0 + 1)])
    BY <1>1, HeadsStep
  <2>2. Begins(ram[Behind(s, one)]) = <<f>>
    BY DEF Begins
  <2>3. Heads(ram, s)[one] = <<>> \o <<f>>
    BY <1>1, <2>1, <2>2, HeadsEmpty
  <2> HIDE DEF f
  <2>4. QED BY <2>3
<1>7. ASSUME NEW m \in 1 .. t.pages PROVE Heads(ram, s)[m] = <<f>>
  <2>1. m \in 0 .. Size /\ one \in 0 .. m
    BY <1>1, <1>3, <1>5
  <2>2. \A i \in 1 .. m : ram[Behind(s, i)] \in Token
    BY <1>1, <1>3, <1>5
  <2>3. ASSUME NEW i \in one + 1 .. m PROVE ram[Behind(s, i)].part # 0
    <3> DEFINE k == i - 1
    <3>1. k \in 0 .. t.pages - 1 /\ 1 + k = i /\ k # 0 /\ k \in Int
      BY <1>3, <1>5
    <3> HIDE DEF k
    <3>2. ram[Behind(s, i)] = Follows(t, k)
      BY <1>5, <3>1
    <3>3. Follows(t, k).part = t.part + k
      BY <1>2 DEF Follows, Header
    <3>4. QED BY <3>1, <3>2, <3>3
  <2> HIDE DEF one
  <2>4. Heads(ram, s)[m] = Heads(ram, s)[one]
    BY <2>1, <2>2, <2>3, HeadsQuiet
  <2>5. QED BY <1>6, <2>4
<1>8. f \in Framed /\ t.pages \in 1 .. n
  BY <1>3, <1>5 DEF Framed
<1>9. QED BY <1>7, <1>8

-----------------------------------------------------------------------------
(* The pages of the frames in a queue.                                     *)

Sum(q) == CHOOSE total : total = [k \in 0 .. Len(q) |->
                                     IF k = 0 THEN 0 ELSE total[k - 1] + q[k].pages]

LEMMA SumExists ==
    ASSUME NEW q, Len(q) \in Nat
    PROVE  \E total : total = [k \in 0 .. Len(q) |->
                                  IF k = 0 THEN 0 ELSE total[k - 1] + q[k].pages]
<1> DEFINE Obeys(g, n) == g = [k \in 0 .. n |-> IF k = 0 THEN 0 ELSE g[k - 1] + q[k].pages]
           S == {n \in Nat : \E g : Obeys(g, n)}
<1>1. 0 \in S
  <2> DEFINE g == [k \in 0 .. 0 |-> 0]
  <2>1. Obeys(g, 0)
    OBVIOUS
  <2>2. QED BY <2>1
<1>2. ASSUME NEW n \in Nat, n \in S PROVE n + 1 \in S
  <2>1. PICK g : Obeys(g, n)
    BY <1>2
  <2> DEFINE h == [k \in 0 .. n + 1 |-> IF k = 0 THEN 0 ELSE g[k - 1] + q[k].pages]
  <2>2. \A k \in 0 .. n : h[k] = g[k]
    BY <2>1
  <2>3. \A k \in 0 .. n + 1 : k # 0 => h[k - 1] = g[k - 1]
    <3>1. \A k \in 0 .. n + 1 : k # 0 => k - 1 \in 0 .. n
      OBVIOUS
    <3> HIDE DEF h
    <3>2. QED BY <2>2, <3>1
  <2>4. Obeys(h, n + 1)
    BY <2>3
  <2> HIDE DEF h
  <2>5. QED BY <2>4
<1>3. Len(q) \in S
  <2> HIDE DEF S
  <2>1. QED BY <1>1, <1>2, Induction
<1>4. QED BY <1>3

LEMMA SumDef ==
    ASSUME NEW q, Len(q) \in Nat
    PROVE  /\ Sum(q)[0] = 0
           /\ \A k \in 0 .. Len(q) - 1 : Sum(q)[k + 1] = Sum(q)[k] + q[k + 1].pages
           /\ Frames!PagesIn(q) = Sum(q)[Len(q)]
<1> DEFINE Obeys(total) == total = [k \in 0 .. Len(q) |->
                                       IF k = 0 THEN 0 ELSE total[k - 1] + q[k].pages]
           g == Sum(q)
<1>1. \E total : Obeys(total)
  BY SumExists
<1>2. g = CHOOSE total : Obeys(total)
  BY DEF Sum
<1> HIDE DEF Obeys
<1>3. Obeys(g)
  BY <1>1, <1>2
<1> HIDE DEF g
<1>4. /\ g[0] = 0
      /\ \A k \in 0 .. Len(q) - 1 : g[k + 1] = g[k] + q[k + 1].pages
  <2>1. g = [k \in 0 .. Len(q) |-> IF k = 0 THEN 0 ELSE g[k - 1] + q[k].pages]
    BY <1>3 DEF Obeys
  <2>2. 0 \in 0 .. Len(q)
    OBVIOUS
  <2>3. ASSUME NEW k \in 0 .. Len(q) - 1 PROVE g[k + 1] = g[k] + q[k + 1].pages
    <3> DEFINE j == k + 1
    <3>1. j \in 0 .. Len(q) /\ j # 0 /\ j - 1 = k
      OBVIOUS
    <3> HIDE DEF j
    <3>2. g[j] = g[j - 1] + q[j].pages
      BY <2>1, <3>1
    <3>3. QED BY <3>1, <3>2 DEF j
  <2>4. QED BY <2>1, <2>2, <2>3
<1>5. Frames!PagesIn(q) = Sum(q)[Len(q)]
  BY DEF Frames!PagesIn, Sum
<1>6. QED BY <1>4, <1>5 DEF g

\* One frame more, and a queue with none.
LEMMA PagesOf ==
    ASSUME NEW q \in Seq(Framed), NEW f \in Framed
    PROVE  /\ Frames!PagesIn(<<>>) = 0
           /\ Frames!PagesIn(q) \in Nat
           /\ Frames!PagesIn(q \o <<f>>) = Frames!PagesIn(q) + f.pages
<1> DEFINE r == q \o <<f>>
           n == Len(q)
           S == {k \in 0 .. n : Sum(q)[k] \in Nat /\ Sum(r)[k] = Sum(q)[k]}
<1>1. /\ n \in Nat /\ Len(r) = n + 1 /\ r[n + 1] = f /\ \A k \in 1 .. n : r[k] = q[k]
      /\ \A k \in 1 .. n : q[k].pages \in Nat
      /\ f.pages \in Nat
  <2>1. \A k \in 1 .. n : q[k] \in Framed
    OBVIOUS
  <2>2. \A g \in Framed : g.pages \in Nat
    BY DEF Framed
  <2> HIDE DEF Framed
  <2>3. n \in Nat /\ Len(r) = n + 1 /\ r[n + 1] = f /\ \A k \in 1 .. n : r[k] = q[k]
    OBVIOUS
  <2>4. QED BY <2>1, <2>2, <2>3
<1>2. Frames!PagesIn(<<>>) = 0
  <2> DEFINE e == <<>>
  <2>1. Len(e) = 0
    OBVIOUS
  <2> HIDE DEF e
  <2>2. Frames!PagesIn(e) = Sum(e)[Len(e)] /\ Sum(e)[0] = 0
    BY <2>1, SumDef
  <2>3. QED BY <2>1, <2>2 DEF e
<1> HIDE DEF r
<1>3. /\ Sum(q)[0] = 0 /\ Sum(r)[0] = 0
      /\ \A k \in 0 .. n - 1 : Sum(q)[k + 1] = Sum(q)[k] + q[k + 1].pages
      /\ \A k \in 0 .. n : Sum(r)[k + 1] = Sum(r)[k] + r[k + 1].pages
      /\ Frames!PagesIn(q) = Sum(q)[n] /\ Frames!PagesIn(r) = Sum(r)[n + 1]
  <2>1. Len(r) \in Nat /\ Len(r) - 1 = n
    BY <1>1
  <2>2. /\ Sum(q)[0] = 0
        /\ \A k \in 0 .. n - 1 : Sum(q)[k + 1] = Sum(q)[k] + q[k + 1].pages
        /\ Frames!PagesIn(q) = Sum(q)[n]
    BY <1>1, SumDef
  <2>3. /\ Sum(r)[0] = 0
        /\ \A k \in 0 .. Len(r) - 1 : Sum(r)[k + 1] = Sum(r)[k] + r[k + 1].pages
        /\ Frames!PagesIn(r) = Sum(r)[Len(r)]
    BY <2>1, SumDef
  <2>4. QED BY <1>1, <2>1, <2>2, <2>3
<1> HIDE DEF n
<1>4. 0 \in S
  BY <1>1, <1>3
<1>5. ASSUME NEW k \in 0 .. n - 1, k \in S PROVE k + 1 \in S
  <2>1. k + 1 \in 1 .. n /\ k \in 0 .. n /\ k + 1 \in 0 .. n
    BY <1>1
  <2>2. Sum(q)[k] \in Nat /\ Sum(r)[k] = Sum(q)[k]
    BY <1>5
  <2>3. /\ Sum(q)[k + 1] = Sum(q)[k] + q[k + 1].pages
        /\ Sum(r)[k + 1] = Sum(r)[k] + q[k + 1].pages /\ q[k + 1].pages \in Nat
    BY <1>1, <1>3, <2>1
  <2>4. QED BY <2>1, <2>2, <2>3
<1> HIDE DEF S
<1>6. 0 .. n \subseteq S
  BY <1>1, <1>4, <1>5, InductionTo
<1>7. n \in 0 .. n
  BY <1>1
<1>8. Sum(q)[n] \in Nat /\ Sum(r)[n] = Sum(q)[n]
  BY <1>6, <1>7 DEF S
<1>9. Sum(r)[n + 1] = Sum(r)[n] + f.pages
  BY <1>1, <1>3, <1>7
<1>10. QED BY <1>2, <1>3, <1>8, <1>9 DEF r

\* The page i behind s and the next: the frame goes on there, or another begins.
LEMMA NextPlace ==
    ASSUME NEW ram, NEW s, NEW n \in 0 .. Size, Laid(ram, s, n),
           \A i \in 1 .. n : ram[Behind(s, i)] \in Token, NEW i \in 1 .. n,
           NEW t, t = ram[Behind(s, i)]
    PROVE  /\ t.pages - t.part \in 1 .. n + 1 - i
           /\ t.pages \in Nat /\ t.part \in Nat
           /\ i < n /\ t.pages - t.part > 1 => ram[Behind(s, i + 1)] = Follows(t, 1)
           /\ Follows(t, 1).part = t.part + 1 /\ Follows(t, 1).pages = t.pages
<1>1. i \in Nat /\ n \in Nat
  BY RingInts
<1>2. t \in Header
  BY RegTyped
<1>3. t.pages \in Nat /\ t.part \in Nat
  BY <1>2 DEF Header, Byte
<1> DEFINE rest == t.pages - t.part
<1>4. /\ 0 < rest /\ rest <= n + 1 - i
      /\ \A k \in 0 .. rest - 1 : ram[Behind(s, i + k)] = Follows(t, k)
  BY DEF Laid, LiesWhole
<1>5. rest > 1 => 1 \in 0 .. rest - 1
  BY <1>3
<1>6. Follows(t, 1).part = t.part + 1 /\ Follows(t, 1).pages = t.pages
  BY <1>2 DEF Follows, Header
<1>7. rest \in 1 .. n + 1 - i
  BY <1>1, <1>3, <1>4
<1>8. QED BY <1>3, <1>4, <1>5, <1>6, <1>7

\* The frames of a queue take no more pages than there are behind the boundary.
LEMMA Fills ==
    ASSUME NEW ram, NEW s, NEW n \in 0 .. Size, Laid(ram, s, n),
           \A i \in 1 .. n : ram[Behind(s, i)] \in Token
    PROVE  Frames!PagesIn(Heads(ram, s)[n]) <= n
<1> DEFINE q(k) == Heads(ram, s)[k]
           t(k) == ram[Behind(s, k)]
           over(k) == IF k = 0 THEN 0 ELSE t(k).pages - t(k).part - 1
           S == {k \in 0 .. n : Frames!PagesIn(q(k)) <= k + over(k)}
<1>1. n \in Nat /\ Size \in Nat /\ n <= Size
  BY RingInts
<1>2. \A k \in 0 .. n : q(k) \in Seq(Framed)
  BY HeadsTyped
<1>3. \A k \in 0 .. n : Frames!PagesIn(q(k)) \in Nat
  <2> SUFFICES ASSUME NEW k \in 0 .. n PROVE Frames!PagesIn(q(k)) \in Nat
    OBVIOUS
  <2> DEFINE f == [id |-> 0, pages |-> 0]
  <2>1. f \in Framed
    BY NicAssumption DEF Framed
  <2>2. q(k) \in Seq(Framed)
    BY <1>2
  <2> HIDE DEF f, q
  <2>3. QED BY <2>1, <2>2, PagesOf
<1>4. 0 \in S
  <2> DEFINE f == [id |-> 0, pages |-> 0]
             e == <<>>
  <2>1. f \in Framed /\ e \in Seq(Framed)
    BY NicAssumption DEF Framed
  <2> HIDE DEF f, e
  <2>2. Frames!PagesIn(<<>>) = 0
    BY <2>1, PagesOf
  <2>3. q(0) = <<>>
    BY HeadsEmpty
  <2>4. QED BY <1>1, <2>2, <2>3
<1>5. ASSUME NEW k \in 0 .. n - 1, k \in S PROVE k + 1 \in S
  <2> DEFINE i == k + 1
             u == t(i)
             old == q(k)
             p == Frames!PagesIn(old)
  <2>1. /\ i \in 1 .. n /\ i \in 0 .. n /\ i # 0 /\ k \in 0 .. n /\ k \in Nat /\ k < n
        /\ k \in 0 .. Size - 1 /\ (k # 0 => k \in 1 .. n)
    BY <1>1
  <2>2. q(i) = old \o Begins(u)
    BY <2>1, HeadsStep
  <2>3. /\ u.pages - u.part \in 1 .. n + 1 - i /\ u.pages \in Nat /\ u.part \in Nat
    <3> HIDE DEF i
    <3>1. QED BY <2>1, NextPlace
  <2>4. k # 0 => /\ t(k).pages - t(k).part \in 1 .. n + 1 - k
                 /\ t(k).pages \in Nat /\ t(k).part \in Nat
                 /\ t(k).pages - t(k).part > 1 => u.part = t(k).part + 1 /\ u.pages = t(k).pages
    <3>1. ASSUME k # 0
          PROVE  /\ t(k).pages - t(k).part \in 1 .. n + 1 - k
                 /\ t(k).pages \in Nat /\ t(k).part \in Nat
                 /\ t(k).pages - t(k).part > 1 => u = Follows(t(k), 1)
                 /\ Follows(t(k), 1).part = t(k).part + 1 /\ Follows(t(k), 1).pages = t(k).pages
      <4>1. k \in 1 .. n /\ k < n
        BY <2>1, <3>1
      <4>2. QED BY <4>1, NextPlace
    <3>2. QED BY <3>1
  <2>5. p \in Nat /\ p <= k + over(k)
    BY <1>3, <1>5, <2>1
  <2>6. old \in Seq(Framed)
    BY <1>2, <2>1
  <2>7. u \in Token
    BY <2>1
  <2>8. /\ over(k) \in Int /\ over(k) >= 0 /\ over(i) = u.pages - u.part - 1
        /\ over(k) = 0 \/ (over(k) = over(i) + 1 /\ u.part > 0)
    <3>1. CASE k = 0
      <4>1. over(k) = 0 /\ over(i) = u.pages - u.part - 1
        BY <2>1, <3>1
      <4> HIDE DEF over, t, u, i
      <4>2. QED BY <4>1
    <3>2. CASE k # 0
      <4> DEFINE a == t(k).pages
                 b == t(k).part
      <4>1. /\ over(k) = a - b - 1 /\ a \in Nat /\ b \in Nat /\ a - b >= 1
            /\ a - b > 1 => u.part = b + 1 /\ u.pages = a
        BY <2>1, <2>4, <3>2
      <4>2. over(i) = u.pages - u.part - 1
        BY <2>1
      <4> HIDE DEF a, b, over, t, u, i
      <4>3. QED BY <4>1, <4>2
    <3>3. QED BY <3>1, <3>2
  <2>9. Frames!PagesIn(q(i)) = p + (IF u.part = 0 THEN u.pages ELSE 0)
    <3> DEFINE f == [id |-> u.frame, pages |-> u.pages]
    <3>1. u \in Header
      BY <2>7, RegTyped
    <3>2. f \in Framed /\ f.pages = u.pages
      BY <3>1 DEF Framed, Header, Byte
    <3>3. CASE u.part = 0
      <4>1. q(i) = old \o <<f>>
        BY <2>2, <3>3 DEF Begins
      <4> HIDE DEF f, old, q, u
      <4>2. Frames!PagesIn(old \o <<f>>) = Frames!PagesIn(old) + f.pages
        BY <2>6, <3>2, PagesOf
      <4>3. QED BY <3>2, <3>3, <4>1, <4>2
    <3>4. CASE u.part # 0
      <4>1. q(i) = old \o <<>>
        BY <2>2, <3>4 DEF Begins
      <4> HIDE DEF old, q, u
      <4>2. q(i) = old
        BY <2>6, <4>1, ConcatEmptySeq
      <4>3. QED BY <2>5, <3>4, <4>2
    <3>5. QED BY <3>3, <3>4
  <2>10. Frames!PagesIn(q(i)) <= i + over(i)
    <3> DEFINE total == Frames!PagesIn(q(i))
               more == over(i)
               spare == over(k)
               a == u.pages
               b == u.part
    <3>1. /\ total = p + (IF b = 0 THEN a ELSE 0) /\ more = a - b - 1
          /\ p \in Nat /\ p <= k + spare /\ k \in Nat
          /\ spare \in Int /\ (spare = 0 \/ (spare = more + 1 /\ b > 0))
          /\ a \in Nat /\ b \in Nat /\ a - b >= 1
      BY <2>1, <2>3, <2>5, <2>8, <2>9
    <3> HIDE DEF total, more, spare, a, b, p
    <3>2. total <= (k + 1) + more
      BY <3>1
    <3>3. QED BY <3>2 DEF total, more
  <2>11. QED BY <2>1, <2>10
<1> HIDE DEF S
<1>6. 0 .. n \subseteq S
  BY <1>1, <1>4, <1>5, InductionTo
<1>7. n \in S
  BY <1>1, <1>6
<1>8. over(n) = 0
  <2>1. CASE n = 0
    BY <2>1
  <2>2. CASE n # 0
    <3>1. n \in 1 .. n
      BY <1>1, <2>2
    <3>2. t(n).pages - t(n).part \in 1 .. n + 1 - n
      BY <3>1, NextPlace
    <3>3. QED BY <1>1, <2>2, <3>2
  <2>3. QED BY <2>1, <2>2
<1>9. Frames!PagesIn(q(n)) <= n + over(n)
  BY <1>7 DEF S
<1>10. QED BY <1>1, <1>8, <1>9

-----------------------------------------------------------------------------
(* The queue behind the driver's boundary.                                 *)

LEMMA Stands ==
    ASSUME NEW ram \in [Ring -> Token], NEW s, NEW bnry \in Ring, NEW curr, NEW a, NEW n,
           Queues(ram, s, bnry, curr, a, n)
    PROVE  /\ n \in 0 .. Size - 1 /\ s \in Ring /\ curr = Behind(s, n + 1)
           /\ Laid(ram, s, n)
           /\ \A i \in 1 .. n : ram[Behind(s, i)] \in Token
<1>1. /\ s \in Ring
      /\ \A i \in 0 .. n + 1 : Behind(s, i) \in Ring
  BY QueuesInRing
<1>2. n \in Nat /\ n \in 0 .. Size - 1 /\ curr = Behind(s, n + 1) /\ Laid(ram, s, n)
  BY RingInts DEF Queues
<1>3. \A i \in 1 .. n : ram[Behind(s, i)] \in Token
  <2> SUFFICES ASSUME NEW i \in 1 .. n PROVE ram[Behind(s, i)] \in Token
    OBVIOUS
  <2>1. i \in 0 .. n + 1
    BY <1>2
  <2>2. QED BY <1>1, <2>1
<1>4. QED BY <1>1, <1>2, <1>3

LEMMA BetweenIs ==
    ASSUME NEW ram \in [Ring -> Token], NEW s, NEW bnry \in Ring, NEW curr, NEW a, NEW n,
           Queues(ram, s, bnry, curr, a, n)
    PROVE  Between(ram, s, curr) = Heads(ram, s)[n] /\ Heads(ram, s)[n] \in Seq(Framed)
<1>1. s \in Ring /\ n \in 0 .. Size - 1 /\ curr = Behind(s, n + 1)
  <2>1. s \in Ring
    BY QueuesInRing
  <2>2. n \in 0 .. Size - 1 /\ curr = Behind(s, n + 1)
    BY RingInts DEF Queues
  <2>3. QED BY <2>1, <2>2
<1>2. Between(ram, s, curr) = Heads(ram, s)[n]
  BY <1>1, PlacesToCurr DEF Between
<1>3. n \in 0 .. Size /\ n \in 0 .. n
  BY <1>1, RingInts
<1>4. \A i \in 1 .. n : ram[Behind(s, i)] \in Token
  BY Stands
<1>5. QED BY <1>1, <1>2, <1>3, <1>4, HeadsTyped

LEMMA QueuedIs ==
    ASSUME IInv, PageInv, NEW a, NEW n, Queues(chip.ram, shadow, chip.bnry, chip.curr, a, n)
    PROVE  /\ n \in 0 .. Size - 1 /\ shadow \in Ring /\ chip.curr = Behind(shadow, n + 1)
           /\ Laid(chip.ram, shadow, n)
           /\ \A i \in 1 .. n : chip.ram[Behind(shadow, i)] \in Token
           /\ First = Behind(shadow, 1) /\ (Waiting <=> n > 0)
           /\ Queued = Heads(chip.ram, shadow)[n]
           /\ Queued \in Seq(Framed)
<1> DEFINE ram == chip.ram
           curr == chip.curr
           bnry == chip.bnry
<1>1. ram \in [Ring -> Token] /\ bnry \in Ring /\ Queues(ram, shadow, bnry, curr, a, n)
  BY DEF IInv, ChipInv, Chip, PageInv
<1>2. Queued = Between(ram, shadow, curr)
  BY DEF Queued, Between
<1>3. First = Behind(shadow, 1) /\ (Waiting <=> n > 0)
  BY <1>1, WaitingFacts
<1> HIDE DEF ram, curr, bnry
<1>4. /\ n \in 0 .. Size - 1 /\ shadow \in Ring /\ curr = Behind(shadow, n + 1)
      /\ Laid(ram, shadow, n)
      /\ \A i \in 1 .. n : ram[Behind(shadow, i)] \in Token
  BY <1>1, Stands
<1>5. Between(ram, shadow, curr) = Heads(ram, shadow)[n] /\ Heads(ram, shadow)[n] \in Seq(Framed)
  BY <1>1, BetweenIs
<1>6. QED BY <1>2, <1>3, <1>4, <1>5 DEF ram, curr

\* A step that leaves the ring and the boundary leaves the queue.
LEMMA Silent ==
    ASSUME chip'.ram = chip.ram, chip'.curr = chip.curr, shadow' = shadow
    PROVE  Queued' = Queued
BY DEF Queued, NextPage

\* The boundary moves m pages on.
LEMMA QueueLoses ==
    ASSUME IInv, PageInv, NEW a, NEW n,
           Queues(chip.ram, shadow, chip.bnry, chip.curr, a, n), NEW m \in 0 .. n,
           shadow' = Behind(shadow, m), chip'.ram = chip.ram, chip'.curr = chip.curr
    PROVE  Queued' \in Seq(Framed) /\ Queued = Heads(chip.ram, shadow)[m] \o Queued'
<1> DEFINE ram == chip.ram
           s == shadow
           curr == chip.curr
           z == Behind(s, m)
<1>1. n \in 0 .. Size - 1 /\ s \in Ring /\ curr = Behind(s, n + 1)
  BY QueuedIs
<1>2. \A i \in 1 .. n : ram[Behind(s, i)] \in Token
  BY QueuedIs
<1>3. Queued = Heads(ram, s)[n]
  BY QueuedIs
<1>4. Queued' = Between(ram, z, curr)
  BY DEF Queued, NextPage, Between
<1> HIDE DEF ram, s, curr
<1>5. Parts(Heads(ram, s)[n], Heads(ram, s)[m], Between(ram, z, curr))
  BY <1>1, <1>2, Leaves
<1>6. QED BY <1>3, <1>4, <1>5 DEF ram, s, Parts

\* The first frame leaves.
LEMMA FirstLeaves ==
    ASSUME NEW f \in Framed, NEW r \in Seq(Framed), NEW q, q = <<f>> \o r
    PROVE  q # <<>> /\ Head(q) = f /\ Tail(q) = r
<1>1. <<f>> \in Seq(Framed) /\ Len(<<f>>) = 1 /\ <<f>>[1] = f
  OBVIOUS
<1>2. /\ q \in Seq(Framed) /\ Len(q) = 1 + Len(r) /\ q[1] = f
      /\ \A i \in 1 .. Len(r) : q[i + 1] = r[i]
  OBVIOUS
<1>3. q # <<>> /\ Head(q) = f
  BY <1>2
<1>4. Tail(q) = r
  <2>1. Tail(q) \in Seq(Framed) /\ Len(Tail(q)) = Len(r)
    BY <1>2
  <2>2. \A i \in 1 .. Len(r) : Tail(q)[i] = r[i]
    BY <1>2
  <2>3. QED BY <2>1, <2>2, SeqEqual
<1>5. QED BY <1>3, <1>4

-----------------------------------------------------------------------------
(* The steps.                                                              *)

\* A header at the head that an undamaged read finds good, and the damaged reads
\* without which it is not given up.
Readable == LET t == chip.ram[First] IN t.part = 0 /\ t.pages <= BufferPages
DamageInv ==
    /\ damaged \in Nat
    /\ pc = "header" /\ Readable => damaged + reg.tries >= HdrRetries
    /\ pc = "bad" /\ Readable => damaged >= HdrRetries

Refines == [Frames!QueueNext]_(Frames!qvars) /\ DamageInv'

\* A frame is stored behind the others: it is the last of the queue, and finds room.
LEMMA StoredLast ==
    ASSUME NEW ram \in [Ring -> Token], NEW new \in [Ring -> Token], NEW s,
           NEW bnry \in Ring, NEW curr, NEW next, NEW a, NEW n, NEW pages \in Nat \ {0},
           NEW id \in 0 .. MaxFrames,
           Queues(ram, s, bnry, curr, a, n), Queues(new, s, bnry, next, a, n + pages),
           \A i \in 1 .. n : new[Behind(s, i)] = ram[Behind(s, i)],
           Written(new, s, n, id, next, pages)
    PROVE  /\ Between(new, s, next) =
                 Between(ram, s, curr) \o << [id |-> id, pages |-> pages] >>
           /\ Between(ram, s, curr) \in Seq(Framed)
           /\ Frames!PagesIn(Between(new, s, next)) <= Size - 1
<1> DEFINE f == [id |-> id, pages |-> pages]
           more == n + pages
<1>1. Queues(new, s, bnry, next, a, more)
  OBVIOUS
<1>2. n \in 0 .. Size - 1
  BY RingInts DEF Queues
<1>3. \A i \in 1 .. n : ram[Behind(s, i)] \in Token
  BY Stands
<1> HIDE DEF more
<1>4. more \in 0 .. Size - 1
  BY <1>1, RingInts DEF Queues
<1>5. \A i \in 1 .. more : new[Behind(s, i)] \in Token
  BY <1>1, Stands
<1>6. Between(new, s, next) = Heads(new, s)[more]
  BY <1>1, BetweenIs
<1>7. Between(ram, s, curr) = Heads(ram, s)[n] /\ Heads(ram, s)[n] \in Seq(Framed)
  BY BetweenIs
<1>8. Heads(new, s)[more] = Heads(ram, s)[n] \o <<f>>
  <2> DEFINE m == n + 1
  <2>1. /\ n \in Nat /\ n \in 0 .. n /\ n \in 0 .. Size /\ 0 \in 0 .. pages - 1 /\ n + 1 + 0 = m
        /\ m \in 0 .. more /\ more \in 0 .. Size
    BY <1>2, <1>4, RingInts DEF more
  <2>2. Heads(new, s)[n] = Heads(ram, s)[n]
    BY <2>1, HeadsSame
  <2>3. Heads(new, s)[m] = Heads(new, s)[n] \o <<f>>
    <3>1. Heads(new, s)[n + 1] = Heads(new, s)[n] \o Begins(new[Behind(s, n + 1)])
      BY <1>2, HeadsStep
    <3>2. new[Behind(s, m)] = [frame |-> id, part |-> 0, next |-> next, pages |-> pages]
      BY <2>1 DEF Written
    <3>3. Begins(new[Behind(s, m)]) = <<f>>
      BY <3>2 DEF Begins
    <3>4. QED BY <3>1, <3>3
  <2>4. ASSUME NEW i \in m + 1 .. more PROVE new[Behind(s, i)].part # 0
    <3> DEFINE k == i - n - 1
    <3>1. k \in 0 .. pages - 1 /\ n + 1 + k = i /\ k # 0
      BY <2>1 DEF more
    <3> HIDE DEF k, m
    <3>2. new[Behind(s, i)] = [frame |-> id, part |-> k, next |-> next, pages |-> pages]
      BY <3>1 DEF Written
    <3>3. QED BY <3>1, <3>2
  <2> HIDE DEF m, f
  <2>5. Heads(new, s)[more] = Heads(new, s)[m]
    BY <1>5, <2>1, <2>4, HeadsQuiet
  <2>6. QED BY <2>2, <2>3, <2>5
<1>9. Frames!PagesIn(Heads(new, s)[more]) <= more
  <2>1. more \in 0 .. Size
    BY <1>4, RingInts
  <2>2. Laid(new, s, more)
    BY <1>1 DEF Queues
  <2>3. QED BY <1>5, <2>1, <2>2, Fills
<1>10. Frames!PagesIn(Between(new, s, next)) <= Size - 1
  <2> DEFINE q == Between(new, s, next)
             total == Frames!PagesIn(q)
  <2>1. total \in Nat
    <3>1. q \in Seq(Framed)
      BY <1>1, BetweenIs, <1>6
    <3>2. f \in Framed
      BY DEF Framed
    <3> HIDE DEF q, f
    <3>3. QED BY <3>1, <3>2, PagesOf
  <2>2. total <= more
    BY <1>6, <1>9
  <2> HIDE DEF total
  <2>3. total <= Size - 1
    BY <1>4, <2>1, <2>2, RingInts
  <2>4. QED BY <2>3 DEF total
<1>11. QED BY <1>6, <1>7, <1>8, <1>10

\* The receiver.
LEMMA ArriveRefines ==
    ASSUME IInv, PageInv, QueueInv, DamageInv, IInv', PageInv',
           NEW dest, NEW pages \in Sizes, Arrive(dest, pages)
    PROVE  Refines
<1>1. /\ UNCHANGED <<shadow, pc, reg, out, damaged>>
      /\ pages \in Byte \ {0} /\ pages \in Nat \ {0} /\ pages \in Nat
  BY NicAssumption, RingAssumption DEF Arrive, Byte
<1>2. PICK a \in Nat, n \in Nat : Queues(chip.ram, shadow, chip.bnry, chip.curr, a, n)
  BY DEF QueueInv, RingInv
<1>3. chip.bnry \in Ring /\ chip \in Chip /\ Bounded(chip) /\ n \in Nat
  BY DEF PageInv, IInv, ChipInv
<1>4. First' = First
  BY <1>1 DEF First, NextPage
<1>5. Waiting <=> n > 0
  BY <1>2, QueuedIs
<1>6. First = Behind(shadow, 1)
  BY <1>2, QueuedIs
<1>7. Queued = Between(chip.ram, shadow, chip.curr)
  BY DEF Queued, Between
<1>8. CASE Fits(chip, pages)
  <2> DEFINE id == arrived + 1
             d == Store(chip, id, pages)
             f == [id |-> id, pages |-> pages]
             ram == chip.ram
             curr == chip.curr
             bnry == chip.bnry
             new == d.ram
             next == d.curr
  <2>1. id \in 0 .. MaxFrames
    BY NicAssumption DEF Arrive, IInv, TypeInv
  <2>2. chip' = d
    BY <1>8 DEF Arrive
  <2>3. new \in [Ring -> Token]
    BY <2>2 DEF IInv, ChipInv, Chip
  <2>4. Queued' = Between(new, shadow, next)
    BY <1>1, <2>2 DEF Queued, Between, NextPage
  <2> HIDE DEF id
  <2>5. /\ Queues(d.ram, shadow, chip.bnry, d.curr, a, n + pages)
        /\ \A i \in 1 .. n : d.ram[Behind(shadow, i)] = chip.ram[Behind(shadow, i)]
    BY <1>1, <1>2, <1>3, <1>8, Stores
  <2>6. Written(d.ram, shadow, n, id, d.curr, pages)
    BY <1>1, <1>2, <1>3, <1>8, Stores
  <2> HIDE DEF d
  <2>7. /\ ram \in [Ring -> Token] /\ bnry \in Ring /\ Queues(ram, shadow, bnry, curr, a, n)
        /\ Queues(new, shadow, bnry, next, a, n + pages)
        /\ \A i \in 1 .. n : new[Behind(shadow, i)] = ram[Behind(shadow, i)]
        /\ Written(new, shadow, n, id, next, pages)
    BY <1>2, <1>3, <2>5, <2>6 DEF Chip
  <2> HIDE DEF ram, new, curr, next, bnry
  <2>8. /\ Between(new, shadow, next) =
              Between(ram, shadow, curr) \o << [id |-> id, pages |-> pages] >>
        /\ Between(ram, shadow, curr) \in Seq(Framed)
        /\ Frames!PagesIn(Between(new, shadow, next)) <= Size - 1
    BY <1>1, <2>1, <2>3, <2>7, StoredLast
  <2>9. /\ Queued' = Queued \o <<f>> /\ Queued \in Seq(Framed)
        /\ Frames!PagesIn(Queued') <= Size - 1
    BY <1>7, <2>4, <2>8 DEF ram, curr
  <2>10. Frames!Arrives
    <3> HIDE DEF f
    <3>1. Len(Queued') = Len(Queued) + 1 /\ Queued'[Len(Queued')] = f
      BY <2>9
    <3>2. Queued' = Append(Queued, f)
      BY <2>9
    <3>3. QED BY <1>1, <2>9, <3>1, <3>2 DEF Frames!Arrives
  <2>11. DamageInv'
    <3>1. pc \in {"header", "bad"} => Waiting
      BY DEF QueueInv, HeadInv, Reading
    <3>2. pc \in {"header", "bad"} => chip'.ram[First] = chip.ram[First]
      <4>1. n > 0 => 1 \in 1 .. n
        BY <1>3
      <4>2. n > 0 => new[Behind(shadow, 1)] = ram[Behind(shadow, 1)]
        BY <2>7, <4>1
      <4>3. QED BY <1>5, <1>6, <2>2, <3>1, <4>2 DEF new, ram
    <3>3. QED BY <1>1, <1>4, <3>2 DEF DamageInv, Readable
  <2>12. QED BY <2>10, <2>11 DEF Refines, Frames!QueueNext
<1>9. CASE ~Fits(chip, pages)
  <2>1. chip' = Halt(chip)
    BY <1>9 DEF Arrive
  <2>2. Keeps(chip, chip') /\ Aligned(chip, chip')
    BY <1>3, <2>1, HaltTyped
  <2>3. chip'.ram = chip.ram /\ chip'.curr = chip.curr
    BY <2>2 DEF Aligned, Moved, Keeps, SameStore
  <2>4. Queued' = Queued
    BY <1>1, <2>3, Silent
  <2>5. DamageInv'
    BY <1>1, <1>4, <2>3 DEF DamageInv, Readable
  <2>6. QED BY <1>1, <2>4, <2>5 DEF Refines, Frames!qvars
<1>10. QED BY <1>8, <1>9

\* A step that touches no frame, and reads no header.
LEMMA SilentRefines ==
    ASSUME DamageInv, chip'.ram = chip.ram, Moved(chip, chip', shadow),
           UNCHANGED <<shadow, out, damaged>>, pc' \notin {"header", "bad"}
    PROVE  Refines
<1>1. Queued' = Queued
  BY Silent DEF Moved
<1>2. DamageInv'
  BY DEF DamageInv
<1>3. QED BY <1>1, <1>2 DEF Refines, Frames!qvars

LEMMA PollingRefines ==
    ASSUME IInv, PageInv, QueueInv, DamageInv,
           \/ Poll
           \/ \E lost \in BOOLEAN, missed \in [1 .. 4 -> BOOLEAN] : SelectTry(lost, missed)
           \/ \E missed, flipped \in BOOLEAN :
                 CurrFirst(missed, flipped) \/ CurrAgain(missed, flipped)
           \/ SelectPage0 \/ Decide
           \/ \E missed \in BOOLEAN : IsrFirst(missed) \/ IsrAgain(missed)
    PROVE  Refines
<1>1. CASE Poll \/ SelectPage0
  <2>1. UNCHANGED <<chip, shadow, out, damaged>> /\ pc' = "select"
    BY <1>1 DEF Poll, SelectPage0, Call, ringVars
  <2>2. Moved(chip, chip', shadow)
    BY <2>1 DEF Moved
  <2>3. QED BY <2>1, <2>2, SilentRefines
<1>2. CASE Decide
  <2>1. UNCHANGED <<chip, shadow, out, damaged>>
    BY <1>2 DEF Decide, ringVars
  <2>2. pc' \in {"idle", "packet", "isr1"}
    <3>1. CASE reg.c \notin Ring
      BY <1>2, <3>1 DEF Decide, Return
    <3>2. CASE reg.c \in Ring /\ reg.c # reg.b
      BY <1>2, <3>2 DEF Decide, Goto
    <3>3. CASE reg.c \in Ring /\ reg.c = reg.b
      BY <1>2, <3>3 DEF Decide, Goto
    <3>4. QED BY <3>1, <3>2, <3>3
  <2>3. Moved(chip, chip', shadow)
    BY <2>1 DEF Moved
  <2>4. QED BY <2>1, <2>2, <2>3, SilentRefines
<1>3. ASSUME NEW lost \in BOOLEAN, NEW missed \in [1 .. 4 -> BOOLEAN], SelectTry(lost, missed)
      PROVE  Refines
  <2>1. UNCHANGED <<shadow, out, damaged>> /\ reg.after \in {"curr1", "decide"}
    BY <1>3 DEF SelectTry, ringVars, IInv, CallInv
  <2>2. /\ Keeps(chip, chip') /\ Aligned(chip, chip')
        /\ pc' \in {reg.after, "select", "page0", "idle"}
    BY <1>3, SelectEffect
  <2>3. chip'.ram = chip.ram /\ Moved(chip, chip', shadow)
    BY <2>2 DEF Keeps, SameStore, Aligned, Moved
  <2>4. pc' \notin {"header", "bad"}
    BY <2>1, <2>2
  <2>5. QED BY <2>1, <2>3, <2>4, SilentRefines
<1>4. ASSUME NEW missed \in BOOLEAN, NEW flipped \in BOOLEAN,
             CurrFirst(missed, flipped) \/ CurrAgain(missed, flipped)
      PROVE  Refines
  <2>1. UNCHANGED <<shadow, out, damaged>> /\ pc' \in {"curr2", "page0"}
    BY <1>4 DEF CurrFirst, CurrAgain, CurrRead, Goto, ringVars
  <2>2. OnlyBus(chip, chip')
    BY <1>4, CurrKeeps
  <2>3. chip'.ram = chip.ram /\ Moved(chip, chip', shadow)
    BY <2>2 DEF OnlyBus, SameStore, SameOne, SameZero, SameBounds, Moved
  <2>4. QED BY <2>1, <2>3, SilentRefines
<1>5. ASSUME NEW missed \in BOOLEAN, IsrFirst(missed) \/ IsrAgain(missed)
      PROVE  Refines
  <2>1. UNCHANGED <<shadow, out, damaged>> /\ pc' \in {"idle", "isr2", "monitor"}
    BY <1>5 DEF IsrFirst, IsrAgain, IsrRead, Return, Goto, ringVars
  <2>2. OnlyBus(chip, chip')
    BY <1>5, IsrKeeps
  <2>3. chip'.ram = chip.ram /\ Moved(chip, chip', shadow)
    BY <2>2 DEF OnlyBus, SameStore, SameOne, SameZero, SameBounds, Moved
  <2>4. QED BY <2>1, <2>3, SilentRefines
<1>6. QED BY <1>1, <1>2, <1>3, <1>4, <1>5

LEMMA RecoveryRefines ==
    ASSUME IInv, PageInv, QueueInv, DamageInv, NEW lost \in BOOLEAN,
           MonitorMode \/ StopChip(lost) \/ RestartChip(lost)
    PROVE  Refines
<1>1. /\ pc \in {"monitor", "stop", "restart"} /\ pc' \in {"stop", "restart", "idle"}
      /\ UNCHANGED <<shadow, out, damaged>>
  BY DEF MonitorMode, StopChip, RestartChip, Return, Goto, ringVars
<1>2. Page(chip) = 0
  <2>1. Page(chip) \in {0, 1}
    BY DEF IInv, ChipInv, Chip, Page
  <2>2. QED BY <1>1, <2>1 DEF PageInv, SentLabels
<1>3. chip'.ram = chip.ram /\ Moved(chip, chip', shadow)
  <2>1. CASE MonitorMode
    BY <1>2, <2>1, MonitorKeeps DEF Aligned, Moved, Page
  <2>2. CASE StopChip(lost)
    BY <1>2, <2>2, StopKeeps DEF Aligned, Moved
  <2>3. CASE RestartChip(lost)
    BY <1>2, <2>3, RestartKeeps
  <2>4. QED BY <2>1, <2>2, <2>3
<1>4. QED BY <1>1, <1>3, SilentRefines

\* A frame is read, but for its header.
LEMMA ReadingRefines ==
    ASSUME IInv, PageInv, QueueInv, DamageInv, NEW lost \in BOOLEAN,
           ReadBody(lost) \/ ReadRest(lost) \/ PeekDone
    PROVE  Refines
<1>1. /\ pc \in Reading /\ UNCHANGED <<shadow, out, damaged>>
  BY DEF ReadBody, ReadRest, PeekDone, ringVars, Reading
<1>2. pc' \in {"rest", "done", "idle"}
  BY DEF ReadBody, ReadRest, PeekDone, Return, Goto
<1>3. Page(chip) = 0
  BY <1>1, OnPage0
<1>4. chip'.ram = chip.ram /\ Aligned(chip, chip')
  <2>1. CASE ReadBody(lost)
    BY <1>3, <2>1, BodyKeeps DEF Page, Page0Start
  <2>2. CASE ReadRest(lost)
    BY <1>3, <2>2, RestKeeps DEF Page, Page0Start
  <2>3. CASE PeekDone
    BY <2>3 DEF PeekDone, Aligned, Moved
  <2>4. QED BY <2>1, <2>2, <2>3
<1>5. Moved(chip, chip', shadow)
  BY <1>4 DEF Aligned, Moved
<1>6. QED BY <1>1, <1>2, <1>4, <1>5, SilentRefines

LEMMA SendingRefines ==
    ASSUME FewFaults, IInv, PageInv, QueueInv, DamageInv, SendFrame \/ Sending
    PROVE  Refines
<1>1. Page(chip) \in {0, 1}
  BY DEF IInv, ChipInv, Chip, Page
<1>2. CASE SendFrame
  <2>1. UNCHANGED <<chip, shadow, out, damaged>> /\ pc' = "write"
    BY <1>2 DEF SendFrame, Goto, ringVars
  <2>2. Moved(chip, chip', shadow)
    BY <2>1 DEF Moved
  <2>3. QED BY <2>1, <2>2, SilentRefines
<1>3. ASSUME NEW harm \in {"none", "prefix", "rest"}, NEW lost \in BOOLEAN,
             WriteFrame(harm, lost)
      PROVE  Refines
  <2>1. pc' \in {"length", "write", "idle"}
    BY <1>3, WriteGoesOn
  <2>2. UNCHANGED <<shadow, out, damaged>>
    BY <1>3 DEF WriteFrame, ringVars
  <2>3. ~(lost /\ Page(chip) = 1)
    BY <1>3, WriteOnPage0
  <2>4. Aligned(chip, chip') /\ chip'.ram = chip.ram
    BY <1>3, <2>3, WriteEffect DEF Page, Page0Start
  <2>5. Moved(chip, chip', shadow)
    BY <2>4 DEF Aligned, Moved
  <2>6. QED BY <2>1, <2>2, <2>4, <2>5, SilentRefines
<1>4. ASSUME NEW lost \in [1 .. 3 -> BOOLEAN], SetLength(lost)
      PROVE  Refines
  <2>1. pc' = "clear" /\ UNCHANGED <<shadow, out, damaged>>
    BY <1>4 DEF SetLength, Goto, ringVars
  <2>2. chip'.ram = chip.ram /\ Moved(chip, chip', shadow)
    BY <1>4, LengthEffect DEF Keeps, SameStore, Aligned, Moved
  <2>3. QED BY <2>1, <2>2, SilentRefines
<1>5. ASSUME NEW lost \in BOOLEAN, NEW missed \in BOOLEAN, ClearStatus(lost, missed)
      PROVE  Refines
  <2>1. UNCHANGED <<shadow, out, damaged>>
    BY <1>5 DEF ClearStatus, ringVars
  <2>2. pc' \in {"txp", "clear", "idle"} /\ chip'.ram = chip.ram /\ Moved(chip, chip', shadow)
    BY <1>5, ClearEffect DEF Keeps, SameStore, Aligned, Moved
  <2>3. QED BY <2>1, <2>2, SilentRefines
<1>6. ASSUME NEW lost \in BOOLEAN, NEW fails \in BOOLEAN, Transmit(lost, fails)
      PROVE  Refines
  <2>1. pc' = "ptx" /\ UNCHANGED <<shadow, out, damaged>>
    BY <1>6 DEF Transmit, Goto, ringVars
  <2>2. chip'.ram = chip.ram /\ Moved(chip, chip', shadow)
    BY <1>6, TransmitKeeps DEF Aligned, Moved
  <2>3. QED BY <2>1, <2>2, SilentRefines
<1>7. ASSUME NEW lost \in BOOLEAN, NEW missed \in [1 .. 3 -> BOOLEAN], WaitPtx(lost, missed)
      PROVE  Refines
  <2>1. pc = "ptx" /\ pc' = "idle" /\ UNCHANGED <<shadow, out, damaged>>
    BY <1>7 DEF WaitPtx, Return, ringVars
  <2>2. Page(chip) = 0
    BY <1>1, <2>1 DEF PageInv
  <2>3. chip'.ram = chip.ram /\ Moved(chip, chip', shadow)
    BY <1>7, <2>2, WaitKeeps DEF Aligned, Moved
  <2>4. QED BY <2>1, <2>3, SilentRefines
<1>8. QED BY <1>2, <1>3, <1>4, <1>5, <1>6, <1>7 DEF Sending

\* A header is about to be read: the count of its damaged reads begins.
LEMMA PacketRefines ==
    ASSUME IInv, NEW peek \in BOOLEAN, PacketCall(peek)
    PROVE  Refines
<1>1. /\ pc' = "header" /\ UNCHANGED <<chip, shadow, out>> /\ damaged' = 0
      /\ reg'.tries = HdrRetries
  BY DEF PacketCall, Goto, IInv, TypeInv, Reg
<1>2. Queued' = Queued
  BY <1>1, Silent
<1>3. Frames!Begins
  BY <1>1, <1>2 DEF Frames!Begins
<1>4. 0 + HdrRetries >= HdrRetries
  BY NicAssumption
<1>5. DamageInv'
  BY <1>1, <1>4 DEF DamageInv
<1>6. QED BY <1>3, <1>5 DEF Refines, Frames!QueueNext

\* What an undamaged read of a header gives.
LEMMA HeaderReads ==
    ASSUME NEW c \in Chip, Rested(c), Page(c) = 0, NEW page \in Ring, NEW lost \in BOOLEAN,
           NEW e, e = DmaSetUp(c, page, 0, 4, DmaReadCmd, lost), c.ram[page].part = 0
    PROVE  HeaderAt(e) = c.ram[page]
<1> DEFINE off == 0
           count == 4
           cmd == DmaReadCmd
           d == DmaEnd(e)
<1>1. /\ page \in Byte /\ off \in Byte /\ count \in Word /\ count > 0
      /\ cmd \in {DmaReadCmd, DmaWriteCmd} /\ e = DmaSetUp(c, page, off, count, cmd, lost)
  BY RegTyped, WordMember DEF Byte
<1>2. c.dma = "idle" /\ c.rbcr = 0
  BY DEF Rested
<1> HIDE DEF off, count, cmd, d
<1>3. /\ SameStore(c, e)
      /\ ~(lost /\ Page(c) = 1) =>
            /\ e.rbcr = count
            /\ e.dma = IF cmd = DmaReadCmd THEN "read" ELSE "write"
  BY <1>1, <1>2, DmaIsSetUp
<1>4. e.dma # "idle" => HighByte(e.crda) = page
  BY <1>1, DmaDone DEF d
<1>5. e.dma = "read" /\ e.rbcr = 4 /\ e.ram = c.ram
  BY <1>3 DEF cmd, count, SameStore
<1>6. TokenAt(e, HighByte(e.crda)) = c.ram[page]
  BY <1>4, <1>5 DEF TokenAt
<1>7. QED BY <1>5, <1>6 DEF HeaderAt

\* A frame that fits the buffers is given up only when every read was damaged.
LEMMA HeaderRefines ==
    ASSUME IInv, PageInv, QueueInv, DamageInv,
           NEW harm \in {"none", "status", "next"}, NEW lost \in BOOLEAN, ReadHeader(harm, lost)
    PROVE  Refines
<1> DEFINE c == DmaSetUp(chip, reg.b, 0, 4, DmaReadCmd, lost)
           h == IF harm = "next" THEN [HeaderAt(c) EXCEPT !.next = 255] ELSE HeaderAt(c)
           good == HeaderGood(h, harm # "status")
<1>1. /\ pc = "header" /\ reg \in Reg /\ reg.b = First /\ First \in Ring /\ reg.tries > 0
      /\ chip \in Chip /\ Rested(chip) /\ Waiting /\ Page(chip) = 0
      /\ UNCHANGED <<shadow, out>>
  <2>1. pc = "header" /\ UNCHANGED <<shadow, out>>
    BY DEF ReadHeader
  <2>2. reg \in Reg /\ reg.b \in Ring /\ reg.tries > 0 /\ chip \in Chip /\ Rested(chip)
    BY <2>1 DEF IInv, ChipInv, TypeInv, CallInv
  <2>3. reg.b = First /\ Waiting
    BY <2>1 DEF QueueInv, HeadInv, Reading
  <2>4. QED BY <2>1, <2>2, <2>3, OnPage0 DEF Reading
<1>2. \/ pc' = "body"
      \/ ~good /\ pc' = "header" /\ reg.tries > 1 /\ reg' = [reg EXCEPT !.tries = reg.tries - 1]
      \/ ~good /\ pc' = "bad" /\ reg.tries = 1
  <2>1. reg.tries \in Nat /\ (reg.tries > 1 \/ reg.tries = 1)
    BY <1>1 DEF Reg
  <2>2. CASE good
    BY <2>2 DEF ReadHeader, Goto
  <2>3. CASE ~good /\ reg.tries > 1
    <3>1. reg.tries # 1
      BY <2>3
    <3>2. QED BY <2>3, <3>1 DEF ReadHeader, Goto
  <2>4. CASE ~good /\ reg.tries = 1
    BY <2>4 DEF ReadHeader, Goto
  <2>5. QED BY <2>1, <2>2, <2>3, <2>4
<1>3. damaged' = (IF harm = "none" THEN damaged ELSE damaged + 1) /\ damaged \in Nat
  BY DEF ReadHeader, DamageInv
<1>4. Readable /\ harm = "none" => good
  <2>1. SUFFICES ASSUME Readable, harm = "none" PROVE good
    OBVIOUS
  <2> DEFINE t == chip.ram[First]
  <2>2. t.part = 0 /\ t.pages <= BufferPages
    BY <2>1 DEF Readable
  <2>3. t.pages \in Nat /\ t.pages > 0 /\ t \in Token
    <3>1. PICK a \in Nat, n \in Nat : Queues(chip.ram, shadow, chip.bnry, chip.curr, a, n)
      BY DEF QueueInv, RingInv
    <3>2. Laid(chip.ram, shadow, n) /\ First = Behind(shadow, 1) /\ n > 0
      BY <1>1, <3>1, QueuedIs
    <3>3. t \in Token /\ t.pages \in Nat
      BY <1>1, RegTyped DEF Chip, Header, Byte
    <3>4. 1 \in 1 .. n /\ t = chip.ram[Behind(shadow, 1)]
      BY <3>2
    <3> HIDE DEF t
    <3>5. 0 < t.pages - t.part
      BY <3>2, <3>4 DEF Laid, LiesWhole
    <3>6. QED BY <2>2, <3>3, <3>5
  <2>4. t.next \in Ring
    BY <2>3, RegTyped DEF Token, Stored, Poison
  <2>5. h = t
    <3>1. HeaderAt(c) = t
      BY <1>1, <2>2, HeaderReads
    <3>2. QED BY <2>1, <3>1
  <2> HIDE DEF t, h
  <2>6. BufferPages \in Nat
    BY NicAssumption
  <2>7. h.pages \in 1 .. BufferPages
    BY <2>2, <2>3, <2>5, <2>6
  <2>8. QED BY <2>1, <2>4, <2>5, <2>7 DEF HeaderGood, NextValid
<1> HIDE DEF good
<1>5. chip'.ram = chip.ram /\ chip'.curr = chip.curr
  BY <1>1, HeaderKeeps DEF Aligned, Moved
<1>6. Queued' = Queued
  BY <1>1, <1>5, Silent
<1>7. [Frames!QueueNext]_(Frames!qvars)
  <2>1. CASE harm = "none"
    BY <1>1, <1>3, <1>6, <2>1 DEF Frames!qvars
  <2>2. CASE harm # "none"
    BY <1>1, <1>3, <1>6, <2>2 DEF Frames!QueueNext, Frames!Damaged
  <2>3. QED BY <2>1, <2>2
<1>8. DamageInv'
  <2>1. Readable' <=> Readable
    BY <1>1, <1>5 DEF Readable, First, NextPage
  <2>2. damaged' \in Nat
    BY <1>3
  <2>3. Readable => damaged + reg.tries >= HdrRetries
    BY <1>1 DEF DamageInv
  <2>4. Readable /\ ~good => damaged' = damaged + 1
    BY <1>3, <1>4
  <2>5. reg.tries \in Nat /\ HdrRetries \in Nat
    BY <1>1, NicAssumption DEF Reg
  <2>6. CASE pc' = "body"
    BY <2>2, <2>6 DEF DamageInv
  <2>7. CASE ~good /\ pc' = "header" /\ reg.tries > 1 /\ reg' = [reg EXCEPT !.tries = reg.tries - 1]
    <3>1. reg'.tries = reg.tries - 1
      BY <1>1, <2>7 DEF Reg
    <3>2. Readable => damaged' + reg'.tries >= HdrRetries
      BY <1>3, <2>3, <2>4, <2>5, <2>7, <3>1
    <3>3. QED BY <2>1, <2>2, <2>7, <3>2 DEF DamageInv
  <2>8. CASE ~good /\ pc' = "bad" /\ reg.tries = 1
    <3>1. Readable => damaged' >= HdrRetries
      BY <1>3, <2>3, <2>4, <2>5, <2>8
    <3>2. QED BY <2>1, <2>2, <2>8, <3>1 DEF DamageInv
  <2>9. QED BY <1>2, <2>6, <2>7, <2>8
<1>9. QED BY <1>7, <1>8 DEF Refines

\* The boundary moves over the m first pages of the frame at the head.
LEMMA HeadLeaves ==
    ASSUME IInv, PageInv, NEW a, NEW n,
           Queues(chip.ram, shadow, chip.bnry, chip.curr, a, n), n > 0,
           NEW t, t = chip.ram[First], t.part = 0, NEW m \in 1 .. t.pages, m <= n,
           shadow' = Behind(shadow, m), chip'.ram = chip.ram, chip'.curr = chip.curr
    PROVE  /\ Queued # <<>> /\ Queued' = Tail(Queued)
           /\ Head(Queued) = [id |-> t.frame, pages |-> t.pages]
<1> DEFINE f == [id |-> t.frame, pages |-> t.pages]
           ram == chip.ram
           s == shadow
<1>1. n \in 0 .. Size - 1
  BY QueuedIs
<1>2. /\ Laid(ram, s, n) /\ \A i \in 1 .. n : ram[Behind(s, i)] \in Token
      /\ t = ram[Behind(s, 1)]
  BY QueuedIs
<1>3. m \in 0 .. n
  BY <1>1, RingInts
<1>4. Queued' \in Seq(Framed) /\ Queued = Heads(chip.ram, shadow)[m] \o Queued'
  BY <1>3, QueueLoses
<1> DEFINE q == Queued
           r == Queued'
<1>5. r \in Seq(Framed) /\ q = Heads(ram, s)[m] \o r
  BY <1>4
<1> HIDE DEF ram, s, q, r
<1>6. /\ [id |-> t.frame, pages |-> t.pages] \in Framed
      /\ \A k \in 1 .. t.pages : Heads(ram, s)[k] = << [id |-> t.frame, pages |-> t.pages] >>
  BY <1>1, <1>2, Leads
<1>7. f \in Framed /\ q = <<f>> \o r
  BY <1>5, <1>6
<1> HIDE DEF f
<1>8. q # <<>> /\ Head(q) = f /\ Tail(q) = r
  BY <1>5, <1>7, FirstLeaves
<1>9. QED BY <1>8 DEF q, r, f

\* The frame at the head leaves.
LEMMA HeadTaken ==
    ASSUME IInv, PageInv, QueueInv, NEW hdr, AtHead(hdr), shadow' = Before(hdr.next),
           chip'.ram = chip.ram, chip'.curr = chip.curr
    PROVE  /\ Queued # <<>> /\ Queued' = Tail(Queued)
           /\ Head(Queued) = [id |-> hdr.frame, pages |-> hdr.pages]
<1>1. PICK a \in Nat, n \in Nat :
         /\ Queues(chip.ram, shadow, chip.bnry, chip.curr, a, n)
         /\ hdr.pages <= n /\ Before(hdr.next) = Behind(shadow, hdr.pages)
  BY HeadPlaces DEF QueueInv
<1>2. hdr.pages \in 1 .. Size
  BY HeadPlaces DEF QueueInv
<1>3. hdr = chip.ram[First] /\ hdr.part = 0
  BY DEF AtHead
<1> DEFINE m == hdr.pages
<1>4. m \in 1 .. hdr.pages /\ m <= n /\ n > 0
  BY <1>1, <1>2, RingInts
<1>5. shadow' = Behind(shadow, m)
  BY <1>1
<1> HIDE DEF m
<1>6. QED BY <1>1, <1>3, <1>4, <1>5, HeadLeaves

\* A frame is handed over and released.
LEMMA TakenRefines ==
    ASSUME IInv, PageInv, QueueInv, DamageInv, NEW hdr, AtHead(hdr),
           shadow' = Before(hdr.next), chip'.ram = chip.ram, Moved(chip, chip', shadow'),
           out' = hdr.frame, damaged' = 0, pc' = "idle"
    PROVE  Refines
<1>1. chip'.curr = chip.curr
  BY DEF Moved
<1>2. /\ Queued # <<>> /\ Queued' = Tail(Queued)
      /\ Head(Queued) = [id |-> hdr.frame, pages |-> hdr.pages]
  BY <1>1, HeadTaken
<1>3. Frames!Taken
  BY <1>2 DEF Frames!Taken
<1>4. DamageInv'
  BY DEF DamageInv
<1>5. QED BY <1>3, <1>4 DEF Refines, Frames!QueueNext

LEMMA ReadDoneRefines ==
    ASSUME IInv, PageInv, QueueInv, DamageInv, NEW lost \in BOOLEAN, ReadDone(lost)
    PROVE  Refines
<1> DEFINE hdr == reg.hdr
<1>1. /\ pc = "done" /\ pc' = "idle" /\ shadow' = Before(hdr.next)
      /\ out' = hdr.frame /\ damaged' = 0
  BY DEF ReadDone, Return, Release
<1>2. AtHead(hdr) /\ Page(chip) = 0
  BY <1>1, OnPage0 DEF QueueInv, HeadInv, Reading
<1>3. chip'.ram = chip.ram /\ Moved(chip, chip', shadow')
  BY <1>2, ReadDoneKeeps DEF Page
<1> HIDE DEF hdr
<1>4. QED BY <1>1, <1>2, <1>3, TakenRefines

LEMMA CommitRefines ==
    ASSUME IInv, PageInv, QueueInv, DamageInv, NEW lost \in BOOLEAN, CommitPacket(lost)
    PROVE  Refines
<1> DEFINE hdr == held[1]
<1>1. /\ pc = "idle" /\ pc' = "idle" /\ held # <<>> /\ shadow' = Before(hdr.next)
      /\ out' = hdr.frame /\ damaged' = 0
  BY DEF CommitPacket, Release
<1>2. AtHead(hdr)
  BY <1>1 DEF QueueInv, HeadInv
<1>3. Page(chip) = 0
  <2>1. Page(chip) \in {0, 1}
    BY DEF IInv, ChipInv, Chip, Page
  <2>2. QED BY <1>1, <2>1 DEF PageInv
<1>4. chip'.ram = chip.ram /\ Moved(chip, chip', shadow')
  BY <1>3, CommitKeeps DEF Page
<1> HIDE DEF hdr
<1>5. QED BY <1>1, <1>2, <1>4, TakenRefines

\* A frame is given up: one that is read again and again is skipped when no buffer
\* holds it or every read was damaged, and the rest of one already left goes unseen.
LEMMA BadRefines ==
    ASSUME IInv, PageInv, QueueInv, DamageInv, NEW lost \in BOOLEAN, BadHeader(lost)
    PROVE  Refines
<1> DEFINE t == chip.ram[First]
<1>1. /\ pc = "bad" /\ pc' = "idle" /\ out' = out /\ damaged' = 0
      /\ shadow' = IF NextValid(reg.hdr) THEN Before(reg.hdr.next) ELSE reg.b
  BY DEF BadHeader, Return, Release
<1>2. Page(chip) = 0 /\ reg.b = First /\ Waiting
  BY <1>1, OnPage0 DEF QueueInv, HeadInv, Reading
<1>3. chip'.ram = chip.ram /\ Moved(chip, chip', shadow')
  BY <1>2, BadKeeps DEF Page
<1>4. chip'.curr = chip.curr
  BY <1>3 DEF Moved
<1>5. DamageInv'
  BY <1>1 DEF DamageInv
<1>6. PICK a \in Nat, n \in Nat : Queues(chip.ram, shadow, chip.bnry, chip.curr, a, n)
  BY DEF QueueInv, RingInv
<1>7. First = Behind(shadow, 1) /\ n > 0
  BY <1>2, <1>6, QueuedIs
<1>8. t.part = 0 => t.pages > BufferPages \/ damaged >= HdrRetries
  <2>1. t \in Token /\ t.pages \in Nat /\ BufferPages \in Nat
    <3>1. First \in Ring
      BY <1>6, WaitingFacts DEF PageInv
    <3>2. t \in Token
      BY <3>1 DEF IInv, ChipInv, Chip
    <3> HIDE DEF t
    <3>3. t.pages \in Nat
      BY <3>2, RegTyped DEF Header, Byte
    <3>4. QED BY <3>2, <3>3, NicAssumption
  <2>2. QED BY <1>1, <2>1 DEF DamageInv, Readable
<1>9. CASE NextValid(reg.hdr)
  <2> DEFINE hdr == reg.hdr
  <2>1. AtHead(hdr) /\ shadow' = Before(hdr.next)
    BY <1>1, <1>9 DEF QueueInv, HeadInv
  <2>2. hdr = t /\ t.part = 0
    BY <2>1 DEF AtHead
  <2> HIDE DEF hdr, t
  <2>3. /\ Queued # <<>> /\ Queued' = Tail(Queued)
        /\ Head(Queued) = [id |-> hdr.frame, pages |-> hdr.pages]
    BY <1>3, <1>4, <2>1, HeadTaken
  <2>4. Frames!Skipped
    BY <1>1, <1>8, <2>2, <2>3 DEF Frames!Skipped
  <2>5. QED BY <1>5, <2>4 DEF Refines, Frames!QueueNext
<1>10. CASE ~NextValid(reg.hdr) /\ t.part = 0
  <2> DEFINE m == 1
  <2>1. shadow' = Behind(shadow, m)
    BY <1>1, <1>2, <1>7, <1>10
  <2>2. m \in 1 .. t.pages /\ m <= n
    <3>1. Laid(chip.ram, shadow, n) /\ 1 \in 1 .. n
      BY <1>6, <1>7 DEF Queues
    <3>2. t = chip.ram[Behind(shadow, 1)] /\ t \in Token /\ t.pages \in Nat
      <4>1. First \in Ring
        BY <1>6, WaitingFacts DEF PageInv
      <4>2. QED BY <1>7, <4>1, RegTyped DEF IInv, ChipInv, Chip, Header, Byte
    <3> HIDE DEF t
    <3>3. 0 < t.pages - t.part
      BY <3>1, <3>2 DEF Laid, LiesWhole
    <3>4. QED BY <1>7, <1>10, <3>2, <3>3
  <2>3. t = chip.ram[First] /\ t.part = 0
    BY <1>10
  <2> HIDE DEF m, t
  <2>4. /\ Queued # <<>> /\ Queued' = Tail(Queued)
        /\ Head(Queued) = [id |-> t.frame, pages |-> t.pages]
    BY <1>3, <1>4, <1>6, <1>7, <2>1, <2>2, <2>3, HeadLeaves
  <2>5. Frames!Skipped
    BY <1>1, <1>8, <2>3, <2>4 DEF Frames!Skipped
  <2>6. QED BY <1>5, <2>5 DEF Refines, Frames!QueueNext
<1>11. CASE ~NextValid(reg.hdr) /\ t.part # 0
  <2> DEFINE m == 1
             ram == chip.ram
             s == shadow
             q == Queued
             r == Queued'
  <2>1. shadow' = Behind(shadow, m) /\ m \in 0 .. n
    BY <1>1, <1>2, <1>7, <1>11
  <2> HIDE DEF m
  <2>2. Queued' \in Seq(Framed) /\ Queued = Heads(chip.ram, shadow)[m] \o Queued'
    BY <1>3, <1>4, <1>6, <2>1, QueueLoses
  <2>3. Heads(chip.ram, shadow)[m] = <<>>
    <3> DEFINE k == 0
    <3>1. k \in 0 .. Size - 1 /\ k + 1 = m
      BY RingInts DEF m
    <3>2. Heads(ram, s)[k] = <<>>
      BY HeadsEmpty DEF k
    <3>3. Begins(ram[Behind(s, m)]) = <<>>
      BY <1>7, <1>11 DEF Begins, m
    <3> HIDE DEF k, ram, s
    <3>4. Heads(ram, s)[k + 1] = Heads(ram, s)[k] \o Begins(ram[Behind(s, k + 1)])
      BY <3>1, HeadsStep
    <3>5. Heads(ram, s)[m] = <<>> \o <<>>
      BY <3>1, <3>2, <3>3, <3>4
    <3>6. <<>> \o <<>> = <<>>
      BY DEF Framed
    <3>7. QED BY <3>5, <3>6 DEF ram, s
  <2>4. q = <<>> \o r /\ r \in Seq(Framed)
    BY <2>2, <2>3
  <2> HIDE DEF q, r
  <2>5. q = r
    BY <2>4, ConcatEmptySeq
  <2>6. Queued' = Queued
    BY <2>5 DEF q, r
  <2>7. Frames!Begins
    BY <1>1, <2>6 DEF Frames!Begins
  <2>8. QED BY <1>5, <2>7 DEF Refines, Frames!QueueNext
<1>12. QED BY <1>9, <1>10, <1>11

-----------------------------------------------------------------------------
(* The theorem.                                                            *)

LEMMA InitRefines ==
    ASSUME Init
    PROVE  Frames!Empty /\ DamageInv
<1>1. PICK tpsr \in {0, TxPage} : chip = InitNormal(tpsr)
  BY DEF Init
<1>2. chip.curr = PStart + 1 /\ shadow = PStart /\ out = 0 /\ damaged = 0 /\ pc = "idle"
  BY <1>1, InitBoots DEF Init
<1> DEFINE n == 0
           curr == chip.curr
<1>3. shadow \in Ring /\ n \in 0 .. Size - 1 /\ curr = Behind(shadow, n + 1)
  BY <1>2, RingInts DEF Behind
<1>4. Heads(chip.ram, shadow)[n] = <<>>
  BY HeadsEmpty
<1> HIDE DEF n, curr
<1>5. Queued = <<>>
  <2>1. (curr - NextPage(shadow)) % Size = n
    BY <1>3, PlacesToCurr
  <2>2. QED BY <1>4, <2>1 DEF Queued, curr
<1>6. QED BY <1>2, <1>5 DEF Frames!Empty, DamageInv

LEMMA NextRefines ==
    ASSUME FewFaults, IInv, PageInv, QueueInv, DamageInv, IInv', PageInv', [Next]_vars
    PROVE  Refines
<1>1. CASE Network
  BY <1>1, ArriveRefines DEF Network
<1>2. CASE Poll \/ Commit
  BY <1>2, PollingRefines, CommitRefines DEF Commit
<1>3. CASE Receiving
  <2>1. CASE \/ \E lost \in BOOLEAN, missed \in [1 .. 4 -> BOOLEAN] : SelectTry(lost, missed)
             \/ \E missed, flipped \in BOOLEAN :
                   CurrFirst(missed, flipped) \/ CurrAgain(missed, flipped)
             \/ SelectPage0 \/ Decide
             \/ \E missed \in BOOLEAN : IsrFirst(missed) \/ IsrAgain(missed)
    BY <2>1, PollingRefines
  <2>2. CASE MonitorMode \/ \E lost \in BOOLEAN : StopChip(lost) \/ RestartChip(lost)
    BY <2>2, RecoveryRefines
  <2>3. CASE \/ \E peek \in BOOLEAN : PacketCall(peek)
             \/ \E harm \in {"none", "status", "next"}, lost \in BOOLEAN : ReadHeader(harm, lost)
             \/ \E lost \in BOOLEAN :
                   BadHeader(lost) \/ ReadBody(lost) \/ ReadRest(lost) \/ ReadDone(lost)
             \/ PeekDone
    BY <2>3, PacketRefines, HeaderRefines, BadRefines, ReadingRefines, ReadDoneRefines
  <2>4. QED BY <1>3, <2>1, <2>2, <2>3 DEF Receiving
<1>4. CASE SendFrame \/ Sending
  BY <1>4, SendingRefines
<1>5. CASE UNCHANGED vars
  <2>1. UNCHANGED <<chip, shadow, pc, reg, out, damaged>>
    BY <1>5 DEF vars
  <2>2. Queued' = Queued
    BY <2>1, Silent
  <2>3. DamageInv'
    BY <2>1 DEF DamageInv, Readable, First, NextPage
  <2>4. QED BY <2>1, <2>2, <2>3 DEF Refines, Frames!qvars
<1>6. QED BY <1>1, <1>2, <1>3, <1>4, <1>5 DEF Next, Code

\* The receive ring is a bounded queue of whole frames: a frame that finds room
\* becomes its last, only its first frame leaves, either handed to the caller once
\* or given up, and given up only when no buffer holds it or one call has read its
\* header damaged as often as the driver tries.
THEOREM RingIsQueue ==
    ASSUME FewFaults, NoFalseCurr, PoisonOutside
    PROVE  Spec => ImplementsQueue
<1> DEFINE I == IInv /\ PageInv /\ QueueInv
<1>1. Init => Frames!Empty /\ DamageInv /\ I
  BY InitRefines, InitKeeps, InitPage, InitQueue
<1>2. I /\ [Next]_vars => I'
  BY NextKeeps, NextPageInv, NextQueue
<1>3. I /\ I' /\ DamageInv /\ [Next]_vars => Refines
  BY NextRefines
<1>4. I /\ I' /\ DamageInv /\ [Next]_vars => DamageInv' /\ [Frames!QueueNext]_(Frames!qvars)
  BY <1>3 DEF Refines
<1>5. QED BY <1>1, <1>2, <1>4, PTL DEF Spec, ImplementsQueue, Frames!QueueSpec

=============================================================================
