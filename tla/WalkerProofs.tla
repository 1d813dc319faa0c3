----------------------------- MODULE WalkerProofs ------------------------------
(***************************************************************************)
(* What the physical transport reads out of the WAL.  For every size of    *)
(* page, header and segment, every alignment, length of records and cut    *)
(* into chunks that WalkerAssumption admits, the framing never desyncs,    *)
(* returns the records that are news, whole, in order and once, and holds  *)
(* none back; and whatever blocks, images, marks and sections a record     *)
(* has, the walk over its headers makes of it what PostgreSQL wrote.       *)
(*                                                                         *)
(* The framing's theorems are about streams that do not begin inside a     *)
(* segment switch: one that does may be taken for garbage, as a run shows. *)
(***************************************************************************)
EXTENDS XLogWalker, RecordWalk, FiniteSetTheorems, SequenceTheorems, TLAPS

------------------------------------------------------------------------------
\* Arithmetic.

Positive == Nat \ {0}

\* Division with remainder, and that there is one way to do it.
LEMMA ModIs ==
  ASSUME NEW a \in Int, NEW n \in Positive
  PROVE  a % n \in 0..n - 1 /\ \E q \in Int : a = n * q + (a % n)
<1>1. a = n * (a \div n) + (a % n)
  BY DEF Positive
<1>2. a \div n \in Int /\ a % n \in 0..n - 1
  BY DEF Positive
<1> QED
  BY <1>1, <1>2

\* There is one way to divide.
LEMMA ModUnique ==
  ASSUME NEW n \in Positive, NEW p \in Int, NEW q \in Int,
         NEW r \in 0..n - 1, NEW s \in 0..n - 1, n * p + r = n * q + s
  PROVE  r = s /\ p = q
<1> USE DEF Positive
<1>1. CASE p = q
  BY <1>1
<1>2. CASE p >= q + 1
  <2>1. n * p >= n * (q + 1)
    BY <1>2
  <2>2. n * (q + 1) = n * q + n
    OBVIOUS
  <2> QED
    BY <2>1, <2>2
<1>3. CASE q >= p + 1
  <2>1. n * q >= n * (p + 1)
    BY <1>3
  <2>2. n * (p + 1) = n * p + n
    OBVIOUS
  <2> QED
    BY <2>1, <2>2
<1> QED
  BY <1>1, <1>2, <1>3

\* So a remainder is known from any way to write the number.
LEMMA ModOf ==
  ASSUME NEW n \in Positive, NEW q \in Int, NEW r \in 0..n - 1
  PROVE  (n * q + r) % n = r
<1> DEFINE a == n * q + r
<1>1. a \in Int
  BY DEF Positive
<1>2. PICK p \in Int : a = n * p + (a % n)
  BY <1>1, ModIs
<1>3. a % n \in 0..n - 1
  BY <1>1, ModIs
<1> HIDE DEF a
<1>4. n * p + (a % n) = n * q + r
  BY <1>2 DEF a
<1>5. a % n = r
  BY <1>3, <1>4, ModUnique
<1> QED
  BY <1>5 DEF a

\* Within a period the remainder moves along.
LEMMA Shift ==
  ASSUME NEW n \in Positive, NEW a \in Int, NEW d \in Int, (a % n) + d \in 0..n - 1
  PROVE  (a + d) % n = (a % n) + d
<1>1. PICK q \in Int : a = n * q + (a % n)
  BY ModIs
<1> DEFINE r == (a % n) + d
<1>2. a % n \in Int /\ n \in Int
  BY ModIs DEF Positive
<1> HIDE DEF r
<1>3. r \in 0..n - 1 /\ (n * q + r) % n = r
  BY ModOf DEF r
<1>4. a + d = n * q + r
  BY <1>1, <1>2 DEF r
<1> QED
  BY <1>3, <1>4 DEF r

\* A multiple of n.
LEMMA MultipleIs ==
  ASSUME NEW n \in Positive, NEW a \in Int
  PROVE  a % n = 0 <=> \E q \in Int : a = n * q
<1>1. PICK p \in Int : a = n * p + (a % n)
  BY ModIs
<1>2. ASSUME a % n = 0
      PROVE  a = n * p
  BY <1>1, <1>2 DEF Positive
<1>3. ASSUME NEW q \in Int, a = n * q
      PROVE  a % n = 0
  <2>1. 0 \in 0..n - 1 /\ n * q + 0 = a
    BY <1>3 DEF Positive
  <2>2. (n * q + 0) % n = 0
    BY <2>1, ModOf
  <2> QED
    BY <2>1, <2>2
<1> QED
  BY <1>2, <1>3

\* Multiples add up, and lie n apart.
LEMMA Multiples ==
  ASSUME NEW n \in Positive, NEW a \in Int, NEW b \in Int, a % n = 0, b % n = 0
  PROVE  /\ (a + b) % n = 0 /\ (a - b) % n = 0
         /\ a < b => a + n <= b
<1>1. PICK p \in Int : a = n * p
  BY MultipleIs
<1>2. PICK q \in Int : b = n * q
  BY MultipleIs
<1>3. a + b = n * (p + q) /\ a - b = n * (p - q)
  BY <1>1, <1>2 DEF Positive
<1>4. (a + b) % n = 0
  BY <1>3, MultipleIs
<1>5. (a - b) % n = 0
  BY <1>3, MultipleIs
<1>6. ASSUME a < b
      PROVE  a + n <= b
  <2>1. q >= p + 1
    <3>1. SUFFICES ASSUME q <= p
                   PROVE  FALSE
      OBVIOUS
    <3>2. n * q <= n * p
      BY <3>1 DEF Positive
    <3> QED
      BY <3>2, <1>1, <1>2, <1>6
  <2>2. n * q >= n * (p + 1)
    BY <2>1 DEF Positive
  <2>3. n * (p + 1) = n * p + n
    BY DEF Positive
  <2> QED
    BY <2>2, <2>3, <1>1, <1>2
<1> QED
  BY <1>4, <1>5, <1>6

\* A page boundary is aligned, and a segment boundary begins a page.
LEMMA MultipleOf ==
  ASSUME NEW m \in Positive, NEW n \in Positive, n % m = 0, NEW a \in Int, a % n = 0
  PROVE  a % m = 0
<1>1. PICK p \in Int : n = m * p
  BY MultipleIs DEF Positive
<1>2. PICK q \in Int : a = n * q
  BY MultipleIs
<1>3. a = m * (p * q)
  BY <1>1, <1>2 DEF Positive
<1> QED
  BY <1>3, MultipleIs

\* The next multiple is the next.
LEMMA UpIs ==
  ASSUME NEW n \in Positive, NEW p \in Int
  PROVE  /\ Up(p, n) \in Int /\ Up(p, n) % n = 0
         /\ p <= Up(p, n) /\ Up(p, n) < p + n
<1> DEFINE r == (-p) % n
<1>1. r \in 0..n - 1 /\ -p \in Int
  BY ModIs
<1>2. PICK q \in Int : -p = n * q + r
  BY <1>1, ModIs
<1>3. Up(p, n) = p + r
  BY DEF Up
<1> HIDE DEF r
<1>4. n * q \in Int /\ n \in Int
  BY DEF Positive
<1>5. p + r = n * (-q)
  <2>1. n * (-q) = -(n * q)
    BY DEF Positive
  <2> QED
    BY <2>1, <1>2, <1>1, <1>4
<1>6. -q \in Int
  OBVIOUS
<1>7. (p + r) % n = 0
  BY <1>1, <1>5, <1>6, MultipleIs
<1> QED
  BY <1>1, <1>3, <1>7, <1>4

------------------------------------------------------------------------------
\* Pages: each begins with its header, and is data from there on.

\* The sizes, as the proofs use them.
LEMMA Sized ==
  /\ {Page, Short, Long, Seg, Align, LenField, MaxRecords} \subseteq Positive
  /\ Short < Long /\ Long < Page
  /\ Page % Align = 0 /\ Short % Align = 0 /\ Long % Align = 0
  /\ Seg % Page = 0
  /\ \A n \in Sizes : n \in Positive /\ n > LenField
BY WalkerAssumption DEF Positive

\* A header is shorter than its page, and aligned.
LEMMA HeaderIs ==
  ASSUME NEW p \in Int
  PROVE  HeaderSize(p) \in 1..Page - 1 /\ HeaderSize(p) % Align = 0
BY Sized DEF HeaderSize, Positive

\* The page of p, and that it is the only one.
LEMMA PageIs ==
  ASSUME NEW p \in Int
  PROVE  /\ p - (p % Page) \in Int /\ (p - (p % Page)) % Page = 0
         /\ p % Page \in 0..Page - 1
         /\ \A d \in Int : (p % Page) + d \in 0..Page - 1 =>
              /\ (p + d) % Page = (p % Page) + d
              /\ (p + d) - ((p + d) % Page) = p - (p % Page)
<1>0. Page \in Positive /\ Page \in Int
  BY Sized DEF Positive
<1>1. p % Page \in 0..Page - 1
  BY <1>0, ModIs
<1>2. ASSUME NEW d \in Int, (p % Page) + d \in 0..Page - 1
      PROVE  /\ (p + d) % Page = (p % Page) + d
             /\ (p + d) - ((p + d) % Page) = p - (p % Page)
  <2>1. (p + d) % Page = (p % Page) + d
    BY <1>0, <1>2, Shift
  <2> QED
    BY <2>1, <1>1
<1> DEFINE d == -(p % Page)
<1>3. d \in Int /\ (p % Page) + d = 0 /\ 0 \in 0..Page - 1 /\ p + d = p - (p % Page)
  BY <1>0, <1>1
<1>4. (p + d) % Page = 0
  BY <1>2, <1>3
<1> HIDE DEF d
<1> QED
  BY <1>1, <1>2, <1>3, <1>4

\* The page that begins at s.
LEMMA PageHas ==
  ASSUME NEW s \in Int, s % Page = 0
  PROVE  /\ \A x \in s..s + HeaderSize(s) - 1 : InHeader(x)
         /\ \A x \in s + HeaderSize(s)..s + Page - 1 : ~InHeader(x)
         /\ \A x \in s + 1..s + Page - 1 : x % Page # 0
<1>0. Page \in Int /\ HeaderSize(s) \in 1..Page - 1
  BY Sized, HeaderIs DEF Positive
<1>1. ASSUME NEW x \in s..s + Page - 1
      PROVE  x % Page = x - s /\ x - (x % Page) = s
  <2>1. x - s \in Int /\ (s % Page) + (x - s) \in 0..Page - 1 /\ s + (x - s) = x
    BY <1>0
  <2>2. (s + (x - s)) % Page = (s % Page) + (x - s)
    BY <2>1, PageIs
  <2> QED
    BY <2>1, <2>2
<1>2. ASSUME NEW x \in s..s + Page - 1
      PROVE  InHeader(x) <=> x < s + HeaderSize(s)
  <2>1. InHeader(x) <=> x - s < HeaderSize(s)
    BY <1>1, <1>2 DEF InHeader
  <2> QED
    BY <2>1, <1>0
<1> HIDE DEF HeaderSize
<1>3. \A x \in s..s + HeaderSize(s) - 1 : x \in s..s + Page - 1 /\ x < s + HeaderSize(s)
  BY <1>0
<1>4. \A x \in s + HeaderSize(s)..s + Page - 1 : x \in s..s + Page - 1 /\ ~(x < s + HeaderSize(s))
  BY <1>0
<1>5. \A x \in s + 1..s + Page - 1 : x \in s..s + Page - 1 /\ x - s # 0
  BY <1>0
<1> QED
  BY <1>1, <1>2, <1>3, <1>4, <1>5

\* The rest of a page, from a byte of data on, is data; and where it ends.
LEMMA PageRest ==
  ASSUME NEW p \in Int, p % Page # 0, ~InHeader(p)
  PROVE  /\ Page - (p % Page) \in 1..Page - 1
         /\ \A x \in p..p + (Page - (p % Page)) - 1 : ~InHeader(x) /\ x % Page # 0
         /\ (p + (Page - (p % Page))) % Page = 0
<1> DEFINE s == p - (p % Page)
<1>0. Page \in Int /\ Page \in Positive /\ Page % Page = 0
  <2>1. Page \in Int /\ Page \in Positive /\ Page = Page * 1 /\ 1 \in Int
    BY Sized DEF Positive
  <2>2. \E q \in Int : Page = Page * q
    BY <2>1
  <2> QED
    BY <2>1, <2>2, MultipleIs
<1>1. s \in Int /\ s % Page = 0 /\ p % Page \in 0..Page - 1 /\ p = s + (p % Page)
  BY PageIs, <1>0
<1> HIDE DEF s
<1>2. HeaderSize(s) \in 1..Page - 1
  BY <1>1, HeaderIs
<1>3. p \in s + HeaderSize(s)..s + Page - 1
  BY <1>0, <1>1, <1>2, PageHas
<1>4. p + (Page - (p % Page)) = s + Page
  BY <1>0, <1>1
<1>5. (s + Page) % Page = 0
  BY <1>0, <1>1, Multiples
<1>6. \A x \in p..s + Page - 1 : ~InHeader(x) /\ x % Page # 0
  BY <1>0, <1>1, <1>2, <1>3, PageHas
<1> QED
  BY <1>0, <1>1, <1>4, <1>5, <1>6

------------------------------------------------------------------------------
\* Room counts the bytes that are not in headers, and End is where a count is reached.

Data(p, q) == {x \in p..q - 1 : ~InHeader(x)}

\* Room is the number of a finite set of bytes.
LEMMA DataIs ==
  ASSUME NEW p \in Int, NEW q \in Int
  PROVE  IsFiniteSet(Data(p, q)) /\ Room(p, q) = Cardinality(Data(p, q)) /\ Room(p, q) \in Nat
<1>1. IsFiniteSet(p..q - 1)
  BY FS_Interval
<1>2. Data(p, q) \in SUBSET (p..q - 1)
  BY DEF Data
<1>3. IsFiniteSet(Data(p, q))
  BY <1>1, <1>2, FS_Subset
<1>4. Room(p, q) = Cardinality(Data(p, q))
  BY DEF Room, Data
<1> QED
  BY <1>3, <1>4, FS_CardinalityType

\* Room adds up over adjacent stretches,
LEMMA RoomAdds ==
  ASSUME NEW p \in Int, NEW q \in Int, NEW r \in Int, p <= q, q <= r
  PROVE  Room(p, r) = Room(p, q) + Room(q, r)
<1>1. Data(p, r) = Data(p, q) \cup Data(q, r)
  BY DEF Data
<1>2. Data(p, q) \cap Data(q, r) = {}
  BY DEF Data
<1>3. Cardinality(Data(p, q) \cap Data(q, r)) = 0
  BY <1>2, FS_EmptySet
<1>4. IsFiniteSet(Data(p, q)) /\ IsFiniteSet(Data(q, r))
  BY DataIs
<1>5. Cardinality(Data(p, q) \cup Data(q, r))
        = Cardinality(Data(p, q)) + Cardinality(Data(q, r)) - Cardinality(Data(p, q) \cap Data(q, r))
  BY <1>4, FS_Union
<1>6. /\ Room(p, q) = Cardinality(Data(p, q)) /\ Room(p, q) \in Nat
      /\ Room(q, r) = Cardinality(Data(q, r)) /\ Room(q, r) \in Nat
      /\ Room(p, r) = Cardinality(Data(p, r))
  BY DataIs
<1> QED
  BY <1>1, <1>3, <1>5, <1>6

\* is nothing within headers,
LEMMA RoomInHeader ==
  ASSUME NEW p \in Int, NEW q \in Int, \A x \in p..q - 1 : InHeader(x)
  PROVE  Room(p, q) = 0
<1>1. Data(p, q) = {}
  BY DEF Data
<1> QED
  BY <1>1, DataIs, FS_EmptySet

\* and the distance between them.
LEMMA RoomInData ==
  ASSUME NEW p \in Int, NEW q \in Int, p <= q, \A x \in p..q - 1 : ~InHeader(x)
  PROVE  Room(p, q) = q - p
<1>1. Data(p, q) = p..q - 1
  BY DEF Data
<1>2. q - 1 \in Int /\ Cardinality(p..q - 1) = IF p > q - 1 THEN 0 ELSE (q - 1) - p + 1
  BY FS_Interval
<1>3. Cardinality(p..q - 1) = q - p
  BY <1>2
<1>4. Room(p, q) = Cardinality(Data(p, q))
  BY DataIs
<1> QED
  BY <1>1, <1>3, <1>4

\* Room grows with the last byte.
LEMMA RoomTo ==
  ASSUME NEW p \in Int, NEW q \in Int, p < q, ~InHeader(q - 1)
  PROVE  Room(p, q) = Room(p, q - 1) + 1
<1>1. q - 1 \in Int /\ p <= q - 1 /\ q - 1 <= q
  OBVIOUS
<1>2. \A x \in q - 1..q - 1 : ~InHeader(x)
  BY <1>1
<1>3. Room(q - 1, q) = 1
  BY <1>1, <1>2, RoomInData
<1> QED
  BY <1>1, <1>3, RoomAdds

\* It does not shrink.
LEMMA RoomGrows ==
  ASSUME NEW p \in Int, NEW q \in Int, NEW r \in Int, p <= q, q <= r
  PROVE  Room(p, q) <= Room(p, r)
BY RoomAdds, DataIs

\* There is one place at which n bytes end.
LEMMA EndUnique ==
  ASSUME NEW p \in Int, NEW q \in Int, NEW r \in Int, p <= q, q < r, ~InHeader(r - 1)
  PROVE  Room(p, q) < Room(p, r)
<1>1. Room(p, r) = Room(p, r - 1) + 1
  BY RoomTo
<1>2. Room(p, q) <= Room(p, r - 1)
  BY RoomGrows
<1> QED
  BY <1>1, <1>2, DataIs

\* The least number of a set of numbers, and induction on a set in place of a predicate.
LEMMA LeastOf ==
  ASSUME NEW T \in SUBSET Nat, T # {}
  PROVE  \E n \in T : \A m \in T : n <= m
<1> DEFINE R == OpToRel(<, Nat)
<1>1. IsWellFoundedOn(R, Nat)
  BY NatLessThanWellFounded
<1>2. \A m, n \in Nat : m < n => <<m, n>> \in R
  BY DEF OpToRel
<1> HIDE DEF R
<1>3. PICK n \in T : \A m \in T : ~ (<<m, n>> \in R)
  BY <1>1, WFMin
<1>4. \A m \in T : m \in Nat /\ ~(m < n)
  BY <1>2, <1>3
<1> QED
  BY <1>4

\* Induction, for sets that are given by a formula.
LEMMA Induct ==
  ASSUME NEW T \in SUBSET Nat, 0 \in T, \A n \in T : n + 1 \in T
  PROVE  T = Nat
<1>1. SUFFICES ASSUME T # Nat
               PROVE  FALSE
  OBVIOUS
<1>2. PICK n \in Nat \ T : \A m \in Nat \ T : n <= m
  BY <1>1, LeastOf
<1>3. n # 0 /\ n - 1 \in Nat
  BY <1>2
<1>4. n - 1 \in T
  BY <1>2, <1>3
<1>5. (n - 1) + 1 = n
  BY <1>2
<1> QED
  BY <1>2, <1>4, <1>5

\* The next byte of data is less than a page away.
LEMMA NextData ==
  ASSUME NEW p \in Int
  PROVE  \E x \in p..p + Page - 1 : ~InHeader(x) /\ Room(p, x) = 0
<1>0. Page \in Int /\ Page > 0
  BY Sized DEF Positive
<1>1. CASE ~InHeader(p)
  <2>1. \A x \in p..p - 1 : InHeader(x)
    OBVIOUS
  <2>2. Room(p, p) = 0
    BY <2>1, RoomInHeader
  <2> QED
    BY <1>0, <1>1, <2>2
<1>2. CASE InHeader(p)
  <2> DEFINE s == p - (p % Page)
  <2>1. s \in Int /\ s % Page = 0 /\ p % Page \in 0..Page - 1 /\ p = s + (p % Page)
    BY <1>0, PageIs
  <2>2. p % Page < HeaderSize(s)
    BY <1>2 DEF InHeader
  <2> HIDE DEF s
  <2> DEFINE x == s + HeaderSize(s)
  <2>3. HeaderSize(s) \in 1..Page - 1
    BY <2>1, HeaderIs
  <2>4. x \in Int /\ p < x /\ x \in p..p + Page - 1 /\ x \in s + HeaderSize(s)..s + Page - 1
    BY <1>0, <2>1, <2>2, <2>3
  <2>5. ~InHeader(x)
    BY <2>1, <2>4, PageHas
  <2>6. \A y \in p..x - 1 : y \in s..s + HeaderSize(s) - 1
    BY <2>1, <2>3
  <2>7. Room(p, x) = 0
    BY <2>1, <2>4, <2>6, PageHas, RoomInHeader
  <2> HIDE DEF x
  <2> QED
    BY <2>4, <2>5, <2>7
<1> QED
  BY <1>1, <1>2

\* n bytes from p on end somewhere.
LEMMA EndExists ==
  ASSUME NEW p \in Int, NEW n \in Positive
  PROVE  \E q \in p..p + n * Page : Room(p, q) = n /\ ~InHeader(q - 1)
<1> DEFINE Reached(m) == \E q \in p..p + m * Page :
                           Room(p, q) = m /\ (m > 0 => ~InHeader(q - 1))
<1> DEFINE T == {m \in Nat : Reached(m)}
<1>0. Page \in Nat /\ Page > 0
  BY Sized DEF Positive
<1>1. 0 \in T
  <2>1. \A x \in p..p - 1 : InHeader(x)
    OBVIOUS
  <2>2. Room(p, p) = 0
    BY <2>1, RoomInHeader
  <2>3. p \in p..p + 0 * Page
    BY <1>0
  <2> QED
    BY <2>2, <2>3
<1>2. ASSUME NEW m \in T
      PROVE  m + 1 \in T
  <2>1. PICK q \in p..p + m * Page : Room(p, q) = m
    OBVIOUS
  <2>2. m \in Nat /\ m * Page \in Nat /\ (m + 1) * Page = m * Page + Page
    BY <1>0
  <2>3. q \in Int /\ p <= q /\ q <= p + m * Page
    BY <2>1, <2>2
  <2>4. PICK x \in q..q + Page - 1 : ~InHeader(x) /\ Room(q, x) = 0
    BY <2>3, NextData
  <2>5. x \in Int /\ q <= x /\ p <= x /\ x + 1 \in Int /\ p < x + 1 /\ (x + 1) - 1 = x
    BY <2>3, <2>4, <1>0
  <2>6. Room(p, x) = m
    BY <2>1, <2>2, <2>3, <2>4, <2>5, RoomAdds
  <2>7. Room(p, x + 1) = m + 1
    BY <2>4, <2>5, <2>6, RoomTo
  <2>8. x + 1 \in p..p + (m + 1) * Page
    BY <1>0, <2>2, <2>3, <2>4, <2>5
  <2>9. Reached(m + 1)
    BY <2>4, <2>5, <2>7, <2>8
  <2> QED
    BY <2>2, <2>9
<1> HIDE DEF T
<1>3. T \in SUBSET Nat
  BY DEF T
<1>4. T = Nat
  BY <1>1, <1>2, <1>3, Induct
<1>5. Reached(n) /\ n > 0
  BY <1>4 DEF T, Positive
<1> QED
  BY <1>5

\* So a record has one end, which is not in a header.
LEMMA EndIs ==
  ASSUME NEW p \in Int, NEW n \in Positive
  PROVE  /\ End(p, n) \in Int /\ p < End(p, n)
         /\ Room(p, End(p, n)) = n /\ ~InHeader(End(p, n) - 1)
<1>1. /\ End(p, n) \in p..p + n * Page
      /\ Room(p, End(p, n)) = n /\ ~InHeader(End(p, n) - 1)
  BY EndExists DEF End
<1>2. End(p, n) \in Int /\ p <= End(p, n)
  <2>1. p + n * Page \in Int
    BY Sized DEF Positive
  <2> QED
    BY <1>1, <2>1
<1>3. p # End(p, n)
  <2>1. \A x \in p..p - 1 : InHeader(x)
    OBVIOUS
  <2>2. Room(p, p) = 0
    BY <2>1, RoomInHeader
  <2> QED
    BY <1>1, <2>2 DEF Positive
<1> QED
  BY <1>1, <1>2, <1>3

\* Where n bytes have been counted, and the last of them is data, is their end.
LEMMA EndReached ==
  ASSUME NEW p \in Int, NEW n \in Positive, NEW q \in Int, p <= q
  PROVE  /\ q < End(p, n) => Room(p, q) < n
         /\ Room(p, q) < n => q < End(p, n)
         /\ Room(p, q) = n /\ ~InHeader(q - 1) => q = End(p, n)
<1> DEFINE e == End(p, n)
<1>1. e \in Int /\ p < e /\ Room(p, e) = n /\ ~InHeader(e - 1)
  BY EndIs
<1> HIDE DEF e
<1>2. q < e => Room(p, q) < n
  BY <1>1, EndUnique
<1>3. e <= q => n <= Room(p, q)
  BY <1>1, RoomGrows
<1>4. e < q /\ ~InHeader(q - 1) => n < Room(p, q)
  BY <1>1, EndUnique
<1>5. Room(p, q) \in Nat /\ n \in Nat
  BY DataIs DEF Positive
<1>6. /\ q < e => Room(p, q) < n
      /\ Room(p, q) < n => q < e
      /\ Room(p, q) = n /\ ~InHeader(q - 1) => q = e
  BY <1>1, <1>2, <1>3, <1>4, <1>5
<1> QED
  BY <1>6 DEF e

------------------------------------------------------------------------------
\* The WAL as it is laid out.

Placed == {Place(b, n, s) : b \in Int, n \in Sizes, s \in BOOLEAN}

\* A record in its place: what follows it is aligned, and behind a switch a segment begins.
LEMMA PlaceIs ==
  ASSUME NEW b \in Int, NEW n \in Sizes, NEW s \in BOOLEAN
  PROVE  LET r == Place(b, n, s) IN
         /\ r \in Placed
         /\ r.begin = b /\ r.len = n /\ r.switch = s /\ r.end = End(b, n)
         /\ r.end \in Int /\ b < r.end
         /\ Behind(r) \in Int /\ Behind(r) % Align = 0
         /\ r.end <= Behind(r)
         /\ s => Behind(r) % Page = 0 /\ Behind(r) = Up(r.end, Seg)
         /\ ~s => Behind(r) = Up(r.end, Align)
<1> DEFINE r == Place(b, n, s)
<1>0. n \in Positive /\ {Seg, Align, Page} \subseteq Positive /\ Page % Align = 0 /\ Seg % Page = 0
  BY Sized
<1>1. r.begin = b /\ r.len = n /\ r.switch = s /\ r.end = End(b, n) /\ r \in Placed
  BY DEF Place, Placed
<1> HIDE DEF r
<1>2. r.end \in Int /\ b < r.end
  BY <1>0, <1>1, EndIs
<1>3. CASE s
  <2>1. Behind(r) = Up(r.end, Seg)
    BY <1>1, <1>3 DEF Behind
  <2>2. Behind(r) \in Int /\ Behind(r) % Seg = 0 /\ r.end <= Behind(r)
    BY <1>0, <1>2, <2>1, UpIs
  <2>3. Behind(r) % Page = 0
    BY <1>0, <2>2, MultipleOf
  <2>4. Behind(r) % Align = 0
    BY <1>0, <2>2, <2>3, MultipleOf
  <2> QED
    BY <1>1, <1>2, <1>3, <2>1, <2>2, <2>3, <2>4 DEF r
<1>4. CASE ~s
  <2>1. Behind(r) = Up(r.end, Align)
    BY <1>1, <1>4 DEF Behind
  <2>2. Behind(r) \in Int /\ Behind(r) % Align = 0 /\ r.end <= Behind(r)
    BY <1>0, <1>2, <2>1, UpIs
  <2> QED
    BY <1>1, <1>2, <1>4, <2>1, <2>2 DEF r
<1> QED
  BY <1>3, <1>4

\* Where a record begins: at p itself, or behind the header of the page there.
LEMMA BeginIs ==
  ASSUME NEW p \in Int, p % Align = 0
  PROVE  /\ Begin(p) \in Int /\ p <= Begin(p)
         /\ Begin(p) % Align = 0 /\ Begin(p) % Page # 0
         /\ p % Page = 0 => ~InHeader(Begin(p)) /\ Begin(p) = p + HeaderSize(p)
         /\ p % Page # 0 => Begin(p) = p
         /\ \A x \in p..Begin(p) - 1 : InHeader(x)
<1>0. Align \in Positive /\ Page \in Int
  BY Sized DEF Positive
<1>1. HeaderSize(p) \in 1..Page - 1 /\ HeaderSize(p) % Align = 0
  BY HeaderIs
<1>2. CASE p % Page = 0
  <2>1. Begin(p) = p + HeaderSize(p) /\ Begin(p) \in Int
    BY <1>0, <1>1, <1>2 DEF Begin
  <2>2. Begin(p) % Align = 0
    BY <1>0, <1>1, <2>1, Multiples
  <2>3. Begin(p) \in p + HeaderSize(p)..p + Page - 1 /\ Begin(p) \in p + 1..p + Page - 1
    BY <1>0, <1>1, <2>1
  <2>4. ~InHeader(Begin(p)) /\ Begin(p) % Page # 0
    BY <1>2, <2>3, PageHas
  <2>5. \A x \in p..p + HeaderSize(p) - 1 : InHeader(x)
    BY <1>2, PageHas
  <2> QED
    BY <1>0, <1>1, <1>2, <2>1, <2>2, <2>4, <2>5
<1>3. CASE p % Page # 0
  <2>1. Begin(p) = p
    BY <1>3 DEF Begin
  <2> QED
    BY <1>3, <2>1
<1> QED
  BY <1>2, <1>3

\* What Layouts computes of the first m lengths.
Firsts == {<<Place(Long, l, s)>> : l \in Sizes, s \in BOOLEAN}
More(W, n) == {Append(w, Place(Begin(Behind(w[n - 1])), l, s)) : w \in W, l \in Sizes, s \in BOOLEAN}
Step(f, n) == IF n = 1 THEN Firsts ELSE More(f[n - 1], n)
UpTo(f, m) == f = [n \in 1..m |-> Step(f, n)]

\* The layouts of up to m records are a function.
LEMMA LayoutsExist ==
  ASSUME NEW m \in Nat
  PROVE  \E f : UpTo(f, m)
<1> DEFINE T == {i \in Nat : \E f : UpTo(f, i)}
<1>1. 0 \in T
  <2> DEFINE f == [n \in 1..0 |-> {}]
  <2>1. UpTo(f, 0)
    BY DEF UpTo
  <2> QED
    BY <2>1
<1>2. ASSUME NEW i \in T
      PROVE  i + 1 \in T
  <2>1. PICK f : UpTo(f, i)
    BY <1>2
  <2>2. i \in Nat
    OBVIOUS
  <2> DEFINE h == [n \in 1..i + 1 |-> IF n = i + 1 THEN Step(f, i + 1) ELSE f[n]]
  <2>3. ASSUME NEW n \in 1..i + 1
        PROVE  h[n] = Step(h, n)
    <3>1. n # 1 => n - 1 \in 1..i + 1 /\ n - 1 # i + 1
      BY <2>2
    <3>2. n # 1 => h[n - 1] = f[n - 1]
      BY <3>1
    <3>3. Step(h, n) = Step(f, n)
      BY <3>2 DEF Step
    <3>4. CASE n = i + 1
      BY <3>3, <3>4
    <3>5. CASE n # i + 1
      <4>1. n \in 1..i /\ h[n] = f[n]
        BY <3>5, <2>2
      <4>2. f[n] = Step(f, n)
        BY <2>1, <4>1 DEF UpTo
      <4> QED
        BY <4>1, <4>2, <3>3
    <3> QED
      BY <3>4, <3>5
  <2>4. h = [n \in 1..i + 1 |-> h[n]]
    OBVIOUS
  <2> HIDE DEF h
  <2>5. UpTo(h, i + 1)
    BY <2>3, <2>4 DEF UpTo
  <2> QED
    BY <2>2, <2>5
<1> HIDE DEF T
<1>3. T \in SUBSET Nat
  BY DEF T
<1>4. T = Nat
  BY <1>1, <1>2, <1>3, Induct
<1> QED
  BY <1>4 DEF T

\* So the recursion defines it.
LEMMA LayoutsAre == UpTo(Layouts, MaxRecords)
<1>1. MaxRecords \in Nat
  BY Sized DEF Positive
<1>2. \E f : UpTo(f, MaxRecords)
  BY <1>1, LayoutsExist
<1>3. Layouts = CHOOSE f : UpTo(f, MaxRecords)
  BY DEF Layouts, UpTo, Step, Firsts, More
<1> QED
  BY <1>2, <1>3

AfterIn(w, k) == IF k = 0 THEN 0 ELSE Behind(w[k])

LaidTo(w, n) ==
  /\ w \in Seq(Placed) /\ Len(w) = n
  /\ \A k \in 1..n :
       /\ w[k].len \in Sizes /\ w[k].switch \in BOOLEAN
       /\ w[k] = Place(Begin(AfterIn(w, k - 1)), w[k].len, w[k].switch)

\* Each of them has its records one behind the other.
LEMMA LayoutsLaid ==
  ASSUME NEW n \in 1..MaxRecords, NEW w \in Layouts[n]
  PROVE  LaidTo(w, n)
<1> DEFINE T == {m \in Nat : m + 1 <= MaxRecords => \A v \in Layouts[m + 1] : LaidTo(v, m + 1)}
<1>0. MaxRecords \in Nat /\ MaxRecords > 0 /\ \A m \in 1..MaxRecords : Layouts[m] = Step(Layouts, m)
  <2>1. MaxRecords \in Nat /\ MaxRecords > 0
    BY Sized DEF Positive
  <2> QED
    BY <2>1, LayoutsAre DEF UpTo
<1>1. 0 \in T
  <2>1. ASSUME NEW v \in Layouts[1]
        PROVE  LaidTo(v, 1)
    <3>1. Layouts[1] = Firsts
      BY <1>0 DEF Step
    <3>2. PICK l \in Sizes, s \in BOOLEAN : v = <<Place(Long, l, s)>>
      BY <3>1, <2>1 DEF Firsts
    <3>3. Long \in Int /\ Begin(0) = Long
      <4>1. 0 % Page = 0
        <5>1. Page \in Positive /\ 0 \in Int /\ 0 = Page * 0
          BY Sized DEF Positive
        <5>2. \E q \in Int : 0 = Page * q
          BY <5>1
        <5> QED
          BY <5>1, <5>2, MultipleIs
      <4>2. 0 % Seg = 0
        <5>1. Seg \in Positive /\ 0 \in Int /\ 0 = Seg * 0
          BY Sized DEF Positive
        <5>2. \E q \in Int : 0 = Seg * q
          BY <5>1
        <5> QED
          BY <5>1, <5>2, MultipleIs
      <4> QED
        BY <4>1, <4>2, Sized DEF Begin, HeaderSize, Positive
    <3> DEFINE r == Place(Long, l, s)
    <3>4. r \in Placed /\ r.len = l /\ r.switch = s
      BY <3>3, PlaceIs
    <3>5. AfterIn(v, 1 - 1) = 0
      BY DEF AfterIn
    <3>6. r = Place(Begin(0), r.len, r.switch)
      BY <3>3, <3>4
    <3> HIDE DEF r
    <3>7. v = <<r>>
      BY <3>2 DEF r
    <3>8. v \in Seq(Placed) /\ Len(v) = 1 /\ v[1] = r
      BY <3>4, <3>7
    <3> QED
      BY <3>4, <3>5, <3>6, <3>8 DEF LaidTo
  <2> QED
    BY <2>1
<1>2. ASSUME NEW m \in T
      PROVE  m + 1 \in T
  <2>1. SUFFICES ASSUME (m + 1) + 1 <= MaxRecords, NEW v \in Layouts[(m + 1) + 1]
                 PROVE  LaidTo(v, (m + 1) + 1)
    OBVIOUS
  <2> DEFINE i == m + 1
  <2>2. m \in Nat /\ i \in Nat /\ i > 0 /\ i + 1 \in 1..MaxRecords /\ (i + 1) - 1 = i /\ i + 1 # 1
    BY <1>0, <2>1
  <2>3. \A u \in Layouts[i] : LaidTo(u, i)
    BY <1>0, <2>1, <2>2
  <2> HIDE DEF i, T
  <2>4. v \in More(Layouts[i], i + 1)
    BY <1>0, <2>1, <2>2 DEF Step, i
  <2>5. PICK u \in Layouts[i], l \in Sizes, s \in BOOLEAN :
             v = Append(u, Place(Begin(Behind(u[i])), l, s))
    BY <2>4, <2>2 DEF More
  <2>6. LaidTo(u, i)
    BY <2>3
  <2> DEFINE b == Begin(Behind(u[i]))
  <2> DEFINE r == Place(b, l, s)
  <2>7. u[i] \in Placed
    BY <2>2, <2>6 DEF LaidTo
  <2>8. Behind(u[i]) \in Int /\ Behind(u[i]) % Align = 0
    <3>1. PICK c \in Int, n1 \in Sizes, s1 \in BOOLEAN : u[i] = Place(c, n1, s1)
      BY <2>7 DEF Placed
    <3>2. Behind(Place(c, n1, s1)) \in Int /\ Behind(Place(c, n1, s1)) % Align = 0
      BY PlaceIs
    <3> QED
      BY <3>1, <3>2
  <2>9. b \in Int
    BY <2>8, BeginIs
  <2> HIDE DEF b
  <2>10. r \in Placed /\ r.len = l /\ r.switch = s
    BY <2>9, PlaceIs
  <2>11. r = Place(b, r.len, r.switch)
    BY <2>10
  <2> HIDE DEF r
  <2>12. v = Append(u, r)
    BY <2>5 DEF r, b
  <2>13. u \in Seq(Placed) /\ Len(u) = i
    BY <2>6 DEF LaidTo
  <2>14. /\ v \in Seq(Placed) /\ Len(v) = i + 1 /\ v[i + 1] = r
         /\ \A k \in 1..i : v[k] = u[k]
    BY <2>2, <2>10, <2>12, <2>13
  <2>15. ASSUME NEW k \in 1..i + 1
         PROVE  /\ v[k].len \in Sizes /\ v[k].switch \in BOOLEAN
                /\ v[k] = Place(Begin(AfterIn(v, k - 1)), v[k].len, v[k].switch)
    <3>1. k - 1 # 0 => k - 1 \in 1..i
      BY <2>2
    <3>2. AfterIn(v, k - 1) = AfterIn(u, k - 1)
      BY <3>1, <2>14 DEF AfterIn
    <3>3. CASE k = i + 1
      <4>1. AfterIn(u, k - 1) = Behind(u[i])
        BY <3>3, <2>2 DEF AfterIn
      <4> QED
        BY <3>2, <3>3, <4>1, <2>10, <2>11, <2>14 DEF b
    <3>4. CASE k # i + 1
      <4>1. k \in 1..i
        BY <3>4, <2>2
      <4> QED
        BY <4>1, <3>2, <2>6, <2>14 DEF LaidTo
    <3> QED
      BY <3>3, <3>4
  <2> QED
    BY <2>14, <2>15 DEF LaidTo, i
<1> HIDE DEF T
<1>3. T \in SUBSET Nat
  BY DEF T
<1>4. T = Nat
  BY <1>1, <1>2, <1>3, Induct
<1>5. n - 1 \in Nat /\ (n - 1) + 1 = n /\ n <= MaxRecords
  BY <1>0
<1> QED
  BY <1>4, <1>5 DEF T

------------------------------------------------------------------------------
\* The records of the WAL, their places and their order.

\* Zero is a multiple of everything.
LEMMA ZeroIs == \A n \in Positive : 0 % n = 0
<1> SUFFICES ASSUME NEW n \in Positive
             PROVE  0 % n = 0
  OBVIOUS
<1>1. 0 \in Int /\ 0 = n * 0
  BY DEF Positive
<1>2. \E q \in Int : 0 = n * q
  BY <1>1
<1> QED
  BY <1>1, <1>2, MultipleIs

\* The WAL has as many records as its layout.
LEMMA Count ==
  ASSUME Laid
  PROVE  Len(wal) \in Nat /\ Len(wal) > 0 /\ DOMAIN wal = 1..Len(wal)
BY Sized DEF Laid, Positive

\* A record whose place is known.
LEMMA PlaceOf ==
  ASSUME Laid, NEW k \in 1..Len(wal), After(k - 1) \in Int, After(k - 1) % Align = 0
  PROVE  /\ wal[k].len \in Sizes /\ wal[k].switch \in BOOLEAN
         /\ wal[k].begin = Begin(After(k - 1)) /\ wal[k].begin \in Int
         /\ wal[k].end = End(wal[k].begin, wal[k].len) /\ wal[k].end \in Int
         /\ wal[k].begin < wal[k].end
         /\ After(k) \in Int /\ After(k) % Align = 0 /\ wal[k].end <= After(k)
         /\ wal[k].switch => After(k) % Page = 0 /\ After(k) = Up(wal[k].end, Seg)
         /\ ~wal[k].switch => After(k) = Up(wal[k].end, Align)
<1>1. k \in DOMAIN wal /\ k # 0
  BY Count
<1>2. /\ wal[k].len \in Sizes /\ wal[k].switch \in BOOLEAN
      /\ wal[k] = Place(Begin(After(k - 1)), wal[k].len, wal[k].switch)
  BY <1>1 DEF Laid
<1>3. Begin(After(k - 1)) \in Int
  BY BeginIs
<1>4. After(k) = Behind(wal[k])
  BY <1>1 DEF After
<1>5. PICK b \in Int : b = Begin(After(k - 1))
  BY <1>3
<1>6. PICK n \in Sizes : n = wal[k].len
  BY <1>2
<1>7. PICK s \in BOOLEAN : s = wal[k].switch
  BY <1>2
<1>8. wal[k] = Place(b, n, s)
  BY <1>2, <1>5, <1>6, <1>7
<1> DEFINE r == Place(b, n, s)
<1>9. /\ r.begin = b /\ r.end = End(b, n)
      /\ r.end \in Int /\ b < r.end
      /\ Behind(r) \in Int /\ Behind(r) % Align = 0
      /\ r.end <= Behind(r)
  BY PlaceIs
<1>10. s => Behind(r) % Page = 0 /\ Behind(r) = Up(r.end, Seg)
  BY PlaceIs
<1>11. ~s => Behind(r) = Up(r.end, Align)
  BY PlaceIs
<1> HIDE DEF r
<1>12. wal[k] = r
  BY <1>8 DEF r
<1> QED
  BY <1>2, <1>4, <1>5, <1>6, <1>7, <1>9, <1>10, <1>11, <1>12

\* What follows the first k records is aligned.
LEMMA AfterIs ==
  ASSUME Laid, NEW k \in 0..Len(wal)
  PROVE  After(k) \in Int /\ After(k) % Align = 0
<1> DEFINE T == {i \in Nat : i <= Len(wal) => After(i) \in Int /\ After(i) % Align = 0}
<1>0. Len(wal) \in Nat
  BY Count
<1>1. 0 \in T
  BY ZeroIs, Sized DEF After
<1>2. ASSUME NEW i \in T
      PROVE  i + 1 \in T
  <2>1. SUFFICES ASSUME i + 1 <= Len(wal)
                 PROVE  After(i + 1) \in Int /\ After(i + 1) % Align = 0
    OBVIOUS
  <2>2. i + 1 \in 1..Len(wal) /\ (i + 1) - 1 = i /\ i <= Len(wal)
    BY <1>0, <2>1
  <2>3. After(i) \in Int /\ After(i) % Align = 0
    BY <2>2
  <2> HIDE DEF T
  <2> QED
    BY <2>2, <2>3, PlaceOf
<1> HIDE DEF T
<1>3. T \in SUBSET Nat
  BY DEF T
<1>4. T = Nat
  BY <1>1, <1>2, <1>3, Induct
<1> QED
  BY <1>0, <1>4 DEF T

\* A record, and what lies between the one before it and its beginning: a header, or nothing.
LEMMA RecordIs ==
  ASSUME Laid, NEW k \in 1..Len(wal)
  PROVE  /\ wal[k].len \in Sizes /\ wal[k].switch \in BOOLEAN
         /\ wal[k].begin = Begin(After(k - 1)) /\ wal[k].begin \in Int
         /\ wal[k].end = End(wal[k].begin, wal[k].len) /\ wal[k].end \in Int
         /\ wal[k].begin < wal[k].end
         /\ After(k) \in Int /\ wal[k].end <= After(k)
         /\ wal[k].switch => After(k) % Page = 0 /\ After(k) = Up(wal[k].end, Seg)
         /\ ~wal[k].switch => After(k) = Up(wal[k].end, Align)
         /\ After(k - 1) \in Int /\ After(k - 1) <= wal[k].begin
         /\ wal[k].begin % Align = 0 /\ wal[k].begin % Page # 0
         /\ \A x \in After(k - 1)..wal[k].begin - 1 : InHeader(x)
<1>1. k - 1 \in 0..Len(wal)
  BY Count
<1>2. After(k - 1) \in Int /\ After(k - 1) % Align = 0
  BY <1>1, AfterIs
<1>3. PICK p \in Int : p = After(k - 1)
  BY <1>2
<1>4. /\ p <= Begin(p) /\ Begin(p) % Align = 0 /\ Begin(p) % Page # 0
      /\ \A x \in p..Begin(p) - 1 : InHeader(x)
  BY <1>2, <1>3, BeginIs
<1>5. /\ wal[k].len \in Sizes /\ wal[k].switch \in BOOLEAN
      /\ wal[k].begin = Begin(After(k - 1)) /\ wal[k].begin \in Int
      /\ wal[k].end = End(wal[k].begin, wal[k].len) /\ wal[k].end \in Int
      /\ wal[k].begin < wal[k].end
      /\ After(k) \in Int /\ After(k) % Align = 0 /\ wal[k].end <= After(k)
      /\ wal[k].switch => After(k) % Page = 0 /\ After(k) = Up(wal[k].end, Seg)
      /\ ~wal[k].switch => After(k) = Up(wal[k].end, Align)
  BY <1>2, PlaceOf
<1> QED
  BY <1>2, <1>3, <1>4, <1>5

\* The records follow each other.
LEMMA InOrder ==
  ASSUME Laid, NEW j \in 0..Len(wal), NEW k \in 0..Len(wal), j <= k
  PROVE  After(j) <= After(k)
<1> DEFINE T == {i \in Nat : j <= i /\ i <= Len(wal) => After(j) <= After(i)}
<1>0. Len(wal) \in Nat
  BY Count
<1>1. 0 \in T
  <2>1. j <= 0 => j = 0
    BY <1>0
  <2> QED
    BY <2>1, <1>0, AfterIs
<1>2. ASSUME NEW i \in T
      PROVE  i + 1 \in T
  <2>1. SUFFICES ASSUME j <= i + 1, i + 1 <= Len(wal)
                 PROVE  After(j) <= After(i + 1)
    OBVIOUS
  <2>2. i + 1 \in 1..Len(wal) /\ (i + 1) - 1 = i /\ i \in 0..Len(wal) /\ i + 1 \in 0..Len(wal)
    BY <1>0, <2>1
  <2>3. After(j) \in Int /\ After(i) \in Int /\ After(i + 1) \in Int
    BY <2>2, AfterIs
  <2>4. CASE j = i + 1
    BY <2>3, <2>4
  <2>5. CASE j <= i
    <3>1. After(j) <= After(i)
      BY <2>2, <2>5
    <3> HIDE DEF T
    <3>2. After(i) <= wal[i + 1].begin /\ wal[i + 1].begin < wal[i + 1].end
          /\ wal[i + 1].end <= After(i + 1) /\ wal[i + 1].begin \in Int /\ wal[i + 1].end \in Int
      BY <2>2, RecordIs
    <3> QED
      BY <2>3, <3>1, <3>2
  <2> QED
    BY <1>0, <2>1, <2>2, <2>4, <2>5
<1> HIDE DEF T
<1>3. T \in SUBSET Nat
  BY DEF T
<1>4. T = Nat
  BY <1>1, <1>2, <1>3, Induct
<1> QED
  BY <1>0, <1>4 DEF T

\* A record ends before a later one begins.
LEMMA Follows ==
  ASSUME Laid, NEW j \in 1..Len(wal), NEW k \in 1..Len(wal), j < k
  PROVE  wal[j].end <= wal[k].begin /\ wal[j].begin < wal[k].begin /\ wal[j].end < wal[k].end
<1>0. Len(wal) \in Nat
  BY Count
<1>1. j \in 0..Len(wal) /\ k - 1 \in 0..Len(wal) /\ j <= k - 1
  BY <1>0
<1>2. After(j) <= After(k - 1)
  BY <1>1, InOrder
<1>3. /\ wal[j].begin \in Int /\ wal[j].end \in Int /\ After(j) \in Int
      /\ wal[j].begin < wal[j].end /\ wal[j].end <= After(j)
  BY RecordIs
<1>4. /\ wal[k].begin \in Int /\ wal[k].end \in Int /\ After(k - 1) \in Int
      /\ After(k - 1) <= wal[k].begin /\ wal[k].begin < wal[k].end
  BY RecordIs
<1> QED
  BY <1>2, <1>3, <1>4

------------------------------------------------------------------------------
\* Where the walker stands.

\* k records end before pos, and the next one does not.
Passed(k) ==
  /\ k > 0 => wal[k].end <= pos
  /\ k < Len(wal) => pos < wal[k + 1].end

\* The watermark divides the records into history and news.
LEMMA FirstIs ==
  ASSUME Laid, emitFrom \in {wal[k].begin : k \in DOMAIN wal}
  PROVE  /\ First \in 1..Len(wal) /\ wal[First].begin = emitFrom /\ emitFrom \in Int
         /\ \A k \in 1..Len(wal) : wal[k].begin < emitFrom <=> k < First
<1>1. /\ First \in 1..Len(wal) /\ wal[First].begin = emitFrom
  <2>1. \E k \in DOMAIN wal : wal[k].begin = emitFrom
    OBVIOUS
  <2> QED
    BY <2>1, Count DEF First
<1>2. emitFrom \in Int
  BY <1>1, RecordIs
<1>3. ASSUME NEW k \in 1..Len(wal)
      PROVE  wal[k].begin < emitFrom <=> k < First
  <2>1. wal[k].begin \in Int /\ Len(wal) \in Nat
    BY RecordIs, Count
  <2>2. k < First => wal[k].begin < wal[First].begin
    BY <1>1, Follows
  <2>3. First < k => wal[First].begin < wal[k].begin
    BY <1>1, Follows
  <2> QED
    BY <1>1, <1>2, <2>1, <2>2, <2>3
<1> QED
  BY <1>1, <1>2, <1>3

\* Wherever the walker stands, k records end before it and the next one behind it.
LEMMA StandsPassed ==
  ASSUME Laid, pos \in Int, NEW k \in 0..Len(wal), Stands(k)
  PROVE  Passed(k)
<1>0. Len(wal) \in Nat
  BY Count
<1>1. CASE Attaching(k)
  BY <1>1 DEF Attaching, Passed
<1>2. ASSUME k > 0
      PROVE  wal[k].end \in Int /\ After(k) \in Int /\ wal[k].end <= After(k)
  <2>1. k \in 1..Len(wal)
    BY <1>0, <1>2
  <2> QED
    BY <2>1, RecordIs
<1>3. ASSUME k < Len(wal)
      PROVE  /\ k + 1 \in 1..Len(wal) /\ (k + 1) - 1 = k
             /\ wal[k + 1].begin \in Int /\ wal[k + 1].end \in Int /\ wal[k + 1].len \in Positive
             /\ wal[k + 1].begin < wal[k + 1].end
             /\ wal[k + 1].end = End(wal[k + 1].begin, wal[k + 1].len)
             /\ After(k) \in Int /\ After(k) <= wal[k + 1].begin
             /\ wal[k + 1].begin = Begin(After(k))
  <2>1. k + 1 \in 1..Len(wal) /\ (k + 1) - 1 = k
    BY <1>0, <1>3
  <2> QED
    BY <2>1, RecordIs, Sized
<1>4. CASE InTail(k)
  <2>1. k < Len(wal)
    BY <1>4 DEF InTail
  <2> DEFINE b == wal[k + 1].begin
  <2> DEFINE n == wal[k + 1].len
  <2>2. b < pos /\ Room(b, pos) < n
    <3>1. b < pos /\ skip > 0 /\ skip = n - Room(b, pos)
      BY <1>4 DEF InTail
    <3>2. Room(b, pos) \in Nat /\ n \in Nat
      BY <1>3, <2>1, DataIs DEF Positive
    <3> QED
      BY <3>1, <3>2
  <2>3. pos < wal[k + 1].end
    BY <1>3, <2>1, <2>2, EndReached
  <2> QED
    BY <1>2, <1>3, <2>1, <2>2, <2>3 DEF Passed
<1>5. CASE Reading(k)
  <2>1. k < Len(wal)
    BY <1>5 DEF Reading
  <2> DEFINE b == wal[k + 1].begin
  <2> DEFINE n == wal[k + 1].len
  <2>2. b <= pos /\ Room(b, pos) < n
    <3>1. b <= pos /\ (Room(b, pos) < LenField \/ Room(b, pos) \in LenField..n - 1)
      BY <1>5 DEF Reading
    <3>2. Room(b, pos) \in Nat /\ n \in Nat /\ n > LenField /\ LenField \in Nat
      <4>1. wal[k + 1].len \in Sizes
        BY <1>3, <2>1, RecordIs
      <4> QED
        BY <1>3, <2>1, <4>1, DataIs, Sized DEF Positive
    <3> QED
      BY <3>1, <3>2
  <2>3. pos < wal[k + 1].end
    BY <1>3, <2>1, <2>2, EndReached
  <2> QED
    BY <1>2, <1>3, <2>1, <2>2, <2>3 DEF Passed
<1>6. CASE InPadding(k)
  <2>1. k > 0 /\ wal[k].end <= pos /\ skip \in Nat /\ pos + skip = After(k)
    BY <1>6, Sized DEF InPadding, Positive
  <2> QED
    BY <1>2, <1>3, <2>1 DEF Passed
<1>7. CASE InFill(k)
  <2>1. k > 0 /\ wal[k].end <= pos /\ rawSkip \in Nat /\ pos + rawSkip = After(k)
    BY <1>7, Sized DEF InFill, Positive
  <2>2. pos <= After(k)
    <3>1. After(k) \in Int
      BY <1>2, <2>1
    <3> QED
      BY <2>1, <3>1
  <2> QED
    BY <1>2, <1>3, <2>1, <2>2 DEF Passed
<1>8. CASE Between(k)
  <2>0. After(k) \in Int /\ After(k) % Align = 0
    BY AfterIs
  <2>1. After(k) <= Begin(After(k))
    BY <2>0, BeginIs
  <2>2. CASE k > 0 /\ pos = wal[k].end
    BY <1>2, <1>3, <2>2 DEF Passed
  <2>3. CASE pos \in {After(k), Begin(After(k))}
    <3>1. After(k) <= pos
      BY <2>0, <2>1, <2>3
    <3>2. k < Len(wal) => pos <= wal[k + 1].begin
      BY <1>3, <2>0, <2>3
    <3> QED
      BY <1>2, <1>3, <2>0, <3>1, <3>2 DEF Passed
  <2> QED
    BY <1>8, <2>2, <2>3 DEF Between
<1> QED
  BY <1>1, <1>4, <1>5, <1>6, <1>7, <1>8 DEF Stands

\* At most one record is open where the walker stands.
LEMMA OneOpen ==
  ASSUME Laid, pos \in Int, NEW k \in 0..Len(wal), Passed(k)
  PROVE  /\ k < Len(wal) /\ wal[k + 1].begin < pos =>
              RemLen(pos) = wal[k + 1].len - Room(wal[k + 1].begin, pos)
         /\ ~(k < Len(wal) /\ wal[k + 1].begin < pos) => RemLen(pos) = 0
<1>0. Len(wal) \in Nat /\ DOMAIN wal = 1..Len(wal)
  BY Count
<1> DEFINE open == {r \in Range(wal) : r.begin < pos /\ pos < r.end}
<1>1. ASSUME NEW j \in 1..Len(wal), wal[j].begin < pos, pos < wal[j].end
      PROVE  k < Len(wal) /\ j = k + 1
  <2>1. wal[j].begin \in Int /\ wal[j].end \in Int
    BY RecordIs
  <2>2. ASSUME j <= k
        PROVE  FALSE
    <3>1. k \in 1..Len(wal) /\ k > 0
      BY <1>0, <2>2
    <3>2. wal[k].end \in Int /\ wal[k].end <= pos
      BY <3>1, RecordIs DEF Passed
    <3>3. j < k => wal[j].end < wal[k].end
      BY <3>1, Follows
    <3> QED
      BY <1>1, <2>1, <2>2, <3>1, <3>2, <3>3
  <2>3. ASSUME k + 1 < j
        PROVE  FALSE
    <3>1. k + 1 \in 1..Len(wal) /\ k < Len(wal)
      BY <1>0, <2>3
    <3>2. wal[k + 1].end \in Int /\ pos < wal[k + 1].end
      BY <3>1, RecordIs DEF Passed
    <3>3. wal[k + 1].end <= wal[j].begin
      BY <3>1, <2>3, Follows
    <3> QED
      BY <1>1, <2>1, <3>2, <3>3
  <2> QED
    BY <1>0, <2>2, <2>3
<1>2. ASSUME k < Len(wal), wal[k + 1].begin < pos
      PROVE  open = {wal[k + 1]}
  <2>1. k + 1 \in 1..Len(wal) /\ pos < wal[k + 1].end
    BY <1>0, <1>2 DEF Passed
  <2>2. wal[k + 1] \in Range(wal)
    BY <1>0, <2>1 DEF Range
  <2>3. \A r \in open : r = wal[k + 1]
    BY <1>0, <1>1 DEF Range
  <2> QED
    BY <1>2, <2>1, <2>2, <2>3
<1>3. ASSUME ~(k < Len(wal) /\ wal[k + 1].begin < pos)
      PROVE  open = {}
  BY <1>0, <1>1, <1>3 DEF Range
<1> HIDE DEF open
<1>4. RemLen(pos) = IF open = {} THEN 0
                    ELSE LET r == CHOOSE r \in open : TRUE IN r.len - Room(r.begin, pos)
  BY DEF RemLen, open
<1> QED
  BY <1>2, <1>3, <1>4

\* Zeros are met only behind a switch.
LEMMA NoZeros ==
  ASSUME Laid, pos \in Int, NEW k \in 0..Len(wal), Passed(k), Zeros(pos)
  PROVE  /\ k > 0 /\ wal[k].switch /\ pos < After(k)
         /\ InSwitch(pos)
<1>0. Len(wal) \in Nat /\ DOMAIN wal = 1..Len(wal)
  BY Count
<1>1. PICK j \in 1..Len(wal) : wal[j].switch /\ pos \in wal[j].end..Behind(wal[j]) - 1
  BY <1>0 DEF Zeros, Range
<1>2. After(j) = Behind(wal[j])
  BY <1>1 DEF After
<1>3. /\ wal[j].begin \in Int /\ wal[j].end \in Int /\ After(j) \in Int
      /\ wal[j].begin < wal[j].end
  BY RecordIs
<1>4. wal[j].end <= pos /\ pos < After(j)
  BY <1>1, <1>2, <1>3
<1>5. j <= k
  <2>1. SUFFICES ASSUME k < j
                 PROVE  FALSE
    BY <1>0
  <2>2. k + 1 \in 1..Len(wal) /\ k < Len(wal)
    BY <1>0, <2>1
  <2>3. wal[k + 1].end \in Int /\ pos < wal[k + 1].end
    BY <2>2, RecordIs DEF Passed
  <2>4. k + 1 < j => wal[k + 1].end < wal[j].end
    BY <2>2, Follows
  <2> QED
    BY <1>0, <1>3, <1>4, <2>1, <2>3, <2>4
<1>6. j = k
  <2>1. SUFFICES ASSUME j < k
                 PROVE  FALSE
    BY <1>0, <1>5
  <2>2. k \in 1..Len(wal) /\ k > 0 /\ k - 1 \in 0..Len(wal) /\ j <= k - 1 /\ j \in 0..Len(wal)
    BY <1>0, <2>1
  <2>3. After(j) <= After(k - 1)
    BY <2>2, InOrder
  <2>4. /\ After(k - 1) \in Int /\ After(k - 1) <= wal[k].begin /\ wal[k].begin < wal[k].end
        /\ wal[k].begin \in Int /\ wal[k].end \in Int
    BY <2>2, RecordIs
  <2>5. wal[k].end <= pos
    BY <2>2 DEF Passed
  <2> QED
    BY <1>3, <1>4, <2>3, <2>4, <2>5
<1>7. InSwitch(pos)
  <2>1. wal[j] \in Range(wal)
    BY <1>0 DEF Range
  <2>2. wal[j].begin < pos /\ pos < Behind(wal[j])
    BY <1>2, <1>3, <1>4
  <2> QED
    BY <1>1, <2>1, <2>2 DEF InSwitch
<1> QED
  BY <1>1, <1>4, <1>6, <1>7

\* A byte of a record.
LEMMA ByteIs ==
  ASSUME Laid, NEW j \in 1..Len(wal), NEW x \in Int,
         wal[j].begin <= x, x < wal[j].end, ~InHeader(x)
  PROVE  ByteAt(x) = <<j, Room(wal[j].begin, x) + 1>>
<1>0. Len(wal) \in Nat /\ DOMAIN wal = 1..Len(wal)
  BY Count
<1> DEFINE there == {k \in DOMAIN wal : x \in wal[k].begin..wal[k].end - 1}
<1>1. wal[j].begin \in Int /\ wal[j].end \in Int
  BY RecordIs
<1>2. j \in there
  BY <1>0, <1>1
<1>3. ASSUME NEW k \in there
      PROVE  k = j
  <2>1. k \in 1..Len(wal)
    BY <1>0
  <2>2. wal[k].begin \in Int /\ wal[k].end \in Int
    BY <2>1, RecordIs
  <2>3. wal[k].begin <= x /\ x < wal[k].end
    BY <2>2
  <2>4. k < j => wal[k].end <= wal[j].begin
    BY <2>1, Follows
  <2>5. j < k => wal[j].end <= wal[k].begin
    BY <2>1, Follows
  <2> QED
    BY <1>0, <1>1, <2>1, <2>2, <2>3, <2>4, <2>5
<1> HIDE DEF there
<1>4. RecordAt(x) = IF there = {} \/ InHeader(x) THEN 0 ELSE CHOOSE k \in there : TRUE
  BY DEF RecordAt, there
<1>5. RecordAt(x) = j
  BY <1>2, <1>3, <1>4
<1>6. j # 0
  OBVIOUS
<1> QED
  BY <1>5, <1>6 DEF ByteAt

------------------------------------------------------------------------------
\* What the steps of the walker have in common.

\* No step moves a record or the watermark.
LEMMA Kept ==
  ASSUME wal' = wal, emitFrom' = emitFrom
  PROVE  /\ Written' = Written /\ First' = First /\ Laid' = Laid
         /\ \A k : After(k)' = After(k)
         /\ \A k : Returned(k)' = Returned(k)
         /\ \A k : Bytes(k)' = Bytes(k)
         /\ \A p : InSwitch(p)' = InSwitch(p)
<1>1. Written' = Written
  BY DEF Written
<1>2. First' = First
  BY DEF First
<1>3. \A k : After(k)' = After(k)
  BY DEF After
<1>4. Laid' = Laid
  BY DEF Laid, After
<1>5. \A k : Bytes(k)' = Bytes(k)
  BY DEF Bytes
<1>6. \A k : Returned(k)' = Returned(k)
  BY <1>2, <1>5 DEF Returned
<1>7. \A p : InSwitch(p)' = InSwitch(p)
  BY DEF InSwitch
<1> QED
  BY <1>1, <1>2, <1>3, <1>4, <1>5, <1>6, <1>7

\* What a step has to show.
LEMMA Resumes ==
  ASSUME WalkerIInv, wal' = wal, emitFrom' = emitFrom,
         sent' \in 0..Written, pos' \in 0..sent', ~failed', OffHeaders',
         NEW j \in 0..Len(wal), Stands(j)', events' = Returned(j)
  PROVE  WalkerIInv'
<1>1. Laid' /\ Written' = Written
  BY Kept DEF WalkerIInv
<1>2. (emitFrom \in {wal[k].begin : k \in DOMAIN wal})'
  BY DEF WalkerIInv
<1>3. (\E k \in 0..Len(wal) : Stands(k) /\ events = Returned(k))'
  BY Kept
<1> QED
  BY <1>1, <1>2, <1>3 DEF WalkerIInv, NeverDesyncs

\* The record ahead of a place that k records are behind of.
LEMMA Ahead ==
  ASSUME Laid, NEW k \in 0..Len(wal), k < Len(wal)
  PROVE  /\ k + 1 \in 1..Len(wal) /\ k + 1 \in 0..Len(wal)
         /\ wal[k + 1].begin \in Int /\ wal[k + 1].end \in Int
         /\ wal[k + 1].len \in Positive /\ wal[k + 1].len > LenField
         /\ wal[k + 1].switch \in BOOLEAN
         /\ wal[k + 1].begin < wal[k + 1].end
         /\ wal[k + 1].end = End(wal[k + 1].begin, wal[k + 1].len)
         /\ After(k) \in Int /\ After(k) <= wal[k + 1].begin
         /\ wal[k + 1].begin = Begin(After(k)) /\ wal[k + 1].begin % Page # 0
<1>1. k + 1 \in 1..Len(wal) /\ k + 1 \in 0..Len(wal) /\ (k + 1) - 1 = k
  BY Count
<1> QED
  BY <1>1, RecordIs, Sized

\* What the invariant says of any place to stand.
LEMMA Standing ==
  ASSUME WalkerIInv, NEW k \in 0..Len(wal), Stands(k)
  PROVE  /\ Laid /\ Passed(k) /\ Len(wal) \in Nat
         /\ pos \in Nat /\ sent \in Nat /\ pos <= sent /\ ~failed
         /\ Written = After(Len(wal)) /\ Written \in Int /\ sent <= Written
<1>1. Laid
  BY DEF WalkerIInv
<1>2. Len(wal) \in Nat /\ Len(wal) > 0 /\ Len(wal) \in 0..Len(wal)
  BY <1>1, Count
<1>3. Written = After(Len(wal)) /\ Written \in Int
  BY <1>1, <1>2, AfterIs DEF Written, After
<1>4. sent \in 0..Written /\ pos \in 0..sent /\ ~failed
  BY DEF WalkerIInv, NeverDesyncs
<1> QED
  BY <1>1, <1>2, <1>3, <1>4, StandsPassed

\* What is ahead of the walker on its page.
LEMMA Forward ==
  ASSUME NEW p \in Int, p % Page # 0, ~InHeader(p), NEW n \in 1..(Page - (p % Page))
  PROVE  /\ \A x \in p..p + n - 1 : ~InHeader(x) /\ x % Page # 0
         /\ \A b \in Int : b <= p => Room(b, p + n) = Room(b, p) + n
         /\ ~InHeader(p + n - 1)
         /\ InHeader(p + n) => (p + n) % Page = 0
         /\ n < Page - (p % Page) => (p + n) % Page # 0
<1> DEFINE rest == Page - (p % Page)
<1>1. /\ rest \in 1..Page - 1
      /\ \A x \in p..p + rest - 1 : ~InHeader(x) /\ x % Page # 0
      /\ (p + rest) % Page = 0
  BY PageRest
<1>2. rest \in Int /\ n \in 1..rest
  BY <1>1, Sized DEF Positive
<1> HIDE DEF rest
<1>3. \A x \in p..p + n - 1 : ~InHeader(x) /\ x % Page # 0
  BY <1>1, <1>2
<1>4. ASSUME NEW b \in Int, b <= p
      PROVE  Room(b, p + n) = Room(b, p) + n
  <2>1. p + n \in Int /\ p <= p + n /\ \A x \in p..(p + n) - 1 : ~InHeader(x)
    BY <1>2, <1>3
  <2>2. Room(p, p + n) = n
    BY <2>1, <1>2, RoomInData
  <2> QED
    BY <1>4, <2>1, <2>2, RoomAdds
<1>5. ~InHeader(p + n - 1)
  BY <1>2, <1>3
<1>6. n < rest => p + n \in p..p + rest - 1
  BY <1>2
<1>7. n = rest \/ n < rest
  BY <1>2
<1> QED
  BY <1>1, <1>3, <1>4, <1>5, <1>6, <1>7 DEF rest

\* Up leaves a multiple where it is.
LEMMA UpStays ==
  ASSUME NEW n \in Positive, NEW p \in Int, p % n = 0
  PROVE  Up(p, n) = p
<1>1. /\ Up(p, n) \in Int /\ Up(p, n) % n = 0
      /\ p <= Up(p, n) /\ Up(p, n) < p + n
  BY UpIs
<1>2. p < Up(p, n) => p + n <= Up(p, n)
  BY <1>1, Multiples
<1> QED
  BY <1>1, <1>2 DEF Positive

\* The walker at a page boundary short of what follows the records behind it is in a
\* switch.
LEMMA AtPage ==
  ASSUME Laid, pos \in Nat, pos % Page = 0, NEW k \in 0..Len(wal), Passed(k), pos < After(k)
  PROVE  InSwitch(pos)
<1>0. Len(wal) \in Nat /\ DOMAIN wal = 1..Len(wal)
  BY Count
<1>1. k > 0
  BY <1>0 DEF After
<1>2. k \in 1..Len(wal)
  BY <1>0, <1>1
<1>3. /\ wal[k].begin \in Int /\ wal[k].end \in Int /\ wal[k].begin < wal[k].end
      /\ wal[k].switch \in BOOLEAN /\ After(k) \in Int
      /\ ~wal[k].switch => After(k) = Up(wal[k].end, Align)
  BY <1>2, RecordIs
<1>4. wal[k].end <= pos
  BY <1>1 DEF Passed
<1>5. wal[k].switch
  <2>1. SUFFICES ASSUME ~wal[k].switch
                 PROVE  FALSE
    OBVIOUS
  <2>2. Align \in Positive /\ Page \in Positive /\ Page % Align = 0 /\ Align \in Int
    BY Sized DEF Positive
  <2>3. pos % Align = 0
    BY <2>2, MultipleOf
  <2>4. After(k) % Align = 0 /\ After(k) < wal[k].end + Align
    BY <1>3, <2>1, <2>2, UpIs
  <2>5. pos + Align <= After(k)
    BY <1>3, <2>2, <2>3, <2>4, Multiples
  <2> QED
    BY <1>3, <1>4, <2>2, <2>4, <2>5
<1>6. wal[k] \in Range(wal) /\ After(k) = Behind(wal[k])
  BY <1>0, <1>1, <1>2 DEF Range, After
<1> QED
  BY <1>3, <1>4, <1>5, <1>6 DEF InSwitch

\* What has been returned grows by the record that comes to lie behind the walker.
LEMMA ReturnedIs ==
  ASSUME First \in Int, NEW k \in Nat
  PROVE  /\ k < First => Returned(k) = <<>>
         /\ First <= k + 1 => Returned(k + 1) = Append(Returned(k), Bytes(k + 1))
                             /\ Len(Returned(k)) = k + 1 - First
<1>1. ASSUME k < First
      PROVE  Returned(k) = <<>>
  BY <1>1 DEF Returned
<1>2. ASSUME First <= k + 1
      PROVE  Returned(k + 1) = Append(Returned(k), Bytes(k + 1)) /\ Len(Returned(k)) = k + 1 - First
  <2> DEFINE n == k + 1 - First
  <2> DEFINE B == {Bytes(i) : i \in Int}
  <2>1. n \in Nat
    BY <1>2
  <2> DEFINE e(i) == Bytes(i + First - 1)
  <2>2. \A i \in Int : e(i) \in B
    OBVIOUS
  <2>3. k + 1 \in Int /\ Bytes(k + 1) \in B
    OBVIOUS
  <2> DEFINE s == Returned(k)
  <2> DEFINE t == Returned(k + 1)
  <2>4. s = [i \in 1..n |-> e(i)] /\ t = [i \in 1..n + 1 |-> e(i)]
    <3>1. k + 1 + 1 - First = n + 1
      OBVIOUS
    <3> QED
      BY <3>1 DEF Returned
  <2>5. e(n + 1) = Bytes(k + 1)
    <3>1. (n + 1) + First - 1 = k + 1
      OBVIOUS
    <3> QED
      BY <3>1
  <2> HIDE DEF n, B, s, t, e
  <2>6. s \in Seq(B) /\ Len(s) = n
    <3>1. s \in [1..n -> B]
      BY <2>1, <2>2, <2>4
    <3> QED
      BY <2>1, <3>1
  <2>7. t \in Seq(B) /\ Len(t) = n + 1
    <3>1. t \in [1..n + 1 -> B]
      BY <2>1, <2>2, <2>4
    <3>2. n + 1 \in Nat
      BY <2>1
    <3> QED
      BY <3>1, <3>2
  <2>8. t[n + 1] = Bytes(k + 1)
    BY <2>1, <2>4, <2>5
  <2>9. \A i \in 1..n : t[i] = s[i]
    BY <2>1, <2>4
  <2>10. /\ Append(s, Bytes(k + 1)) \in Seq(B) /\ Len(Append(s, Bytes(k + 1))) = n + 1
         /\ \A i \in 1..n : Append(s, Bytes(k + 1))[i] = s[i]
         /\ Append(s, Bytes(k + 1))[n + 1] = Bytes(k + 1)
    BY <2>3, <2>6, AppendProperties
  <2> DEFINE u == Append(s, Bytes(k + 1))
  <2>11. u \in Seq(B) /\ Len(u) = n + 1 /\ \A i \in 1..n + 1 : u[i] = t[i]
    BY <2>1, <2>8, <2>9, <2>10
  <2> HIDE DEF u
  <2>12. u = t
    BY <2>7, <2>11, SeqEqual
  <2> QED
    BY <2>6, <2>12 DEF s, t, u, n
<1> QED
  BY <1>1, <1>2

------------------------------------------------------------------------------
\* The initial states.

\* A stream begins on the page of the watermark, or on one before it, where the walker attaches.
LEMMA InitStands ==
  ASSUME ~EntryInSwitch, Init
  PROVE  WalkerIInv
<1>0. MaxRecords \in Nat /\ MaxRecords > 0 /\ Page \in Positive
  BY Sized DEF Positive
<1>1. Laid
  <2>1. LaidTo(wal, MaxRecords)
    BY <1>0, LayoutsLaid DEF Init
  <2>2. \A k : AfterIn(wal, k) = After(k)
    BY DEF AfterIn, After
  <2> QED
    BY <2>1, <2>2 DEF LaidTo, Laid
<1>2. Len(wal) \in Nat /\ Len(wal) > 0 /\ DOMAIN wal = 1..Len(wal)
  BY <1>1, Count
<1>3. emitFrom \in {wal[k].begin : k \in DOMAIN wal}
  BY DEF Init
<1>4. /\ First \in 1..Len(wal) /\ wal[First].begin = emitFrom /\ emitFrom \in Int
      /\ \A k \in 1..Len(wal) : wal[k].begin < emitFrom <=> k < First
  BY <1>1, <1>3, FirstIs
<1>5. pos \in 0..emitFrom /\ pos % Page = 0 /\ ~InSwitch(pos) /\ sent = pos
  BY DEF Init
<1>6. /\ wal[First].end \in Int /\ emitFrom < wal[First].end
      /\ After(First) \in Int /\ wal[First].end <= After(First)
  BY <1>1, <1>4, RecordIs
<1>7. sent \in 0..Written /\ pos \in 0..sent
  <2>1. /\ Written = After(Len(wal))
        /\ First \in 0..Len(wal) /\ Len(wal) \in 0..Len(wal) /\ First <= Len(wal)
    BY <1>2, <1>4 DEF Written, After
  <2>2. After(First) <= After(Len(wal)) /\ After(Len(wal)) \in Int
    BY <1>1, <2>1, InOrder, AfterIs
  <2> QED
    BY <1>4, <1>5, <1>6, <2>1, <2>2
<1> DEFINE T == {m \in 1..Len(wal) : pos < wal[m].end}
<1>8. PICK m \in T : \A i \in T : m <= i
  <2>1. First \in T
    BY <1>4, <1>5, <1>6
  <2>2. T \in SUBSET Nat
    BY <1>2
  <2> HIDE DEF T
  <2> QED
    BY <2>1, <2>2, LeastOf
<1>9. m \in 1..Len(wal) /\ pos < wal[m].end /\ m <= First
  BY <1>4, <1>5, <1>6, <1>8
<1> DEFINE k == m - 1
<1>10. k \in 0..Len(wal) /\ k < First /\ k + 1 = m
  BY <1>2, <1>4, <1>9
<1>11. ASSUME k > 0
       PROVE  wal[k].end <= pos
  <2>1. k \in 1..Len(wal) /\ ~(m <= k)
    BY <1>2, <1>10, <1>11, <1>9
  <2>2. k \notin T
    BY <1>8, <2>1
  <2>3. wal[k].end \in Int
    BY <1>1, <2>1, RecordIs
  <2> QED
    BY <1>4, <1>5, <2>1, <2>2, <2>3
<1> HIDE DEF k, T
<1>12. Attaching(k)
  <2>1. pos <= emitFrom
    BY <1>4, <1>5
  <2> QED
    BY <1>5, <1>9, <1>10, <1>11, <2>1 DEF Attaching, Init
<1>13. events = <<>> /\ Returned(k) = <<>>
  <2>1. k \in Nat /\ First \in Int
    BY <1>2, <1>4, <1>10
  <2> QED
    BY <1>10, <2>1, ReturnedIs DEF Init
<1>14. \E j \in 0..Len(wal) : Stands(j) /\ events = Returned(j)
  BY <1>10, <1>12, <1>13 DEF Stands
<1>15. OffHeaders /\ NeverDesyncs
  BY <1>5 DEF OffHeaders, NeverDesyncs, Init
<1> QED
  BY <1>1, <1>3, <1>7, <1>14, <1>15 DEF WalkerIInv

------------------------------------------------------------------------------
\* One lemma per action.

\* A chunk moves nothing but the end of the buffer.
LEMMA FeedKeeps ==
  ASSUME WalkerIInv, NEW n \in Chunks, Feed(n)
  PROVE  WalkerIInv'
<1>1. PICK k \in 0..Len(wal) : Stands(k) /\ events = Returned(k)
  BY DEF WalkerIInv
<1>2. /\ pos \in Nat /\ sent \in Nat /\ pos <= sent /\ ~failed
      /\ Written \in Int /\ sent <= Written
  BY <1>1, Standing
<1>3. n \in Nat
  BY WalkerAssumption
<1>4. wal' = wal /\ emitFrom' = emitFrom /\ pos' = pos /\ failed' = failed /\ events' = events
  BY DEF Feed
<1>5. sent' \in 0..Written /\ pos' \in 0..sent'
  BY <1>2, <1>3, <1>4 DEF Feed
<1>6. OffHeaders'
  BY DEF Feed, OffHeaders, WalkerIInv
<1>7. Stands(k)'
  <2>1. After(k)' = After(k) /\ \A p : InSwitch(p)' = InSwitch(p)
    BY <1>4, Kept
  <2>2. Attaching(k) => Attaching(k)'
    BY <2>1 DEF Feed, Attaching, recVars
  <2>3. InTail(k) => InTail(k)'
    BY <2>1 DEF Feed, InTail, recVars
  <2>4. InPadding(k) => InPadding(k)'
    BY <2>1 DEF Feed, InPadding, recVars
  <2>5. InFill(k) => InFill(k)'
    BY <2>1 DEF Feed, InFill, recVars
  <2>6. Between(k) => Between(k)'
    BY <2>1 DEF Feed, Between, recVars
  <2>7. Reading(k) => Reading(k)'
    BY <2>1 DEF Feed, Reading, recVars
  <2> QED
    BY <1>1, <2>2, <2>3, <2>4, <2>5, <2>6, <2>7 DEF Stands
<1>8. events' = Returned(k)
  BY <1>1, <1>4
<1> QED
  BY <1>2, <1>4, <1>5, <1>6, <1>7, <1>8, Resumes

\* The fill is skipped up to where the next segment begins.
LEMMA SkipZerosKeeps ==
  ASSUME WalkerIInv, SkipZeros
  PROVE  WalkerIInv'
<1>1. PICK k \in 0..Len(wal) : Stands(k) /\ events = Returned(k)
  BY DEF WalkerIInv
<1>2. /\ pos \in Nat /\ sent \in Nat /\ pos <= sent /\ ~failed
      /\ Laid /\ Len(wal) \in Nat /\ Written \in Int /\ sent <= Written
  BY <1>1, Standing
<1>3. InFill(k)
  <2>1. rawSkip > 0
    BY DEF SkipZeros
  <2> QED
    BY <1>1, <2>1 DEF Stands, Attaching, InTail, InPadding, Between, Reading
<1>4. k > 0 /\ wal[k].switch /\ wal[k].end <= pos /\ rawSkip \in 1..Seg - 1 /\ pos + rawSkip = After(k)
  BY <1>3 DEF InFill
<1>5. k \in 1..Len(wal)
  BY <1>2, <1>4
<1>6. wal[k].end \in Int /\ After(k) \in Int /\ After(k) % Page = 0
  BY <1>2, <1>4, <1>5, RecordIs
<1> DEFINE take == Least(rawSkip, sent - pos)
<1>7. /\ wal' = wal /\ emitFrom' = emitFrom /\ sent' = sent /\ failed' = failed /\ events' = events
      /\ firstPage' = firstPage /\ inRec' = inRec /\ skip' = skip
      /\ pos' = pos + take /\ rawSkip' = rawSkip - take
  BY DEF SkipZeros, InLoop, recVars
<1>8. Seg \in Int /\ take \in 0..rawSkip /\ take <= sent - pos
  BY <1>2, <1>4, Sized DEF Least, Positive
<1> HIDE DEF take
<1>9. sent' \in 0..Written /\ pos' \in 0..sent'
  BY <1>2, <1>4, <1>7, <1>8
<1>10. pos' + rawSkip' = After(k) /\ rawSkip' \in 0..Seg - 1 /\ wal[k].end <= pos'
  BY <1>2, <1>4, <1>6, <1>7, <1>8
<1>11. Stands(k)'
  <2>1. After(k)' = After(k)
    BY <1>7, Kept
  <2>2. CASE rawSkip' = 0
    <3>1. pos' = After(k)
      BY <1>2, <1>6, <1>7, <1>8, <1>10, <2>2
    <3>2. Between(k)'
      BY <1>3, <1>7, <2>1, <2>2, <3>1 DEF Between, InFill
    <3> QED
      BY <3>2 DEF Stands
  <2>3. CASE rawSkip' # 0
    <3>1. rawSkip' \in 1..Seg - 1
      BY <1>8, <1>10, <2>3
    <3>2. InFill(k)'
      BY <1>3, <1>4, <1>7, <1>10, <2>1, <3>1 DEF InFill
    <3> QED
      BY <3>2 DEF Stands
  <2> QED
    BY <2>2, <2>3
<1>12. OffHeaders'
  <2>1. rawSkip' = 0 => pos' = After(k)
    BY <1>2, <1>6, <1>7, <1>8, <1>10
  <2> QED
    BY <1>6, <2>1 DEF OffHeaders
<1> QED
  BY <1>1, <1>2, <1>7, <1>9, <1>11, <1>12, Resumes

\* What the guards of the actions behind the header say of the place.
LEMMA Inside ==
  ASSUME WalkerIInv, NEW k \in 0..Len(wal), Stands(k), InLoop, rawSkip = 0, pos % Page # 0
  PROVE  /\ ~InHeader(pos) /\ Avail \in 1..(Page - (pos % Page)) /\ Avail <= sent - pos
         /\ pos < sent
<1>1. /\ pos \in Nat /\ sent \in Nat /\ pos <= sent
  BY Standing
<1>2. pos # sent
  BY DEF InLoop, Drained
<1>3. ~InHeader(pos)
  BY DEF WalkerIInv, OffHeaders
<1>4. Page - (pos % Page) \in 1..Page - 1 /\ Page \in Int
  BY <1>1, <1>3, PageRest, Sized DEF Positive
<1> QED
  BY <1>1, <1>2, <1>3, <1>4 DEF Avail, Least

\* A tail or the padding is skipped as far as the page reaches.
LEMMA SkipBytesKeeps ==
  ASSUME WalkerIInv, SkipBytes
  PROVE  WalkerIInv'
<1>1. PICK k \in 0..Len(wal) : Stands(k) /\ events = Returned(k)
  BY DEF WalkerIInv
<1>2. /\ pos \in Nat /\ sent \in Nat /\ pos <= sent /\ ~failed
      /\ Laid /\ Len(wal) \in Nat /\ Written \in Int /\ sent <= Written
  BY <1>1, Standing
<1>3. rawSkip = 0 /\ pos % Page # 0 /\ skip > 0 /\ InLoop
  BY DEF SkipBytes
<1>4. ~InHeader(pos) /\ Avail \in 1..(Page - (pos % Page)) /\ Avail <= sent - pos
  BY <1>1, <1>3, Inside
<1>5. Page - (pos % Page) \in 1..Page - 1 /\ (pos + (Page - (pos % Page))) % Page = 0 /\ Page \in Int
  BY <1>2, <1>3, <1>4, PageRest, Sized DEF Positive
<1> DEFINE rest == Page - (pos % Page)
<1> DEFINE take == Least(skip, Avail)
<1>6. InTail(k) \/ InPadding(k)
  BY <1>1, <1>3 DEF Stands, Attaching, InFill, Between, Reading
<1>7. skip \in Int
  <2>1. CASE InTail(k)
    <3>1. k < Len(wal) /\ skip = wal[k + 1].len - Room(wal[k + 1].begin, pos)
      BY <2>1 DEF InTail
    <3>2. wal[k + 1].begin \in Int /\ wal[k + 1].len \in Int
      BY <1>2, <3>1, Ahead DEF Positive
    <3>3. \A b \in Int : Room(b, pos) \in Int
      BY <1>2, DataIs
    <3> QED
      BY <3>1, <3>2, <3>3
  <2>2. CASE InPadding(k)
    BY <2>2, Sized DEF InPadding, Positive
  <2> QED
    BY <1>6, <2>1, <2>2
<1>8. /\ wal' = wal /\ emitFrom' = emitFrom /\ sent' = sent /\ failed' = failed /\ events' = events
      /\ firstPage' = firstPage /\ inRec' = inRec /\ rawSkip' = rawSkip
      /\ pos' = pos + take /\ skip' = skip - take
  BY DEF SkipBytes, InLoop, recVars
<1>9. take \in 1..rest /\ take <= skip /\ take <= sent - pos /\ (take < skip => take = Avail)
  <2> HIDE DEF rest
  <2>1. Avail \in 1..rest /\ rest \in Int
    BY <1>4, <1>5 DEF rest
  <2> QED
    BY <1>2, <1>3, <1>4, <1>7, <2>1 DEF Least
<1> HIDE DEF take
<1>10. /\ \A b \in Int : b <= pos => Room(b, pos + take) = Room(b, pos) + take
       /\ ~InHeader(pos + take - 1)
       /\ InHeader(pos + take) => (pos + take) % Page = 0
       /\ take < rest => (pos + take) % Page # 0
  BY <1>2, <1>3, <1>4, <1>9, Forward
<1> HIDE DEF rest
<1>11. rest \in Int /\ take \in Int
  BY <1>5, <1>9 DEF rest
<1>12. sent' \in 0..Written /\ pos' \in 0..sent'
  BY <1>2, <1>8, <1>9, <1>11
<1>13. OffHeaders'
  BY <1>8, <1>10 DEF OffHeaders
<1>14. After(k)' = After(k)
  BY <1>8, Kept
<1>15. CASE InTail(k)
  <2> DEFINE b == wal[k + 1].begin
  <2> DEFINE n == wal[k + 1].len
  <2>1. /\ ~firstPage /\ ~inRec /\ k < Len(wal) /\ ~wal[k + 1].switch /\ b < emitFrom
        /\ b < pos /\ skip = n - Room(b, pos)
    BY <1>15 DEF InTail
  <2>2. /\ b \in Int /\ n \in Positive /\ wal[k + 1].end = End(b, n)
        /\ k + 1 \in 0..Len(wal) /\ k + 1 \in 1..Len(wal)
    BY <1>2, <2>1, Ahead
  <2> HIDE DEF b, n
  <2>3. Room(b, pos) \in Int /\ n \in Int /\ b <= pos /\ b < pos + take
    BY <1>2, <1>9, <1>11, <2>1, <2>2, DataIs DEF Positive
  <2>4. skip' = n - Room(b, pos') /\ skip' \in Nat
    BY <1>7, <1>8, <1>9, <1>10, <1>11, <2>1, <2>2, <2>3
  <2>5. ASSUME skip' > 0
        PROVE  InTail(k)'
    BY <1>3, <1>8, <2>1, <2>3, <2>4, <2>5 DEF InTail, b, n
  <2>6. ASSUME skip' = 0
        PROVE  Between(k + 1)'
    <3>1. Room(b, pos + take) = n
      <4>1. Room(b, pos + take) = Room(b, pos) + take
        BY <1>10, <2>2, <2>3
      <4>2. skip - take = 0
        BY <1>8, <2>6
      <4> QED
        BY <1>7, <1>11, <2>1, <2>3, <4>1, <4>2
    <3>2. pos + take = wal[k + 1].end
      <4> DEFINE q == pos + take
      <4>1. q \in Int /\ b <= q
        BY <1>2, <1>11, <2>3, <2>2
      <4>2. ~InHeader(q - 1)
        <5>1. ~InHeader(pos + take - 1)
          BY <1>10
        <5>2. q - 1 = pos + take - 1
          BY <1>2, <1>11
        <5> HIDE DEF q
        <5> QED
          BY <5>1, <5>2
      <4>3. Room(b, q) = n
        BY <3>1
      <4> HIDE DEF q
      <4>4. q = End(b, n)
        BY <2>2, <4>1, <4>2, <4>3, EndReached
      <4> QED
        BY <2>2, <4>4 DEF q
    <3>3. k + 1 > 0
      BY <1>2
    <3> QED
      BY <1>3, <1>8, <2>1, <2>6, <3>2, <3>3 DEF Between
  <2>7. Returned(k) = <<>> /\ Returned(k + 1) = <<>>
    <3>1. /\ First \in 1..Len(wal)
          /\ \A j \in 1..Len(wal) : wal[j].begin < emitFrom <=> j < First
      BY FirstIs DEF WalkerIInv
    <3>2. k + 1 < First /\ k < First
      BY <1>2, <2>1, <2>2, <3>1 DEF b
    <3>3. First \in Int /\ k \in Nat /\ k + 1 \in Nat
      BY <1>2, <3>1
    <3> QED
      BY <3>2, <3>3, ReturnedIs
  <2>8. CASE skip' > 0
    <3>1. Stands(k)'
      BY <2>5, <2>8 DEF Stands
    <3> QED
      BY <1>1, <1>2, <1>8, <1>12, <1>13, <3>1, Resumes
  <2>9. CASE skip' = 0
    <3>1. Stands(k + 1)'
      BY <2>6, <2>9 DEF Stands
    <3>2. events' = Returned(k + 1)
      BY <1>1, <1>8, <2>7
    <3> QED
      BY <1>2, <1>8, <1>12, <1>13, <2>2, <3>1, <3>2, Resumes
  <2> QED
    BY <2>4, <2>8, <2>9
<1>16. CASE InPadding(k)
  <2>1. k > 0 /\ wal[k].end <= pos /\ skip \in 1..Align - 1 /\ pos + skip = After(k)
    BY <1>16 DEF InPadding
  <2>2. k \in 1..Len(wal)
    BY <1>2, <2>1
  <2>3. wal[k].end \in Int /\ After(k) \in Int /\ After(k) % Align = 0
    BY <1>2, <2>2, RecordIs, AfterIs
  <2>4. skip' \in 0..Align - 1 /\ pos' + skip' = After(k) /\ wal[k].end <= pos' /\ Align \in Int
    <3>1. Align \in Int
      BY Sized DEF Positive
    <3>2. 1 <= take /\ take <= skip
      BY <1>9, <1>11
    <3>3. skip - take \in 0..Align - 1
      BY <1>7, <1>11, <2>1, <3>1, <3>2
    <3>4. (pos + take) + (skip - take) = After(k) /\ wal[k].end <= pos + take
      BY <1>2, <1>7, <1>11, <2>1, <2>3, <3>2
    <3> QED
      BY <1>8, <3>1, <3>3, <3>4
  <2>5. ASSUME skip' # 0
        PROVE  pos' % Page # 0
    <3>1. take # rest
      <4>1. SUFFICES ASSUME pos' % Page = 0
                     PROVE  FALSE
        BY <1>5, <1>8 DEF rest
      <4>2. Align \in Positive /\ Page \in Positive /\ Page % Align = 0 /\ pos' \in Int
        BY <1>2, <1>8, <1>11, Sized
      <4>3. pos' % Align = 0
        BY <4>1, <4>2, MultipleOf
      <4>4. pos' < After(k) /\ After(k) < pos' + Align
        <5>1. pos' \in Int /\ After(k) \in Int
          BY <2>3, <4>2
        <5> QED
          BY <2>4, <2>5, <5>1
      <4>5. pos' + Align <= After(k)
        BY <2>3, <4>2, <4>3, <4>4, Multiples
      <4> QED
        BY <2>3, <2>4, <4>2, <4>4, <4>5
    <3> QED
      BY <1>8, <1>9, <1>10, <1>11, <3>1
  <2>6. Stands(k)'
    <3>1. CASE skip' = 0
      <4>1. pos' = After(k)
        BY <1>2, <1>8, <1>11, <2>3, <2>4, <3>1
      <4>2. Between(k)'
        BY <1>3, <1>8, <1>14, <1>16, <3>1, <4>1 DEF Between, InPadding
      <4> QED
        BY <4>2 DEF Stands
    <3>2. CASE skip' # 0
      <4>1. skip' \in 1..Align - 1
        BY <2>4, <3>2
      <4>2. InPadding(k)'
        BY <1>3, <1>8, <1>14, <1>16, <2>1, <2>4, <2>5, <3>2, <4>1 DEF InPadding
      <4> QED
        BY <4>2 DEF Stands
    <3> QED
      BY <3>1, <3>2
  <2> QED
    BY <1>1, <1>2, <1>8, <1>12, <1>13, <2>6, Resumes
<1> QED
  BY <1>6, <1>15, <1>16

\* A page header says how much of the record under way is left; it is what is missing, or, on
\* the page the walker enters by, what is to be skipped.
LEMMA TakePageHeaderKeeps ==
  ASSUME WalkerIInv, TakePageHeader
  PROVE  WalkerIInv'
<1>1. PICK k \in 0..Len(wal) : Stands(k) /\ events = Returned(k)
  BY DEF WalkerIInv
<1>2. /\ pos \in Nat /\ sent \in Nat /\ pos <= sent /\ ~failed
      /\ Laid /\ Len(wal) \in Nat /\ Written \in Int /\ sent <= Written
      /\ Passed(k) /\ Written = After(Len(wal))
  BY <1>1, Standing
<1>3. rawSkip = 0 /\ pos % Page = 0 /\ InLoop
  BY DEF TakePageHeader
<1> DEFINE h == HeaderSize(pos)
<1>4. /\ h \in 1..Page - 1 /\ Page \in Int /\ h \in Int
      /\ (\A x \in pos..pos + h - 1 : InHeader(x)) /\ ~InHeader(pos + h) /\ (pos + h) % Page # 0
  <2>1. HeaderSize(pos) \in 1..Page - 1 /\ Page \in Int
    <3>1. Page \in Int
      BY Sized DEF Positive
    <3>2. pos \in Int
      BY <1>2
    <3>3. HeaderSize(pos) \in 1..Page - 1
      BY <3>2, HeaderIs
    <3> QED
      BY <3>1, <3>3
  <2>2. /\ \A x \in pos..pos + HeaderSize(pos) - 1 : InHeader(x)
        /\ \A x \in pos + HeaderSize(pos)..pos + Page - 1 : ~InHeader(x)
        /\ \A x \in pos + 1..pos + Page - 1 : x % Page # 0
    BY <1>2, <1>3, PageHas
  <2>3. pos + h \in pos + HeaderSize(pos)..pos + Page - 1 /\ pos + h \in pos + 1..pos + Page - 1
    BY <1>2, <2>1
  <2> QED
    BY <2>1, <2>2, <2>3
<1> HIDE DEF h
<1>5. pos < sent /\ pos + h <= sent
  BY <1>2, <1>3, <1>4 DEF InLoop, Drained, h
<1>6. /\ wal' = wal /\ emitFrom' = emitFrom /\ sent' = sent /\ events' = events
      /\ inRec' = inRec /\ rec' = rec /\ need' = need /\ rawSkip' = 0
  BY <1>3 DEF TakePageHeader, InLoop, recVars
<1>7. After(k) \in Int /\ After(k) % Align = 0
  BY <1>2, AfterIs
\* The header is accepted, and the position moves behind it.
<1>8. SUFFICES /\ ~Zeros(pos) /\ (firstPage \/ ((RemLen(pos) > 0) = InFlight))
               /\ (pos' = pos + h /\ ~firstPage' /\ ~failed'
                   /\ skip' = (IF firstPage THEN RemLen(pos) ELSE skip)) => Stands(k)'
  <2>1. ASSUME ~Zeros(pos), firstPage \/ ((RemLen(pos) > 0) = InFlight)
        PROVE  /\ pos' = pos + h /\ ~firstPage' /\ ~failed'
               /\ skip' = (IF firstPage THEN RemLen(pos) ELSE skip)
    BY <1>2, <2>1 DEF TakePageHeader, TailInFlight, h
  <2>2. ASSUME pos' = pos + h
        PROVE  pos' \in 0..sent' /\ sent' \in 0..Written /\ OffHeaders'
    BY <1>2, <1>4, <1>5, <1>6, <2>2 DEF OffHeaders
  <2> QED
    BY <1>1, <1>6, <2>1, <2>2, Resumes
<1>9. \A b \in Int : b <= pos => Room(b, pos + h) = Room(b, pos)
  <2>1. SUFFICES ASSUME NEW b \in Int, b <= pos
                 PROVE  Room(b, pos + h) = Room(b, pos)
    OBVIOUS
  <2>2. Room(pos, pos + h) = 0 /\ pos + h \in Int /\ pos <= pos + h
    <3>1. pos + h \in Int /\ pos \in Int /\ pos <= pos + h
      BY <1>2, <1>4
    <3> QED
      BY <1>4, <3>1, RoomInHeader
  <2>3. Room(b, pos) \in Int
    BY <1>2, DataIs
  <2> QED
    BY <1>2, <2>1, <2>2, <2>3, RoomAdds
\* The next record, if it began on an earlier page, is not all here yet.
<1>10. ASSUME k < Len(wal), wal[k + 1].begin < pos
       PROVE  RemLen(pos) > 0
  <2>1. /\ wal[k + 1].begin \in Int /\ wal[k + 1].len \in Positive
        /\ wal[k + 1].end = End(wal[k + 1].begin, wal[k + 1].len)
    BY <1>2, <1>10, Ahead
  <2>2. pos < wal[k + 1].end
    BY <1>2, <1>10 DEF Passed
  <2>3. Room(wal[k + 1].begin, pos) < wal[k + 1].len
    BY <1>2, <1>10, <2>1, <2>2, EndReached
  <2>4. Room(wal[k + 1].begin, pos) \in Int
    <3>1. \A b \in Int : Room(b, pos) \in Int
      BY <1>2, DataIs
    <3> QED
      BY <2>1, <3>1
  <2>5. RemLen(pos) = wal[k + 1].len - Room(wal[k + 1].begin, pos)
    BY <1>2, <1>10, OneOpen
  <2>6. wal[k + 1].len \in Int
    BY <2>1 DEF Positive
  <2> QED
    BY <2>3, <2>4, <2>5, <2>6
<1>11. CASE Attaching(k)
  <2>1. firstPage /\ ~inRec /\ skip = 0 /\ pos <= emitFrom /\ ~InSwitch(pos)
    BY <1>11 DEF Attaching
  <2>2. ~Zeros(pos)
    BY <1>2, <2>1, NoZeros
  <2>3. After(k) <= pos
    BY <1>2, <1>3, <1>7, <2>1, AtPage
  <2>4. k < Len(wal)
    <3>1. k # Len(wal)
      BY <1>2, <1>5, <1>7, <2>3
    <3> QED
      BY <1>2, <3>1
  <2>5. /\ wal[k + 1].begin \in Int /\ wal[k + 1].begin = Begin(After(k))
        /\ wal[k + 1].switch \in BOOLEAN /\ k + 1 \in 1..Len(wal)
        /\ wal[k + 1].begin % Page # 0 /\ wal[k + 1].begin < wal[k + 1].end
    BY <1>2, <2>4, Ahead
  <2>6. ASSUME pos' = pos + h, ~firstPage', ~failed', skip' = RemLen(pos)
        PROVE  Stands(k)'
    <3>1. CASE wal[k + 1].begin < pos
      <4>1. ~wal[k + 1].switch
        <5>1. wal[k + 1] \in Range(wal) /\ After(k + 1) = Behind(wal[k + 1])
          BY <1>2, <2>5, Count DEF Range, After
        <5>2. After(k + 1) \in Int /\ wal[k + 1].end <= After(k + 1) /\ wal[k + 1].end \in Int
          BY <1>2, <2>5, RecordIs
        <5>3. pos < wal[k + 1].end
          BY <1>2, <2>4 DEF Passed
        <5>4. pos < Behind(wal[k + 1])
          BY <1>2, <5>1, <5>2, <5>3
        <5> QED
          BY <2>1, <3>1, <5>1, <5>4 DEF InSwitch
      <4>2. RemLen(pos) > 0 /\ RemLen(pos) = wal[k + 1].len - Room(wal[k + 1].begin, pos)
        BY <1>2, <1>10, <2>4, <3>1, OneOpen
      <4>3. Room(wal[k + 1].begin, pos') = Room(wal[k + 1].begin, pos)
        BY <1>2, <1>9, <2>5, <2>6, <3>1
      <4>4. wal[k + 1].begin < pos' /\ wal[k + 1].begin < emitFrom
        <5>1. emitFrom \in Int
          BY <1>2, FirstIs DEF WalkerIInv
        <5> QED
          BY <1>2, <1>4, <2>1, <2>5, <2>6, <3>1, <5>1
      <4>5. InTail(k)'
        BY <1>6, <2>1, <2>4, <2>6, <4>1, <4>2, <4>3, <4>4 DEF InTail
      <4> QED
        BY <4>5 DEF Stands
    <3>2. CASE ~(wal[k + 1].begin < pos)
      <4>1. RemLen(pos) = 0
        BY <1>2, <3>2, OneOpen
      <4>2. pos < wal[k + 1].begin
        <5>1. pos # wal[k + 1].begin
          BY <1>3, <2>5
        <5> QED
          BY <1>2, <2>5, <3>2, <5>1
      <4>3. Begin(After(k)) # After(k)
        BY <1>2, <1>7, <2>3, <2>5, <4>2
      <4>4. After(k) % Page = 0
        BY <4>3 DEF Begin
      <4>5. Begin(After(k)) = After(k) + HeaderSize(After(k)) /\ HeaderSize(After(k)) \in 1..Page - 1
        BY <1>7, <4>4, HeaderIs DEF Begin
      <4>6. \A x \in After(k) + 1..After(k) + Page - 1 : x % Page # 0
        BY <1>7, <4>4, PageHas
      <4>7. pos = After(k)
        <5>1. pos < After(k) + Page
          BY <1>2, <1>4, <1>7, <2>5, <4>2, <4>5
        <5>2. pos \notin After(k) + 1..After(k) + Page - 1
          BY <1>3, <4>6
        <5>3. pos \in Int /\ Page \in Int
          BY <1>2, <1>4
        <5> QED
          BY <1>7, <2>3, <5>1, <5>2, <5>3
      <4>8. pos' = Begin(After(k))
        BY <2>6, <4>5, <4>7 DEF h
      <4>9. After(k)' = After(k)
        BY <1>6, Kept
      <4>10. Between(k)'
        BY <1>6, <2>1, <2>6, <4>1, <4>8, <4>9 DEF Between
      <4> QED
        BY <4>10 DEF Stands
    <3> QED
      BY <3>1, <3>2
  <2> QED
    BY <2>1, <2>2, <2>6
<1>12. CASE InTail(k)
  <2>1. /\ ~firstPage /\ ~inRec /\ skip > 0 /\ k < Len(wal) /\ wal[k + 1].begin < pos
        /\ ~wal[k + 1].switch /\ wal[k + 1].begin < emitFrom
        /\ skip = wal[k + 1].len - Room(wal[k + 1].begin, pos)
    BY <1>12 DEF InTail
  <2>2. /\ wal[k + 1].begin \in Int /\ After(k) <= wal[k + 1].begin
    BY <1>2, <2>1, Ahead
  <2>3. ~Zeros(pos)
    <3>1. ~(pos < After(k))
      BY <1>2, <1>7, <2>1, <2>2
    <3> QED
      BY <1>2, <3>1, NoZeros
  <2>4. (RemLen(pos) > 0) = InFlight
    BY <1>10, <2>1 DEF InFlight
  <2>5. ASSUME pos' = pos + h, ~firstPage', skip' = skip
        PROVE  Stands(k)'
    <3>1. Room(wal[k + 1].begin, pos') = Room(wal[k + 1].begin, pos)
      BY <1>2, <1>9, <2>1, <2>2, <2>5
    <3>2. wal[k + 1].begin < pos'
      <4>1. pos \in Int /\ h \in Int /\ h > 0
        BY <1>2, <1>4
      <4> HIDE DEF h
      <4> QED
        BY <2>1, <2>2, <2>5, <4>1
    <3>3. InTail(k)'
      BY <1>6, <2>1, <2>5, <3>1, <3>2 DEF InTail
    <3> QED
      BY <3>3 DEF Stands
  <2> QED
    BY <2>1, <2>3, <2>4, <2>5
<1>13. CASE Reading(k)
  <2>1. /\ ~firstPage /\ inRec /\ skip = 0 /\ k < Len(wal) /\ wal[k + 1].begin <= pos
    BY <1>13 DEF Reading
  <2>2. /\ wal[k + 1].begin \in Int /\ After(k) <= wal[k + 1].begin
        /\ wal[k + 1].begin % Page # 0
    BY <1>2, <2>1, Ahead
  <2>3. wal[k + 1].begin < pos
    <3>1. wal[k + 1].begin # pos
      BY <1>3, <2>2
    <3> QED
      BY <1>2, <2>1, <2>2, <3>1
  <2>4. ~Zeros(pos)
    <3>1. ~(pos < After(k))
      BY <1>2, <1>7, <2>2, <2>3
    <3> QED
      BY <1>2, <3>1, NoZeros
  <2>5. (RemLen(pos) > 0) = InFlight
    BY <1>10, <2>1, <2>3 DEF InFlight
  <2>6. ASSUME pos' = pos + h, ~firstPage', skip' = skip
        PROVE  Stands(k)'
    <3>1. Room(wal[k + 1].begin, pos') = Room(wal[k + 1].begin, pos)
      BY <1>2, <1>9, <2>1, <2>2, <2>6
    <3>2. wal[k + 1].begin <= pos'
      BY <1>2, <1>4, <2>2, <2>3, <2>6
    <3>3. Reading(k)'
      BY <1>6, <1>13, <2>1, <2>6, <3>1, <3>2 DEF Reading
    <3> QED
      BY <3>3 DEF Stands
  <2> QED
    BY <2>1, <2>4, <2>5, <2>6
<1>14. CASE Between(k)
  <2>1. /\ ~firstPage /\ ~inRec /\ skip = 0
        /\ \/ k > 0 /\ ~wal[k].switch /\ pos = wal[k].end
           \/ pos \in {After(k), Begin(After(k))}
    BY <1>14 DEF Between
  <2>2. pos = After(k)
    <3>1. pos # Begin(After(k))
      BY <1>3, <1>7, BeginIs
    <3>2. ASSUME k > 0, ~wal[k].switch, pos = wal[k].end
          PROVE  pos = After(k)
      <4>1. k \in 1..Len(wal)
        BY <1>2, <3>2
      <4>2. After(k) = Up(pos, Align)
        BY <1>2, <3>2, <4>1, RecordIs
      <4>3. Align \in Positive /\ Page \in Positive /\ Page % Align = 0 /\ pos \in Int
        BY <1>2, Sized
      <4>4. pos % Align = 0
        BY <1>3, <4>3, MultipleOf
      <4> QED
        BY <4>2, <4>3, <4>4, UpStays
    <3> QED
      BY <2>1, <3>1, <3>2
  <2>3. ~Zeros(pos)
    <3>1. ~(pos < After(k))
      BY <1>7, <2>2
    <3> QED
      BY <1>2, <3>1, NoZeros
  <2>4. RemLen(pos) = 0
    <3>1. ~(k < Len(wal) /\ wal[k + 1].begin < pos)
      <4>1. SUFFICES ASSUME k < Len(wal), wal[k + 1].begin < pos
                     PROVE  FALSE
        OBVIOUS
      <4>2. wal[k + 1].begin \in Int /\ After(k) <= wal[k + 1].begin
        BY <1>2, <4>1, Ahead
      <4> QED
        BY <1>7, <2>2, <4>1, <4>2
    <3> QED
      BY <1>2, <3>1, OneOpen
  <2>5. (RemLen(pos) > 0) = InFlight
    BY <2>1, <2>4 DEF InFlight
  <2>6. ASSUME pos' = pos + h, ~firstPage', skip' = skip
        PROVE  Stands(k)'
    <3>1. pos' = Begin(After(k))
      BY <1>3, <2>2, <2>6 DEF Begin, h
    <3>2. After(k)' = After(k)
      BY <1>6, Kept
    <3>3. Between(k)'
      BY <1>6, <2>1, <2>6, <3>1, <3>2 DEF Between
    <3> QED
      BY <3>3 DEF Stands
  <2> QED
    BY <2>1, <2>3, <2>5, <2>6
<1>15. ~InPadding(k) /\ ~InFill(k)
  BY <1>3 DEF InPadding, InFill
<1> QED
  BY <1>1, <1>11, <1>12, <1>13, <1>14, <1>15 DEF Stands

\* A record begins where the one before it, its padding and the header behind that end.
LEMMA BeginRecordKeeps ==
  ASSUME WalkerIInv, BeginRecord
  PROVE  WalkerIInv'
<1>1. PICK k \in 0..Len(wal) : Stands(k) /\ events = Returned(k)
  BY DEF WalkerIInv
<1>2. /\ pos \in Nat /\ sent \in Nat /\ pos <= sent /\ ~failed
      /\ Laid /\ Len(wal) \in Nat /\ Written \in Int /\ sent <= Written
      /\ Written = After(Len(wal))
  BY <1>1, Standing
<1>3. rawSkip = 0 /\ pos % Page # 0 /\ skip = 0 /\ ~inRec /\ InLoop
  BY DEF BeginRecord, AtRecords
<1>4. pos < sent
  BY <1>1, <1>3, Inside
<1>5. /\ wal' = wal /\ emitFrom' = emitFrom /\ sent' = sent /\ failed' = failed /\ events' = events
      /\ firstPage' = firstPage /\ pos' = pos /\ rawSkip' = rawSkip
  BY DEF BeginRecord, InLoop
<1>6. sent' \in 0..Written /\ pos' \in 0..sent' /\ OffHeaders'
  BY <1>2, <1>5 DEF OffHeaders, WalkerIInv
<1>7. Between(k)
  <2>1. ~Attaching(k) /\ ~Reading(k) /\ ~InTail(k) /\ ~InPadding(k) /\ ~InFill(k)
    BY <1>3 DEF Attaching, Reading, InTail, InPadding, InFill
  <2> QED
    BY <1>1, <2>1 DEF Stands
<1>8. /\ ~firstPage
      /\ \/ k > 0 /\ ~wal[k].switch /\ pos = wal[k].end
         \/ pos \in {After(k), Begin(After(k))}
  BY <1>7 DEF Between
<1>9. /\ After(k) \in Int /\ After(k) % Align = 0 /\ Begin(After(k)) \in Int
      /\ Begin(After(k)) % Align = 0 /\ After(k) <= Begin(After(k))
  <2>1. After(k) \in Int /\ After(k) % Align = 0
    BY <1>2, AfterIs
  <2> QED
    BY <2>1, BeginIs
<1>10. Align \in Positive /\ pos \in Int
  BY <1>2, Sized
<1>11. ASSUME k > 0, ~wal[k].switch, pos = wal[k].end
       PROVE  After(k) = Up(pos, Align)
  <2>1. k \in 1..Len(wal)
    BY <1>2, <1>11
  <2> QED
    BY <1>2, <1>11, <2>1, RecordIs
<1>12. After(k)' = After(k)
  BY <1>5, Kept
<1>13. CASE pos % Align # 0
  <2>1. k > 0 /\ ~wal[k].switch /\ pos = wal[k].end
    BY <1>8, <1>9, <1>13
  <2>2. skip' = (-pos) % Align /\ inRec' = inRec
    BY <1>13 DEF BeginRecord, recVars
  <2>3. -pos \in Int
    BY <1>10
  <2>4. (-pos) % Align \in 0..Align - 1
    BY <1>10, <2>3, ModIs
  <2>5. skip' \in 0..Align - 1 /\ Align \in Int
    BY <1>10, <2>2, <2>4 DEF Positive
  <2>6. pos + skip' = After(k)
    BY <1>11, <2>1, <2>2 DEF Up
  <2>7. skip' # 0
    BY <1>9, <1>10, <1>13, <2>6
  <2>8. skip' \in 1..Align - 1
    BY <2>5, <2>7
  <2>9. InPadding(k)'
    <3>1. wal[k].end <= pos
      BY <1>10, <2>1
    <3> QED
      BY <1>3, <1>5, <1>8, <1>12, <2>1, <2>2, <2>6, <2>8, <3>1 DEF InPadding
  <2>10. Stands(k)'
    BY <2>9 DEF Stands
  <2> QED
    BY <1>1, <1>2, <1>5, <1>6, <2>10, Resumes
<1>14. CASE pos % Align = 0
  <2>1. pos = Begin(After(k))
    <3>1. k > 0 /\ ~wal[k].switch /\ pos = wal[k].end => pos = After(k)
      BY <1>10, <1>11, <1>14, UpStays
    <3>2. pos = After(k) => pos = Begin(After(k))
      BY <1>3 DEF Begin
    <3> QED
      BY <1>8, <3>1, <3>2
  <2>2. k < Len(wal)
    <3>1. k # Len(wal)
      BY <1>2, <1>4, <1>9, <2>1
    <3> QED
      BY <1>2, <3>1
  <2>3. wal[k + 1].begin = pos
    BY <1>2, <2>1, <2>2, Ahead
  <2>4. inRec' /\ rec' = <<>> /\ need' = 0 /\ skip' = 0
    BY <1>3, <1>14 DEF BeginRecord
  <2>5. Room(pos, pos) = 0
    BY <1>10, RoomInHeader
  <2>6. 0 < LenField
    BY Sized DEF Positive
  <2>7. <<>> = [i \in 1..0 |-> <<k + 1, i>>]
    OBVIOUS
  <2>8. Reading(k)'
    BY <1>3, <1>5, <1>8, <1>10, <2>2, <2>3, <2>4, <2>5, <2>6, <2>7 DEF Reading
  <2>9. Stands(k)'
    BY <2>8 DEF Stands
  <2> QED
    BY <1>1, <1>2, <1>5, <1>6, <2>9, Resumes
<1> QED
  BY <1>13, <1>14

\* The first n bytes of a record and the m that follow them.
LEMMA Joined ==
  ASSUME NEW n \in Nat, NEW m \in Nat, NEW j \in Nat
  PROVE  [i \in 1..n |-> <<j, i>>] \o [i \in 1..m |-> <<j, n + i>>] = [i \in 1..n + m |-> <<j, i>>]
<1> DEFINE s == [i \in 1..n |-> <<j, i>>]
<1> DEFINE t == [i \in 1..m |-> <<j, n + i>>]
<1> DEFINE u == [i \in 1..n + m |-> <<j, i>>]
<1>1. s \in Seq(Nat \X Nat) /\ Len(s) = n
  BY SMT
<1>2. t \in Seq(Nat \X Nat) /\ Len(t) = m
  BY SMT
<1>3. u \in Seq(Nat \X Nat) /\ Len(u) = n + m
  BY SMT
<1>4. \A i \in 1..n : s[i] = u[i]
  OBVIOUS
<1>5. \A i \in n + 1..n + m : t[i - n] = u[i]
  OBVIOUS
<1> DEFINE Elt == Nat \X Nat
<1>6. s \in Seq(Elt) /\ t \in Seq(Elt) /\ u \in Seq(Elt)
  BY <1>1, <1>2, <1>3
<1> HIDE DEF s, t, u, Elt
<1>7. /\ s \o t \in Seq(Elt) /\ Len(s \o t) = n + m
      /\ \A i \in 1..n + m : (s \o t)[i] = IF i <= n THEN s[i] ELSE t[i - n]
  BY <1>1, <1>2, <1>6, ConcatProperties
<1>8. \A i \in 1..n + m : (s \o t)[i] = u[i]
  BY <1>4, <1>5, <1>7
<1>9. s \o t = u
  BY <1>3, <1>6, <1>7, <1>8, SeqEqual
<1> QED
  BY <1>9 DEF s, t, u

\* What is taken of a record that is being read is the next bytes of it.
LEMMA TakenIs ==
  ASSUME WalkerIInv, NEW k \in 0..Len(wal), Reading(k), InLoop, pos % Page # 0,
         NEW m \in 1..Avail, Len(rec) + m <= wal[k + 1].len
  PROVE  LET r == wal[k + 1] IN
         /\ Len(rec) = Room(r.begin, pos) /\ Len(rec) \in Nat /\ m \in Nat
         /\ rec = [i \in 1..Len(rec) |-> <<k + 1, i>>]
         /\ Taken(m) = [i \in 1..Len(rec) + m |-> <<k + 1, i>>]
         /\ Room(r.begin, pos + m) = Len(rec) + m
         /\ ~InHeader(pos + m - 1) /\ r.begin <= pos + m
         /\ pos + m \in 0..sent
         /\ InHeader(pos + m) => (pos + m) % Page = 0
<1> DEFINE b == wal[k + 1].begin
<1> DEFINE n == Room(b, pos)
<1>1. Stands(k)
  BY DEF Stands
<1>2. /\ pos \in Nat /\ sent \in Nat /\ pos <= sent /\ Laid /\ Len(wal) \in Nat
  BY <1>1, Standing
<1>3. rawSkip = 0 /\ k < Len(wal) /\ b <= pos /\ rec = [i \in 1..n |-> <<k + 1, i>>]
  BY DEF Reading
<1>4. /\ k + 1 \in 1..Len(wal) /\ b \in Int /\ wal[k + 1].end \in Int
      /\ wal[k + 1].len \in Positive /\ wal[k + 1].end = End(b, wal[k + 1].len)
  BY <1>2, <1>3, Ahead
<1>5. n \in Nat
  <2>1. \A c \in Int : Room(c, pos) \in Nat
    BY <1>2, DataIs
  <2> QED
    BY <1>4, <2>1
<1>6. ~InHeader(pos) /\ Avail \in 1..(Page - (pos % Page)) /\ Avail <= sent - pos
  BY <1>1, <1>3, Inside
<1>7. Page - (pos % Page) \in Int
  BY <1>2, <1>6, PageRest
<1>8. m \in 1..(Page - (pos % Page)) /\ m \in Nat /\ m > 0 /\ m <= sent - pos
  <2>1. Avail \in Int
    BY <1>6, <1>7
  <2> QED
    BY <1>2, <1>6, <1>7, <2>1
<1>9. /\ \A x \in pos..pos + m - 1 : ~InHeader(x)
      /\ \A c \in Int : c <= pos => Room(c, pos + m) = Room(c, pos) + m
      /\ ~InHeader(pos + m - 1)
      /\ InHeader(pos + m) => (pos + m) % Page = 0
  BY <1>2, <1>6, <1>8, Forward
<1> HIDE DEF n
<1>10. Len(rec) = n
  BY <1>3, <1>5
<1>11. Room(b, pos + m) = n + m /\ b <= pos + m /\ pos + m \in 0..sent
  <2> HIDE DEF b
  <2>1. Room(b, pos + m) = Room(b, pos) + m
    BY <1>3, <1>4, <1>9
  <2> QED
    BY <1>2, <1>3, <1>4, <1>8, <2>1 DEF n
<1>12. ASSUME NEW i \in 1..m
       PROVE  ByteAt(pos + i - 1) = <<k + 1, n + i>>
  <2> DEFINE x == pos + i - 1
  <2>1. x \in Int /\ b <= x /\ pos <= x /\ x \in pos..pos + m - 1 /\ i \in Int /\ 1 <= i /\ i <= m
    BY <1>2, <1>3, <1>4, <1>8
  <2>2. ~InHeader(x)
    BY <1>9, <2>1
  <2>3. Room(b, x) = n + i - 1
    <3>1. \A y \in pos..x - 1 : ~InHeader(y)
      BY <1>2, <1>8, <1>9, <2>1
    <3> HIDE DEF x, b
    <3>2. Room(pos, x) = x - pos
      <4>1. pos \in Int
        BY <1>2
      <4> QED
        BY <2>1, <3>1, <4>1, RoomInData
    <3>3. Room(b, x) = Room(b, pos) + Room(pos, x)
      BY <1>2, <1>3, <1>4, <2>1, RoomAdds
    <3>4. Room(b, x) = n + (x - pos)
      BY <3>2, <3>3 DEF n
    <3> QED
      BY <1>2, <1>5, <2>1, <3>4 DEF x
  <2> HIDE DEF x
  <2>4. x < wal[k + 1].end
    <3>1. Room(b, x) < wal[k + 1].len
      <4>1. wal[k + 1].len \in Int
        BY <1>4 DEF Positive
      <4> QED
        BY <1>5, <1>8, <1>10, <2>1, <2>3, <4>1
    <3> QED
      BY <1>4, <2>1, <3>1, EndReached
  <2>5. ByteAt(x) = <<k + 1, Room(b, x) + 1>>
    BY <1>2, <1>4, <2>1, <2>2, <2>4, ByteIs
  <2>6. Room(b, x) + 1 = n + i
    BY <1>5, <2>1, <2>3
  <2> QED
    BY <2>5, <2>6 DEF x
<1>13. Taken(m) = [i \in 1..n + m |-> <<k + 1, i>>]
  <2> DEFINE t == [i \in 1..m |-> ByteAt(pos + i - 1)]
  <2>1. t = [i \in 1..m |-> <<k + 1, n + i>>]
    BY <1>12
  <2>2. Taken(m) = rec \o t
    BY DEF Taken
  <2> HIDE DEF t
  <2>3. rec \o t = [i \in 1..n + m |-> <<k + 1, i>>]
    <3>1. rec = [i \in 1..n |-> <<k + 1, i>>]
      BY <1>3 DEF n
    <3>2. k + 1 \in Nat
      BY <1>4
    <3> QED
      BY <1>5, <1>8, <2>1, <3>1, <3>2, Joined
  <2> QED
    BY <2>2, <2>3
<1> QED
  BY <1>3, <1>5, <1>8, <1>9, <1>10, <1>11, <1>13 DEF n

\* The length field is read, across a page header where it must be.
LEMMA TakeLengthKeeps ==
  ASSUME WalkerIInv, TakeLength
  PROVE  WalkerIInv'
<1>1. PICK k \in 0..Len(wal) : Stands(k) /\ events = Returned(k)
  BY DEF WalkerIInv
<1>2. /\ sent \in Nat /\ Laid /\ Len(wal) \in Nat /\ Written \in Int /\ sent <= Written /\ ~failed
      /\ pos \in Nat
  BY <1>1, Standing
<1>3. rawSkip = 0 /\ pos % Page # 0 /\ skip = 0 /\ inRec /\ need = 0 /\ InLoop
  BY DEF TakeLength, AtRecords
<1>4. Reading(k)
  <2>1. ~Attaching(k) /\ ~InTail(k) /\ ~InPadding(k) /\ ~InFill(k) /\ ~Between(k)
    BY <1>3 DEF Attaching, InTail, InPadding, InFill, Between
  <2> QED
    BY <1>1, <2>1 DEF Stands
<1>5. /\ ~firstPage /\ k < Len(wal)
      /\ (need = 0 /\ Room(wal[k + 1].begin, pos) < LenField)
         \/ (need = wal[k + 1].len /\ Room(wal[k + 1].begin, pos) \in LenField..wal[k + 1].len - 1)
      /\ rec = [i \in 1..Room(wal[k + 1].begin, pos) |-> <<k + 1, i>>]
  BY <1>4 DEF Reading
<1>6. /\ k + 1 \in 1..Len(wal) /\ wal[k + 1].begin \in Int
      /\ wal[k + 1].len \in Positive /\ wal[k + 1].len > LenField
      /\ wal[k + 1].len \in Int /\ LenField \in Int /\ LenField > 0
  BY <1>2, <1>5, Ahead, Sized DEF Positive
<1>7. Len(rec) \in Nat /\ Len(rec) < LenField
  <2>1. \A b \in Int : Room(b, pos) \in Nat
    <3>1. pos \in Int
      BY <1>2
    <3> QED
      BY <3>1, DataIs
  <2>2. Room(wal[k + 1].begin, pos) \in Nat
    BY <1>6, <2>1
  <2>3. need # wal[k + 1].len
    BY <1>3, <1>6 DEF Positive
  <2> QED
    BY <1>5, <2>2, <2>3
<1>8. Avail \in Nat /\ Avail > 0
  <2>1. ~InHeader(pos) /\ Avail \in 1..(Page - (pos % Page)) /\ Page - (pos % Page) \in Int
    BY <1>1, <1>2, <1>3, Inside, PageRest
  <2> QED
    BY <2>1
<1> DEFINE m == Least(LenField - Len(rec), Avail)
<1>9. m \in 1..Avail /\ m \in Nat /\ Len(rec) + m <= LenField
  BY <1>6, <1>7, <1>8 DEF Least
<1>10. /\ wal' = wal /\ emitFrom' = emitFrom /\ sent' = sent /\ events' = events
       /\ firstPage' = firstPage /\ rawSkip' = rawSkip /\ skip' = skip /\ inRec' = inRec
       /\ rec' = Taken(m) /\ pos' = pos + m
       /\ IF Len(rec) + m < LenField
            THEN need' = need /\ failed' = failed
            ELSE IF \E j \in DOMAIN wal : rec' = [i \in 1..LenField |-> <<j, i>>]
                   THEN need' = wal[Taken(m)[1][1]].len /\ failed' = failed
                   ELSE failed' = TRUE /\ need' = need
  BY DEF TakeLength, InLoop
<1> HIDE DEF m
<1>11. Len(rec) + m <= wal[k + 1].len
  BY <1>6, <1>7, <1>9
<1>12. /\ Taken(m) = [i \in 1..Len(rec) + m |-> <<k + 1, i>>]
       /\ Room(wal[k + 1].begin, pos + m) = Len(rec) + m
       /\ wal[k + 1].begin <= pos + m
       /\ pos + m \in 0..sent
       /\ InHeader(pos + m) => (pos + m) % Page = 0
  BY <1>3, <1>4, <1>9, <1>11, TakenIs
<1>13. /\ ~failed'
       /\ (need' = 0 /\ Len(rec) + m < LenField) \/ (need' = wal[k + 1].len /\ Len(rec) + m = LenField)
  <2>1. CASE Len(rec) + m < LenField
    BY <1>2, <1>3, <1>10, <2>1
  <2>2. CASE ~(Len(rec) + m < LenField)
    <3>1. Len(rec) + m = LenField
      BY <1>6, <1>7, <1>9, <2>2
    <3>2. k + 1 \in DOMAIN wal /\ rec' = [i \in 1..LenField |-> <<k + 1, i>>]
      BY <1>2, <1>6, <1>10, <1>12, <3>1, Count
    <3>3. Taken(m)[1] = <<k + 1, 1>>
      BY <1>6, <1>12, <3>1
    <3> QED
      BY <1>2, <1>10, <2>2, <3>1, <3>2, <3>3
  <2> QED
    BY <2>1, <2>2
<1>14. Reading(k)'
  <2>1. Len(rec) + m = LenField => Len(rec) + m \in LenField..wal[k + 1].len - 1
    BY <1>6
  <2> QED
    BY <1>3, <1>5, <1>10, <1>12, <1>13, <2>1 DEF Reading
<1>15. Stands(k)'
  BY <1>14 DEF Stands
<1>16. sent' \in 0..Written /\ pos' \in 0..sent' /\ OffHeaders'
  BY <1>2, <1>10, <1>12 DEF OffHeaders
<1> QED
  BY <1>1, <1>10, <1>13, <1>15, <1>16, Resumes

\* The rest is read, and behind it the padding or the fill is to be skipped.
LEMMA TakeRecordKeeps ==
  ASSUME WalkerIInv, TakeRecord
  PROVE  WalkerIInv'
<1>1. PICK k \in 0..Len(wal) : Stands(k) /\ events = Returned(k)
  BY DEF WalkerIInv
<1>2. /\ sent \in Nat /\ Laid /\ Len(wal) \in Nat /\ Written \in Int /\ sent <= Written /\ ~failed
      /\ pos \in Nat
  BY <1>1, Standing
<1>3. rawSkip = 0 /\ pos % Page # 0 /\ skip = 0 /\ inRec /\ need > 0 /\ InLoop
  BY DEF TakeRecord, AtRecords
<1>4. Reading(k)
  <2>1. ~Attaching(k) /\ ~InTail(k) /\ ~InPadding(k) /\ ~InFill(k) /\ ~Between(k)
    BY <1>3 DEF Attaching, InTail, InPadding, InFill, Between
  <2> QED
    BY <1>1, <2>1 DEF Stands
<1>5. /\ ~firstPage /\ k < Len(wal)
      /\ (need = 0 /\ Room(wal[k + 1].begin, pos) < LenField)
         \/ (need = wal[k + 1].len /\ Room(wal[k + 1].begin, pos) \in LenField..wal[k + 1].len - 1)
      /\ rec = [i \in 1..Room(wal[k + 1].begin, pos) |-> <<k + 1, i>>]
  BY <1>4 DEF Reading
<1>6. /\ k + 1 \in 1..Len(wal) /\ k + 1 \in 0..Len(wal)
      /\ wal[k + 1].begin \in Int /\ wal[k + 1].end \in Int
      /\ wal[k + 1].end = End(wal[k + 1].begin, wal[k + 1].len)
      /\ wal[k + 1].len \in Positive /\ wal[k + 1].len > LenField /\ wal[k + 1].switch \in BOOLEAN
      /\ wal[k + 1].len \in Int /\ LenField \in Int /\ LenField > 0
  <2>1. LenField \in Int /\ LenField > 0
    BY Sized DEF Positive
  <2>2. \A n \in Positive : n \in Int
    BY DEF Positive
  <2> QED
    BY <1>2, <1>5, <2>1, <2>2, Ahead
<1>7. /\ need = wal[k + 1].len /\ Len(rec) \in LenField..wal[k + 1].len - 1
      /\ Len(rec) \in Nat /\ rec[1] = <<k + 1, 1>>
  <2>1. need = wal[k + 1].len /\ Room(wal[k + 1].begin, pos) \in LenField..wal[k + 1].len - 1
    BY <1>3, <1>5
  <2> DEFINE n == Room(wal[k + 1].begin, pos)
  <2>2. n \in LenField..wal[k + 1].len - 1 /\ rec = [i \in 1..n |-> <<k + 1, i>>]
    BY <1>5, <2>1
  <2> HIDE DEF n
  <2>3. n \in Nat /\ n > 0
    BY <1>6, <2>2
  <2> QED
    BY <2>1, <2>2, <2>3
<1>8. Avail \in Nat /\ Avail > 0
  <2>1. ~InHeader(pos) /\ Avail \in 1..(Page - (pos % Page)) /\ Page - (pos % Page) \in Int
    BY <1>1, <1>2, <1>3, Inside, PageRest
  <2> QED
    BY <2>1
<1> DEFINE m == Least(need - Len(rec), Avail)
<1>9. m \in 1..Avail /\ m \in Nat /\ Len(rec) + m <= wal[k + 1].len
  BY <1>6, <1>7, <1>8 DEF Least
<1>10. /\ wal' = wal /\ emitFrom' = emitFrom /\ sent' = sent /\ failed' = failed
       /\ firstPage' = firstPage /\ skip' = skip /\ pos' = pos + m
       /\ IF Len(rec) + m = need
            THEN /\ inRec' = FALSE /\ rec' = <<>> /\ need' = 0
                 /\ events' = IF IsNews(pos + m) THEN Append(events, Taken(m)) ELSE events
                 /\ rawSkip' = FillBehind(rec[1][1], pos + m)
            ELSE /\ rec' = Taken(m) /\ inRec' = inRec /\ need' = need /\ events' = events
                 /\ rawSkip' = rawSkip
  BY DEF TakeRecord, InLoop
<1> HIDE DEF m
<1>11. /\ Taken(m) = [i \in 1..Len(rec) + m |-> <<k + 1, i>>]
       /\ Room(wal[k + 1].begin, pos + m) = Len(rec) + m
       /\ ~InHeader(pos + m - 1) /\ wal[k + 1].begin <= pos + m
       /\ pos + m \in 0..sent
       /\ InHeader(pos + m) => (pos + m) % Page = 0
  BY <1>3, <1>4, <1>9, TakenIs
<1>12. sent' \in 0..Written /\ pos' \in 0..sent' /\ OffHeaders'
  BY <1>2, <1>10, <1>11 DEF OffHeaders
<1>13. CASE Len(rec) + m # need
  <2>1. Len(rec) + m \in LenField..wal[k + 1].len - 1
    BY <1>6, <1>7, <1>9, <1>13
  <2>2. Reading(k)'
    BY <1>3, <1>5, <1>7, <1>10, <1>11, <1>13, <2>1 DEF Reading
  <2>3. Stands(k)'
    BY <2>2 DEF Stands
  <2> QED
    BY <1>1, <1>2, <1>10, <1>12, <1>13, <2>3, Resumes
<1>14. CASE Len(rec) + m = need
  <2>1. pos + m = wal[k + 1].end
    <3> DEFINE q == pos + m
    <3>1. q \in Int /\ wal[k + 1].begin <= q /\ Room(wal[k + 1].begin, q) = wal[k + 1].len
      BY <1>2, <1>7, <1>9, <1>11, <1>14
    <3>2. q - 1 = pos + m - 1
      BY <1>2, <1>9
    <3>3. ~InHeader(q - 1)
      <4>1. ~InHeader(pos + m - 1)
        BY <1>11
      <4> HIDE DEF q
      <4> QED
        BY <3>2, <4>1
    <3> HIDE DEF q
    <3>4. q = wal[k + 1].end
      BY <1>6, <3>1, <3>3, EndReached
    <3> QED
      BY <3>4 DEF q
  <2>2. Taken(m) = Bytes(k + 1)
    BY <1>7, <1>11, <1>14 DEF Bytes
  <2>3. rawSkip' = FillBehind(k + 1, wal[k + 1].end)
    BY <1>7, <1>10, <1>14, <2>1
  \* What follows it is padding, or the zeros of a switch.
  <2>4. Stands(k + 1)'
    <3>1. /\ After(k + 1) \in Int
          /\ wal[k + 1].switch => After(k + 1) = Up(wal[k + 1].end, Seg)
      BY <1>2, <1>6, RecordIs
    <3>2. After(k + 1)' = After(k + 1) /\ k + 1 > 0
      BY <1>2, <1>10, Kept
    <3>3. CASE ~wal[k + 1].switch
      <4>1. rawSkip' = 0
        BY <2>3, <3>3 DEF FillBehind
      <4>2. Between(k + 1)'
        BY <1>3, <1>5, <1>10, <1>14, <2>1, <3>2, <3>3, <4>1 DEF Between
      <4> QED
        BY <4>2 DEF Stands
    <3>4. CASE wal[k + 1].switch
      <4> DEFINE e == wal[k + 1].end
      <4>1. rawSkip' = (-e) % Seg /\ After(k + 1) = e + ((-e) % Seg)
        BY <2>3, <3>1, <3>4 DEF FillBehind, Up
      <4>2. Seg \in Positive /\ Seg \in Int /\ e \in Int /\ -e \in Int
        BY <1>6, Sized DEF Positive
      <4> HIDE DEF e
      <4>3. (-e) % Seg \in 0..Seg - 1
        BY <4>2, ModIs
      <4>4. rawSkip' \in 0..Seg - 1 /\ e + rawSkip' = After(k + 1)
        BY <4>1, <4>3
      <4>5. CASE rawSkip' = 0
        <5>1. e = After(k + 1)
          BY <4>2, <4>4, <4>5
        <5>2. Between(k + 1)'
          BY <1>3, <1>5, <1>10, <1>14, <2>1, <3>2, <4>5, <5>1 DEF Between, e
        <5> QED
          BY <5>2 DEF Stands
      <4>6. CASE rawSkip' # 0
        <5>1. rawSkip' \in 1..Seg - 1 /\ e <= e
          BY <4>2, <4>4, <4>6
        <5>2. InFill(k + 1)'
          BY <1>3, <1>5, <1>10, <1>14, <2>1, <3>2, <3>4, <4>4, <5>1 DEF InFill, e
        <5> QED
          BY <5>2 DEF Stands
      <4> QED
        BY <4>5, <4>6
    <3> QED
      BY <1>6, <3>3, <3>4
  <2>5. /\ First \in 1..Len(wal) /\ wal[First].begin = emitFrom /\ emitFrom \in Int
        /\ \A j \in 1..Len(wal) : wal[j].begin < emitFrom <=> j < First
    BY FirstIs DEF WalkerIInv
  \* It is news if it begins at or behind the watermark.
  <2>6. IsNews(pos + m) <=> First <= k + 1
    <3>1. First < k + 1 \/ First = k + 1 \/ k + 1 < First
      BY <1>2, <2>5
    <3>2. wal[k + 1].begin < wal[k + 1].end
      BY <1>2, <1>6, RecordIs
    <3>3. CASE k + 1 < First
      <4>1. wal[k + 1].end <= wal[First].begin
        BY <1>2, <1>6, <2>5, <3>3, Follows
      <4> QED
        BY <1>2, <1>6, <2>1, <2>5, <3>3, <4>1 DEF IsNews
    <3>4. CASE First <= k + 1
      <4>1. ~(wal[k + 1].begin < emitFrom)
        BY <1>2, <1>6, <2>5, <3>4
      <4> QED
        BY <1>6, <2>1, <2>5, <3>2, <3>4, <4>1 DEF IsNews
    <3> QED
      BY <1>2, <2>5, <3>1, <3>3, <3>4
  <2>7. First \in Int /\ First \in Nat /\ k \in Nat /\ k + 1 \in Nat
    BY <1>2, <2>5
  <2>8. CASE k + 1 < First
    <3>1. events' = events
      BY <1>2, <1>10, <1>14, <2>5, <2>6, <2>8
    <3>2. Returned(k) = <<>> /\ Returned(k + 1) = <<>>
      BY <2>7, <2>8, ReturnedIs
    <3> QED
      BY <1>1, <1>2, <1>6, <1>10, <1>12, <2>4, <3>1, <3>2, Resumes
  <2>9. CASE First <= k + 1
    <3>1. events' = Append(events, Bytes(k + 1))
      BY <1>10, <1>14, <2>2, <2>6, <2>9
    <3>2. Returned(k + 1) = Append(Returned(k), Bytes(k + 1))
      BY <2>7, <2>9, ReturnedIs
    <3> QED
      BY <1>1, <1>2, <1>6, <1>10, <1>12, <2>4, <2>7, <3>1, <3>2, Resumes
  <2> QED
    BY <1>2, <2>7, <2>8, <2>9
<1> QED
  BY <1>13, <1>14

------------------------------------------------------------------------------
\* The framing never loses its way.

\* Every step of the walker and of the server keeps the invariant.
LEMMA StepKeeps ==
  ASSUME WalkerIInv, [Next]_vars
  PROVE  WalkerIInv'
<1>1. CASE UNCHANGED vars
  <2>1. /\ wal' = wal /\ emitFrom' = emitFrom /\ sent' = sent /\ pos' = pos /\ skip' = skip
        /\ rawSkip' = rawSkip /\ inRec' = inRec /\ rec' = rec /\ need' = need
        /\ firstPage' = firstPage /\ events' = events /\ failed' = failed
    BY <1>1 DEF vars
  <2>2. PICK k \in 0..Len(wal) : Stands(k) /\ events = Returned(k)
    BY DEF WalkerIInv
  <2>3. Stands(k)'
    BY <2>1, <2>2, Kept
       DEF Stands, Attaching, InTail, InPadding, InFill, Between, Reading
  <2>4. sent' \in 0..Written /\ pos' \in 0..sent' /\ ~failed' /\ OffHeaders'
    BY <2>1 DEF WalkerIInv, NeverDesyncs, OffHeaders
  <2> QED
    BY <2>1, <2>2, <2>3, <2>4, Resumes
<1>2. CASE \E n \in Chunks : Feed(n)
  BY <1>2, FeedKeeps
<1>3. CASE SkipZeros
  BY <1>3, SkipZerosKeeps
<1>4. CASE TakePageHeader
  BY <1>4, TakePageHeaderKeeps
<1>5. CASE SkipBytes
  BY <1>5, SkipBytesKeeps
<1>6. CASE BeginRecord
  BY <1>6, BeginRecordKeeps
<1>7. CASE TakeLength
  BY <1>7, TakeLengthKeeps
<1>8. CASE TakeRecord
  BY <1>8, TakeRecordKeeps
<1> QED
  BY <1>1, <1>2, <1>3, <1>4, <1>5, <1>6, <1>7, <1>8 DEF Next

\* Whatever the sizes of pages and segments, the lengths of the records and of the chunks
\* they arrive in: between two steps the walker stands between records, in one of which it
\* has every byte so far, or in what is to be skipped, and has returned the news behind it
\* (XLogWalker.feed).
THEOREM WalkerInvariant ==
  ASSUME ~EntryInSwitch
  PROVE  Spec => []WalkerIInv
<1>1. Init => WalkerIInv
  BY InitStands
<1>2. WalkerIInv /\ [Next]_vars => WalkerIInv'
  BY StepKeeps
<1> QED
  BY <1>1, <1>2, PTL DEF Spec

\* It never raises WalSyncError on a well-formed WAL, unless the stream begins inside a
\* segment switch (_walk, _take_page_header, _begin_record, _take_length).
THEOREM WalkerNeverDesyncs ==
  ASSUME ~EntryInSwitch
  PROVE  Spec => []NeverDesyncs
<1>1. WalkerIInv => NeverDesyncs
  BY DEF WalkerIInv
<1> QED
  BY <1>1, WalkerInvariant, PTL

\* The news are the records from the first one on.
LEMMA NewsIs ==
  ASSUME WalkerIInv
  PROVE  /\ First \in 1..Len(wal) /\ Len(wal) \in Nat
         /\ News = First..Len(wal) /\ Cardinality(News) = Len(wal) + 1 - First
<1>1. Len(wal) \in Nat /\ DOMAIN wal = 1..Len(wal) /\ Laid
  BY Count DEF WalkerIInv
<1>2. /\ First \in 1..Len(wal) /\ wal[First].begin = emitFrom /\ emitFrom \in Int
      /\ \A k \in 1..Len(wal) : wal[k].begin < emitFrom <=> k < First
  BY <1>1, FirstIs DEF WalkerIInv
<1>3. ASSUME NEW k \in 1..Len(wal)
      PROVE  wal[k].begin >= emitFrom <=> First <= k
  <2>1. wal[k].begin \in Int
    BY <1>1, RecordIs
  <2> QED
    BY <1>1, <1>2, <2>1
<1>4. News = First..Len(wal)
  BY <1>1, <1>2, <1>3 DEF News
<1>5. Cardinality(First..Len(wal)) = Len(wal) + 1 - First
  <2>1. Cardinality(First..Len(wal)) = IF First > Len(wal) THEN 0 ELSE Len(wal) - First + 1
    BY <1>1, <1>2, FS_Interval
  <2> QED
    BY <1>1, <1>2, <2>1
<1> QED
  BY <1>1, <1>2, <1>4, <1>5

\* What it returns are the records from emit_from on, in order, each once and whole,
\* without the page headers that cut it (_finish_record).
THEOREM WalkerReturnsTheNews ==
  ASSUME ~EntryInSwitch
  PROVE  Spec => []ReturnsTheNews
<1>1. ASSUME WalkerIInv
      PROVE  ReturnsTheNews
  <2>1. PICK k \in 0..Len(wal) : events = Returned(k)
    BY <1>1 DEF WalkerIInv
  <2>2. /\ First \in 1..Len(wal) /\ Len(wal) \in Nat
        /\ Cardinality(News) = Len(wal) + 1 - First
    BY <1>1, NewsIs
  <2>3. SUFFICES ASSUME NEW i \in DOMAIN events
                 PROVE  events[i] = Bytes(i + Len(wal) - Cardinality(News))
    BY DEF ReturnsTheNews
  <2>4. i \in 1..k + 1 - First /\ events[i] = Bytes(i + First - 1)
    BY <2>1 DEF Returned
  <2>5. i + Len(wal) - Cardinality(News) = i + First - 1
    BY <2>2, <2>4
  <2> QED
    BY <2>4, <2>5
<1> QED
  BY <1>1, WalkerInvariant, PTL

\* What the buffer may hold back is less than a page header.
LEMMA DrainedIs ==
  ASSUME WalkerIInv, NEW k \in 0..Len(wal), Stands(k), Drained, k < Len(wal)
  PROVE  sent < wal[k + 1].end
<1>1. /\ Laid /\ Passed(k) /\ pos \in Nat /\ sent \in Nat /\ ~failed
  BY Standing
<1>2. /\ k + 1 \in 1..Len(wal) /\ wal[k + 1].begin \in Int
      /\ wal[k + 1].end \in Int /\ wal[k + 1].len \in Positive
      /\ wal[k + 1].end = End(wal[k + 1].begin, wal[k + 1].len)
  BY <1>1, Ahead
<1>3. pos < wal[k + 1].end
  BY <1>1 DEF Passed
<1>4. CASE pos = sent
  BY <1>3, <1>4
<1>5. CASE pos % Page = 0 /\ sent - pos < HeaderSize(pos)
  <2>1. HeaderSize(pos) \in 1..Page - 1 /\ Page \in Int
    <3>1. Page \in Int /\ pos \in Int
      BY <1>1, Sized DEF Positive
    <3> QED
      BY <3>1, HeaderIs
  <2>2. \A x \in pos..pos + HeaderSize(pos) - 1 : InHeader(x)
    BY <1>1, <1>5, PageHas
  <2>3. ~InHeader(wal[k + 1].end - 1)
    BY <1>2, EndIs
  <2>4. wal[k + 1].end - 1 \notin pos..pos + HeaderSize(pos) - 1
    BY <2>2, <2>3
  <2> QED
    BY <1>1, <1>2, <1>3, <1>5, <2>1, <2>4
<1> QED
  BY <1>1, <1>4, <1>5 DEF Drained

\* When it waits for more, every record of the news that has arrived was returned: no
\* commit waits in the buffer for the next chunk (feed).
THEOREM WalkerHoldsNothingBack ==
  ASSUME ~EntryInSwitch
  PROVE  Spec => []NothingHeldBack
<1>1. ASSUME WalkerIInv
      PROVE  NothingHeldBack
  <2>1. SUFFICES ASSUME Drained
                 PROVE  Len(events) = Cardinality({k \in News : wal[k].end <= sent})
    BY DEF NothingHeldBack
  <2>2. PICK k \in 0..Len(wal) : Stands(k) /\ events = Returned(k)
    BY <1>1 DEF WalkerIInv
  <2>3. /\ Laid /\ Passed(k) /\ Len(wal) \in Nat
        /\ pos \in Nat /\ sent \in Nat /\ pos <= sent
    BY <1>1, <2>2, Standing
  <2>4. First \in 1..Len(wal) /\ News = First..Len(wal)
    BY <1>1, NewsIs
  <2>5. ASSUME NEW j \in 1..Len(wal)
        PROVE  wal[j].end <= sent <=> j <= k
    <3>1. wal[j].end \in Int
      BY <2>3, RecordIs
    <3>2. CASE j <= k
      <4>1. k \in 1..Len(wal) /\ k > 0
        BY <2>3, <3>2
      <4>2. wal[k].end \in Int /\ wal[k].end <= pos
        BY <2>3, <4>1, RecordIs DEF Passed
      <4>3. j < k => wal[j].end < wal[k].end
        BY <2>3, <4>1, Follows
      <4> QED
        BY <2>3, <3>1, <3>2, <4>1, <4>2, <4>3
    <3>3. CASE k < j
      <4>1. k < Len(wal) /\ k + 1 \in 1..Len(wal)
        BY <2>3, <3>3
      <4>2. wal[k + 1].end \in Int /\ sent < wal[k + 1].end
        BY <1>1, <2>1, <2>2, <2>3, <4>1, RecordIs, DrainedIs
      <4>3. k + 1 < j => wal[k + 1].end < wal[j].end
        BY <2>3, <4>1, Follows
      <4> QED
        BY <2>3, <3>1, <3>3, <4>2, <4>3
    <3> QED
      BY <2>3, <3>2, <3>3
  <2>6. {j \in News : wal[j].end <= sent} = First..k
    BY <2>3, <2>4, <2>5
  <2>7. Cardinality(First..k) = IF First > k THEN 0 ELSE k - First + 1
    BY <2>3, <2>4, FS_Interval
  <2>8. First \in Int /\ k \in Nat
    BY <2>3, <2>4
  <2>9. Len(events) = IF First > k THEN 0 ELSE k - First + 1
    <3>1. CASE k < First
      <4>1. events = <<>>
        BY <2>2, <2>8, <3>1, ReturnedIs
      <4> QED
        BY <2>8, <3>1, <4>1
    <3>2. CASE First <= k
      <4>1. Len(Returned(k)) = k + 1 - First
        BY <2>8, <3>2, ReturnedIs
      <4> QED
        BY <2>2, <2>8, <3>2, <4>1
    <3> QED
      BY <2>8, <3>1, <3>2
  <2> QED
    BY <2>6, <2>7, <2>9
<1> QED
  BY <1>1, WalkerInvariant, PTL

------------------------------------------------------------------------------
\* Sums.

SumsOf(g, f, n) == g = [m \in 0..n |-> IF m = 0 THEN 0 ELSE g[m - 1] + f[m]]

\* A sum of n terms is a function of how many of them are taken.
LEMMA SumsExist ==
  ASSUME NEW f, NEW n \in Nat
  PROVE  \E g : SumsOf(g, f, n)
<1> DEFINE T == {m \in Nat : \E g : SumsOf(g, f, m)}
<1>1. 0 \in T
  <2>1. SumsOf([m \in 0..0 |-> 0], f, 0)
    BY DEF SumsOf
  <2> QED
    BY <2>1
<1>2. ASSUME NEW m \in T
      PROVE  m + 1 \in T
  <2>1. PICK g : SumsOf(g, f, m)
    BY <1>2
  <2> DEFINE h == [i \in 0..m + 1 |-> IF i = m + 1 THEN g[m] + f[m + 1] ELSE g[i]]
  <2>2. m \in Nat /\ m + 1 \in Nat
    BY <1>2
  <2>3. ASSUME NEW i \in 0..m + 1
        PROVE  h[i] = IF i = 0 THEN 0 ELSE h[i - 1] + f[i]
    <3>1. CASE i = m + 1
      <4>1. i # 0 /\ i - 1 = m /\ i - 1 \in 0..m + 1 /\ i - 1 # m + 1
        BY <2>2, <3>1
      <4>2. h[i] = g[m] + f[m + 1] /\ h[i - 1] = g[i - 1]
        BY <3>1, <4>1
      <4> QED
        BY <3>1, <4>1, <4>2
    <3>2. CASE i # m + 1
      <4>1. i \in 0..m
        BY <2>2, <3>2
      <4>2. g[i] = IF i = 0 THEN 0 ELSE g[i - 1] + f[i]
        BY <2>1, <4>1 DEF SumsOf
      <4>3. h[i] = g[i]
        BY <3>2
      <4>4. i # 0 => i - 1 \in 0..m + 1 /\ i - 1 # m + 1
        BY <2>2, <4>1
      <4>5. i # 0 => h[i - 1] = g[i - 1]
        BY <4>4
      <4> QED
        BY <4>2, <4>3, <4>5
    <3> QED
      BY <3>1, <3>2
  <2> HIDE DEF h
  <2>4. h = [i \in 0..m + 1 |-> h[i]]
    BY DEF h
  <2>5. SumsOf(h, f, m + 1)
    BY <2>3, <2>4 DEF SumsOf
  <2> QED
    BY <2>2, <2>5
<1> HIDE DEF T
<1>3. T = Nat
  <2>1. T \in SUBSET Nat
    BY DEF T
  <2> QED
    BY <1>1, <1>2, <2>1, Induct
<1> QED
  BY <1>3 DEF T

\* Longer sums agree with shorter ones.
LEMMA SumsAgree ==
  ASSUME NEW f, NEW n \in Nat, NEW k \in Nat, NEW g, NEW h, SumsOf(g, f, n), SumsOf(h, f, k),
         NEW m \in Nat, m <= n, m <= k
  PROVE  g[m] = h[m]
<1> DEFINE T == {i \in Nat : i <= n /\ i <= k => g[i] = h[i]}
<1>1. \A i \in 0..n : g[i] = IF i = 0 THEN 0 ELSE g[i - 1] + f[i]
  BY DEF SumsOf
<1>2. \A i \in 0..k : h[i] = IF i = 0 THEN 0 ELSE h[i - 1] + f[i]
  BY DEF SumsOf
<1>3. 0 \in T
  <2>1. 0 \in 0..n /\ 0 \in 0..k
    OBVIOUS
  <2>2. g[0] = 0 /\ h[0] = 0
    BY <1>1, <1>2, <2>1
  <2> QED
    BY <2>2
<1>4. ASSUME NEW i \in T
      PROVE  i + 1 \in T
  <2>1. SUFFICES ASSUME i + 1 <= n, i + 1 <= k
                 PROVE  g[i + 1] = h[i + 1]
    BY <1>4
  <2>2. i \in Nat /\ g[i] = h[i]
    BY <1>4, <2>1
  <2>3. i + 1 \in 0..n /\ i + 1 \in 0..k /\ i + 1 # 0 /\ (i + 1) - 1 = i
    BY <2>1, <2>2
  <2>4. g[i + 1] = g[(i + 1) - 1] + f[i + 1]
    BY <1>1, <2>3
  <2>5. h[i + 1] = h[(i + 1) - 1] + f[i + 1]
    BY <1>2, <2>3
  <2> QED
    BY <2>2, <2>3, <2>4, <2>5
<1> HIDE DEF T
<1>5. T = Nat
  <2>1. T \in SUBSET Nat
    BY DEF T
  <2> QED
    BY <1>3, <1>4, <2>1, Induct
<1> QED
  BY <1>5 DEF T

\* So the recursion defines one.
LEMMA SumToIs ==
  ASSUME NEW f
  PROVE  /\ SumTo(f, 0) = 0
         /\ \A n \in Nat : SumTo(f, n + 1) = SumTo(f, n) + f[n + 1]
<1> DEFINE Sums(g) == g = [m \in Nat |-> IF m = 0 THEN 0 ELSE g[m - 1] + f[m]]
<1> DEFINE part(n) == CHOOSE g : SumsOf(g, f, n)
<1> DEFINE all == [n \in Nat |-> part(n)[n]]
<1>1. \A n \in Nat : SumsOf(part(n), f, n)
  BY SumsExist
<1> HIDE DEF part
<1>2. ASSUME NEW n \in Nat
      PROVE  all[n] = IF n = 0 THEN 0 ELSE all[n - 1] + f[n]
  <2>1. part(n)[n] = IF n = 0 THEN 0 ELSE part(n)[n - 1] + f[n]
    BY <1>1 DEF SumsOf
  <2>2. CASE n = 0
    BY <2>1, <2>2
  <2>3. CASE n # 0
    <3>1. n - 1 \in Nat /\ n - 1 <= n
      BY <2>3
    <3>2. part(n)[n - 1] = part(n - 1)[n - 1]
      BY <1>1, <3>1, SumsAgree
    <3>3. all[n - 1] = part(n - 1)[n - 1] /\ all[n] = part(n)[n]
      BY <3>1
    <3> QED
      BY <2>1, <2>3, <3>2, <3>3
  <2> QED
    BY <2>2, <2>3
<1> HIDE DEF all
<1>3. all = [n \in Nat |-> all[n]]
  BY DEF all
<1>4. Sums(all)
  BY <1>2, <1>3
<1> DEFINE up == CHOOSE g : Sums(g)
<1>5. Sums(up)
  BY <1>4
<1>6. \A n : SumTo(f, n) = up[n]
  BY DEF SumTo
<1> HIDE DEF up
<1>7. \A n \in Nat : up[n] = IF n = 0 THEN 0 ELSE up[n - 1] + f[n]
  BY <1>5
<1>8. SumTo(f, 0) = 0
  BY <1>6, <1>7
<1>9. ASSUME NEW n \in Nat
      PROVE  SumTo(f, n + 1) = SumTo(f, n) + f[n + 1]
  <2>1. n + 1 \in Nat /\ n + 1 # 0 /\ (n + 1) - 1 = n
    OBVIOUS
  <2>2. up[n + 1] = up[(n + 1) - 1] + f[n + 1]
    BY <1>7, <2>1
  <2> QED
    BY <1>6, <2>1, <2>2
<1> QED
  BY <1>8, <1>9

\* A sum of numbers is one.
LEMMA SumToNat ==
  ASSUME NEW n \in Nat, NEW f, \A i \in 1..n : f[i] \in Nat, NEW m \in 0..n
  PROVE  SumTo(f, m) \in Nat
<1> DEFINE T == {i \in Nat : i <= n => SumTo(f, i) \in Nat}
<1>1. 0 \in T
  BY SumToIs
<1>2. ASSUME NEW i \in T
      PROVE  i + 1 \in T
  <2>1. SUFFICES ASSUME i + 1 <= n
                 PROVE  SumTo(f, i + 1) \in Nat
    BY <1>2
  <2>2. i \in Nat /\ SumTo(f, i) \in Nat /\ i + 1 \in 1..n
    BY <1>2, <2>1
  <2>3. SumTo(f, i + 1) = SumTo(f, i) + f[i + 1] /\ f[i + 1] \in Nat
    BY <2>2, SumToIs
  <2> QED
    BY <2>2, <2>3
<1> HIDE DEF T
<1>3. T = Nat
  <2>1. T \in SUBSET Nat
    BY DEF T
  <2> QED
    BY <1>1, <1>2, <2>1, Induct
<1> QED
  BY <1>3 DEF T

\* The same terms have the same sum,
LEMMA SumToSame ==
  ASSUME NEW n \in Nat, NEW f, NEW g, \A i \in 1..n : f[i] = g[i], NEW m \in 0..n
  PROVE  SumTo(f, m) = SumTo(g, m)
<1> DEFINE T == {i \in Nat : i <= n => SumTo(f, i) = SumTo(g, i)}
<1>1. 0 \in T
  BY SumToIs
<1>2. ASSUME NEW i \in T
      PROVE  i + 1 \in T
  <2>1. SUFFICES ASSUME i + 1 <= n
                 PROVE  SumTo(f, i + 1) = SumTo(g, i + 1)
    BY <1>2
  <2>2. i \in Nat /\ SumTo(f, i) = SumTo(g, i) /\ i + 1 \in 1..n
    BY <1>2, <2>1
  <2>3. SumTo(f, i + 1) = SumTo(f, i) + f[i + 1] /\ SumTo(g, i + 1) = SumTo(g, i) + g[i + 1]
    BY <2>2, SumToIs
  <2> QED
    BY <2>2, <2>3
<1> HIDE DEF T
<1>3. T = Nat
  <2>1. T \in SUBSET Nat
    BY DEF T
  <2> QED
    BY <1>1, <1>2, <2>1, Induct
<1> QED
  BY <1>3 DEF T

\* and more of them no smaller one.
LEMMA SumToGrows ==
  ASSUME NEW n \in Nat, NEW f, \A i \in 1..n : f[i] \in Nat, NEW k \in 0..n, NEW m \in k..n
  PROVE  SumTo(f, k) <= SumTo(f, m)
<1> DEFINE T == {i \in Nat : k <= i /\ i <= n => SumTo(f, k) <= SumTo(f, i)}
<1>0. \A i \in 0..n : SumTo(f, i) \in Nat
  BY SumToNat
<1>1. 0 \in T
  BY <1>0
<1>2. ASSUME NEW i \in T
      PROVE  i + 1 \in T
  <2>1. SUFFICES ASSUME k <= i + 1, i + 1 <= n
                 PROVE  SumTo(f, k) <= SumTo(f, i + 1)
    BY <1>2
  <2>2. i \in Nat /\ i \in 0..n /\ i + 1 \in 1..n /\ (k <= i => SumTo(f, k) <= SumTo(f, i))
    BY <1>2, <2>1
  <2>3. SumTo(f, i + 1) = SumTo(f, i) + f[i + 1] /\ f[i + 1] \in Nat
    BY <2>2, SumToIs
  <2>4. SumTo(f, k) \in Nat /\ SumTo(f, i) \in Nat
    BY <1>0, <2>2
  <2>5. k = i + 1 \/ k <= i
    BY <2>1, <2>2
  <2> QED
    BY <2>2, <2>3, <2>4, <2>5
<1> HIDE DEF T
<1>3. T = Nat
  <2>1. T \in SUBSET Nat
    BY DEF T
  <2> QED
    BY <1>1, <1>2, <2>1, Induct
<1> QED
  BY <1>3 DEF T

------------------------------------------------------------------------------
\* The sections of a record's main data.

Sections == [name : {"row", "time", "xinfo", "dbinfo", "subxacts", "more"}, size : Nat]

\* The size of the first n sections.
LEMMA SizeToIs ==
  ASSUME NEW s \in Seq(Sections)
  PROVE  /\ SizeTo(s, 0) = 0 /\ Len(s) \in Nat
         /\ \A n \in 0..Len(s) : SizeTo(s, n) \in Nat
         /\ \A n \in 1..Len(s) : SizeTo(s, n) = SizeTo(s, n - 1) + s[n].size
<1> DEFINE f == [i \in DOMAIN s |-> s[i].size]
<1>1. Len(s) \in Nat /\ DOMAIN s = 1..Len(s)
  OBVIOUS
<1>2. \A i \in 1..Len(s) : f[i] = s[i].size /\ f[i] \in Nat
  <2>1. \A i \in 1..Len(s) : s[i] \in Sections
    BY <1>1
  <2>2. \A t \in Sections : t.size \in Nat
    BY DEF Sections
  <2>3. \A i \in 1..Len(s) : f[i] = s[i].size
    BY <1>1
  <2> HIDE DEF f
  <2> QED
    BY <2>1, <2>2, <2>3
<1>3. \A n : SizeTo(s, n) = SumTo(f, n)
  BY DEF SizeTo
<1> HIDE DEF f
<1>4. SumTo(f, 0) = 0
  BY SumToIs
<1>5. \A n \in 0..Len(s) : SumTo(f, n) \in Nat
  BY <1>1, <1>2, SumToNat
<1>6. ASSUME NEW n \in 1..Len(s)
      PROVE  SumTo(f, n) = SumTo(f, n - 1) + f[n]
  <2>1. n - 1 \in Nat /\ (n - 1) + 1 = n
    BY <1>1
  <2>2. SumTo(f, (n - 1) + 1) = SumTo(f, n - 1) + f[(n - 1) + 1]
    BY <2>1, SumToIs
  <2> QED
    BY <2>1, <2>2
<1> QED
  BY <1>1, <1>2, <1>3, <1>4, <1>5, <1>6

\* A section more.
LEMMA OneMore ==
  ASSUME NEW s \in Seq(Sections), NEW t \in Sections
  PROVE  LET u == s \o <<t>> IN
         /\ u \in Seq(Sections) /\ Len(u) = Len(s) + 1
         /\ \A i \in 1..Len(s) : u[i] = s[i] /\ SizeTo(u, i - 1) = SizeTo(s, i - 1)
         /\ u[Len(s) + 1] = t /\ SizeTo(u, Len(s)) = Total(s)
         /\ Total(u) = Total(s) + t.size
<1> DEFINE u == s \o <<t>>
<1>1. <<t>> \in Seq(Sections) /\ Len(<<t>>) = 1 /\ <<t>>[1] = t
  OBVIOUS
<1>2. /\ u \in Seq(Sections) /\ Len(u) = Len(s) + Len(<<t>>)
      /\ \A i \in 1..Len(s) + Len(<<t>>) : u[i] = IF i <= Len(s) THEN s[i] ELSE <<t>>[i - Len(s)]
  BY <1>1, ConcatProperties
<1> HIDE DEF u
<1>3. Len(s) \in Nat /\ DOMAIN s = 1..Len(s) /\ Len(u) = Len(s) + 1
  BY <1>1, <1>2
<1>4. (\A i \in 1..Len(s) : u[i] = s[i]) /\ u[Len(s) + 1] = t
  BY <1>1, <1>2, <1>3
<1>5. ASSUME NEW m \in 0..Len(s)
      PROVE  SizeTo(u, m) = SizeTo(s, m)
  <2> DEFINE f == [i \in DOMAIN s |-> s[i].size]
  <2> DEFINE g == [i \in DOMAIN u |-> u[i].size]
  <2>1. DOMAIN u = 1..Len(s) + 1
    BY <1>2, <1>3
  <2>2. \A i \in 1..Len(s) : f[i] = g[i]
    BY <1>3, <1>4, <2>1
  <2>3. SizeTo(u, m) = SumTo(g, m) /\ SizeTo(s, m) = SumTo(f, m)
    BY DEF SizeTo
  <2> HIDE DEF f, g
  <2> QED
    BY <1>3, <2>2, <2>3, SumToSame
<1>6. Total(u) = Total(s) + t.size
  <2>1. Len(s) + 1 \in 1..Len(u) /\ (Len(s) + 1) - 1 = Len(s) /\ Len(s) \in 0..Len(s)
    BY <1>3
  <2>2. SizeTo(u, Len(s) + 1) = SizeTo(u, (Len(s) + 1) - 1) + u[Len(s) + 1].size
    BY <1>2, <2>1, SizeToIs
  <2> QED
    BY <1>3, <1>4, <1>5, <2>1, <2>2 DEF Total
<1>7. \A i \in 1..Len(s) : i - 1 \in 0..Len(s)
  BY <1>3
<1>8. SizeTo(u, Len(s)) = Total(s)
  BY <1>3, <1>5 DEF Total
<1> QED
  BY <1>2, <1>3, <1>4, <1>5, <1>6, <1>7, <1>8 DEF u

\* And one that is not there.
LEMMA NoMore ==
  ASSUME NEW s \in Seq(Sections)
  PROVE  s \o <<>> = s
BY ConcatEmptySeq

\* What an outcome's sections are, and where the subtransactions lie among them.
OutcomeLaid(s, db, n) ==
  /\ s \in Seq(Sections)
  /\ (\E i \in 1..Len(s) : s[i].name = "dbinfo") <=> db
  /\ n = 0 => \A i \in 1..Len(s) : s[i].name # "subxacts"
  /\ n > 0 => \E i \in 1..Len(s) :
       /\ s[i] = Section("subxacts", 4 + 4 * n)
       /\ SizeTo(s, i - 1) = 12 + (IF db THEN 8 ELSE 0)
       /\ \A j \in 1..Len(s) : s[j].name = "subxacts" => j = i

\* An outcome is laid out like that.
LEMMA OutcomeIs ==
  ASSUME NEW db \in BOOLEAN, NEW n \in Nat, NEW more \in BOOLEAN
  PROVE  OutcomeLaid(Outcome(db, n, more), db, n)
<1> DEFINE a == Section("time", 8)
           b == Section("xinfo", 4)
           c == Section("dbinfo", 8)
           d == Section("subxacts", 4 + 4 * n)
           e == Section("more", 24)
<1>1. /\ a \in Sections /\ b \in Sections /\ c \in Sections /\ d \in Sections /\ e \in Sections
      /\ a.name = "time" /\ b.name = "xinfo" /\ c.name = "dbinfo" /\ d.name = "subxacts" /\ e.name = "more"
      /\ a.size = 8 /\ b.size = 4 /\ c.size = 8
  BY DEF Sections, Section
<1> DEFINE s1 == <<a>>
           s2 == s1 \o (IF db \/ n > 0 \/ more THEN <<b>> ELSE <<>>)
           s3 == s2 \o (IF db THEN <<c>> ELSE <<>>)
           s4 == s3 \o (IF n > 0 THEN <<d>> ELSE <<>>)
           s5 == s4 \o (IF more THEN <<e>> ELSE <<>>)
<1>2. Outcome(db, n, more) = s5
  BY DEF Outcome
<1>3. d = Section("subxacts", 4 + 4 * n)
  OBVIOUS
<1> HIDE DEF a, b, c, d, e
<1>4. s1 \in Seq(Sections) /\ Len(s1) = 1 /\ s1[1] = a /\ Total(s1) = 8
  <2>1. s1 \in Seq(Sections) /\ Len(s1) = 1 /\ s1[1] = a
    BY <1>1
  <2> HIDE DEF s1
  <2>2. SizeTo(s1, 1) = SizeTo(s1, 0) + s1[1].size /\ SizeTo(s1, 0) = 0
    <3>1. 1 \in 1..Len(s1) /\ 1 - 1 = 0
      BY <2>1
    <3>2. SizeTo(s1, 1) = SizeTo(s1, 1 - 1) + s1[1].size
      BY <2>1, <3>1, SizeToIs
    <3> QED
      BY <2>1, <3>1, <3>2, SizeToIs
  <2> QED
    BY <1>1, <2>1, <2>2 DEF Total
<1> HIDE DEF s1
<1>5. /\ s2 \in Seq(Sections) /\ Len(s2) \in Nat
      /\ \A i \in 1..Len(s2) : s2[i].name \notin {"dbinfo", "subxacts", "more"}
      /\ db \/ n > 0 \/ more => Total(s2) = 12
  <2>1. CASE db \/ n > 0 \/ more
    <3>1. s2 = s1 \o <<b>>
      BY <2>1
    <3> HIDE DEF s2
    <3>2. /\ s2 \in Seq(Sections) /\ Len(s2) = Len(s1) + 1 /\ Total(s2) = Total(s1) + b.size
          /\ \A i \in 1..Len(s1) : s2[i] = s1[i]
          /\ s2[Len(s1) + 1] = b
      BY <1>1, <1>4, <3>1, OneMore
    <3> QED
      BY <1>1, <1>4, <3>2
  <2>2. CASE ~(db \/ n > 0 \/ more)
    <3>1. s2 = s1
      BY <1>4, <2>2, NoMore
    <3> HIDE DEF s2
    <3>2. \A i \in 1..Len(s1) : i = 1
      BY <1>4
    <3>3. \A i \in 1..Len(s1) : s1[i].name = "time"
      BY <1>1, <1>4, <3>2
    <3>4. \A i \in 1..Len(s2) : s2[i].name \notin {"dbinfo", "subxacts", "more"}
      BY <3>1, <3>3
    <3> QED
      BY <1>4, <2>2, <3>1, <3>4
  <2> QED
    BY <2>1, <2>2
<1> HIDE DEF s2
<1>6. /\ s3 \in Seq(Sections) /\ Len(s3) \in Nat
      /\ \A i \in 1..Len(s3) : s3[i].name \notin {"subxacts", "more"}
      /\ (\E i \in 1..Len(s3) : s3[i].name = "dbinfo") <=> db
      /\ n > 0 => Total(s3) = 12 + (IF db THEN 8 ELSE 0)
  <2>1. CASE db
    <3>1. s3 = s2 \o <<c>>
      BY <2>1
    <3> HIDE DEF s3
    <3>2. /\ s3 \in Seq(Sections) /\ Len(s3) = Len(s2) + 1 /\ Total(s3) = Total(s2) + c.size
          /\ \A i \in 1..Len(s2) : s3[i] = s2[i]
          /\ s3[Len(s2) + 1] = c
      BY <1>1, <1>5, <3>1, OneMore
    <3>3. \A i \in 1..Len(s3) : i \in 1..Len(s2) \/ i = Len(s2) + 1
      BY <1>5, <3>2
    <3>4. Len(s2) + 1 \in 1..Len(s3)
      BY <1>5, <3>2
    <3> QED
      BY <1>1, <1>5, <2>1, <3>2, <3>3, <3>4
  <2>2. CASE ~db
    <3>1. s3 = s2
      BY <1>5, <2>2, NoMore
    <3> HIDE DEF s3
    <3> QED
      BY <1>5, <2>2, <3>1
  <2> QED
    BY <2>1, <2>2
<1> HIDE DEF s3
<1> DEFINE Found(s) ==
      /\ s \in Seq(Sections) /\ Len(s) \in Nat
      /\ (\E i \in 1..Len(s) : s[i].name = "dbinfo") <=> db
      /\ n = 0 => \A i \in 1..Len(s) : s[i].name # "subxacts"
      /\ n > 0 => \E i \in 1..Len(s) :
           /\ s[i] = d
           /\ SizeTo(s, i - 1) = 12 + (IF db THEN 8 ELSE 0)
           /\ \A j \in 1..Len(s) : s[j].name = "subxacts" => j = i
<1>7. Found(s4)
  <2>1. CASE n > 0
    <3>1. s4 = s3 \o <<d>>
      BY <2>1
    <3> HIDE DEF s4
    <3>2. /\ s4 \in Seq(Sections) /\ Len(s4) = Len(s3) + 1 /\ SizeTo(s4, Len(s3)) = Total(s3)
          /\ \A i \in 1..Len(s3) : s4[i] = s3[i]
          /\ s4[Len(s3) + 1] = d
      BY <1>1, <1>6, <3>1, OneMore
    <3>3. /\ \A i \in 1..Len(s4) : i \in 1..Len(s3) \/ i = Len(s3) + 1
          /\ \A i \in 1..Len(s3) : i \in 1..Len(s4)
      BY <1>6, <3>2
    <3> DEFINE k == Len(s3) + 1
    <3>4. k \in 1..Len(s4) /\ k - 1 = Len(s3)
      BY <1>6, <3>2
    <3>5. s4[k] = d
      BY <3>2
    <3> HIDE DEF k
    <3>6. (\E i \in 1..Len(s4) : s4[i].name = "dbinfo") <=> db
      BY <1>1, <1>6, <3>2, <3>3
    <3>7. \A j \in 1..Len(s4) : s4[j].name = "subxacts" => j = k
      BY <1>6, <3>2, <3>3 DEF k
    <3>8. SizeTo(s4, k - 1) = 12 + (IF db THEN 8 ELSE 0)
      BY <1>6, <2>1, <3>2, <3>4
    <3> QED
      BY <1>6, <2>1, <3>2, <3>4, <3>5, <3>6, <3>7, <3>8
  <2>2. CASE ~(n > 0)
    <3>1. s4 = s3
      BY <1>6, <2>2, NoMore
    <3> HIDE DEF s4
    <3> QED
      BY <1>6, <2>2, <3>1
  <2> QED
    BY <2>1, <2>2
<1> HIDE DEF s4
<1>8. Found(s5)
  <2>1. CASE more
    <3>1. s5 = s4 \o <<e>>
      BY <2>1
    <3> HIDE DEF s5
    <3>2. /\ s5 \in Seq(Sections) /\ Len(s5) = Len(s4) + 1
          /\ \A i \in 1..Len(s4) : s5[i] = s4[i] /\ SizeTo(s5, i - 1) = SizeTo(s4, i - 1)
          /\ s5[Len(s4) + 1] = e
      BY <1>1, <1>7, <3>1, OneMore
    <3>3. /\ \A i \in 1..Len(s5) : i \in 1..Len(s4) \/ i = Len(s4) + 1
          /\ \A i \in 1..Len(s4) : i \in 1..Len(s5)
      BY <1>7, <3>2
    <3>4. (\E i \in 1..Len(s5) : s5[i].name = "dbinfo") <=> db
      BY <1>1, <1>7, <3>2, <3>3
    <3>5. n = 0 => \A i \in 1..Len(s5) : s5[i].name # "subxacts"
      BY <1>1, <1>7, <3>2, <3>3
    <3>6. ASSUME n > 0
          PROVE  \E i \in 1..Len(s5) :
                   /\ s5[i] = d
                   /\ SizeTo(s5, i - 1) = 12 + (IF db THEN 8 ELSE 0)
                   /\ \A j \in 1..Len(s5) : s5[j].name = "subxacts" => j = i
      <4>1. PICK i \in 1..Len(s4) :
              /\ s4[i] = d
              /\ SizeTo(s4, i - 1) = 12 + (IF db THEN 8 ELSE 0)
              /\ \A j \in 1..Len(s4) : s4[j].name = "subxacts" => j = i
        BY <1>7, <3>6
      <4>2. s5[i] = d /\ i \in 1..Len(s5) /\ SizeTo(s5, i - 1) = 12 + (IF db THEN 8 ELSE 0)
        BY <3>2, <3>3, <4>1
      <4>3. \A j \in 1..Len(s5) : s5[j].name = "subxacts" => j = i
        BY <1>1, <3>2, <3>3, <4>1
      <4> QED
        BY <4>2, <4>3
    <3>7. Len(s5) \in Nat
      BY <1>7, <3>2
    <3> QED
      BY <3>2, <3>4, <3>5, <3>6, <3>7
  <2>2. CASE ~more
    <3>1. s5 = s4
      BY <1>7, <2>2, NoMore
    <3> HIDE DEF s5
    <3> QED
      BY <1>7, <3>1
  <2> QED
    BY <2>1, <2>2
<1> HIDE DEF s5
<1> QED
  BY <1>2, <1>3, <1>8 DEF OutcomeLaid

------------------------------------------------------------------------------
\* The headers.

Early == Block \cup [kind : {"origin", "toplevel"}]
Main == [kind : {"short", "long"}, len : Nat]

\* The marks are headers.
LEMMA MarksAre ==
  ASSUME NEW m \in Marks
  PROVE  [i \in DOMAIN m |-> [kind |-> m[i]]] \in Seq(Early)
<1>1. m \in Seq({"origin", "toplevel"})
  <2> DEFINE a == "origin"
             b == "toplevel"
  <2>1. m \in {<<>>, <<a>>, <<b>>, <<a, b>>}
    BY DEF Marks
  <2> HIDE DEF a, b
  <2>2. \A x \in {<<>>, <<a>>, <<b>>, <<a, b>>} : x \in Seq({a, b})
    <3>1. <<a>> \in Seq({a, b}) /\ <<b>> \in Seq({a, b}) /\ <<a, b>> \in Seq({a, b})
      OBVIOUS
    <3>2. <<>> \in Seq({a, b})
      OBVIOUS
    <3> QED
      BY <3>1, <3>2, Zenon
  <2> QED
    BY <2>1, <2>2 DEF a, b
<1>2. Len(m) \in Nat /\ DOMAIN m = 1..Len(m) /\ \A i \in 1..Len(m) : m[i] \in {"origin", "toplevel"}
  BY <1>1
<1> DEFINE f == [i \in 1..Len(m) |-> [kind |-> m[i]]]
<1>3. \A i \in 1..Len(m) : [kind |-> m[i]] \in Early
  BY <1>2 DEF Early
<1>4. f \in [1..Len(m) -> Early]
  BY <1>3
<1> HIDE DEF f
<1>5. f \in Seq(Early)
  BY <1>2, <1>4
<1> QED
  BY <1>2, <1>5 DEF f

\* The last header is that of the main data, if there is any, and the only one.
MainIsLast(hs, n) ==
  /\ hs \in Seq(Early \cup Main) /\ Len(hs) \in Nat
  /\ \A i \in 1..Len(hs) : hs[i] \in Early \/ (i = Len(hs) /\ n > 0 /\ hs[i] \in Main /\ hs[i].len = n)
  /\ n > 0 => Len(hs) > 0 /\ hs[Len(hs)] \in Main

\* The headers of a record are blocks, marks and, last, the main data.
LEMMA HeadersAre ==
  ASSUME NEW b \in Seq(Block), NEW m \in Marks, NEW n \in Nat
  PROVE  MainIsLast(Headers(b, m, n), n)
<1> DEFINE marks == [i \in DOMAIN m |-> [kind |-> m[i]]]
<1> DEFINE s == b \o marks
<1>1. marks \in Seq(Early)
  BY MarksAre
<1> HIDE DEF marks
<1>2. b \in Seq(Early)
  BY DEF Early
<1>3. s \in Seq(Early)
  BY <1>1, <1>2, ConcatProperties
<1>4. Headers(b, m, n) = s \o MainHeader(n)
  BY DEF Headers, marks
<1> HIDE DEF s
<1>5. s \in Seq(Early \cup Main) /\ Len(s) \in Nat /\ \A i \in 1..Len(s) : s[i] \in Early
  BY <1>3
<1>6. CASE n = 0
  <2>1. MainHeader(n) = <<>>
    BY <1>6 DEF MainHeader
  <2>2. Headers(b, m, n) = s
    BY <1>3, <1>4, <2>1, ConcatEmptySeq
  <2> QED
    BY <1>5, <1>6, <2>2 DEF MainIsLast
<1>7. CASE n > 0
  <2> DEFINE h == [kind |-> IF n < 256 THEN "short" ELSE "long", len |-> n]
  <2>1. MainHeader(n) = <<h>>
    BY <1>7 DEF MainHeader
  <2>2. h \in Main /\ h.len = n
    BY DEF Main
  <2> HIDE DEF h
  <2>3. <<h>> \in Seq(Early \cup Main) /\ Len(<<h>>) = 1 /\ <<h>>[1] = h
    BY <2>2
  <2> DEFINE u == s \o <<h>>
  <2>4. /\ u \in Seq(Early \cup Main) /\ Len(u) = Len(s) + Len(<<h>>)
        /\ \A i \in 1..Len(s) + Len(<<h>>) : u[i] = IF i <= Len(s) THEN s[i] ELSE <<h>>[i - Len(s)]
    BY <1>5, <2>3, ConcatProperties
  <2> HIDE DEF u
  <2>5. Len(u) = Len(s) + 1 /\ u[Len(u)] = h /\ \A i \in 1..Len(s) : u[i] = s[i]
    BY <1>5, <2>3, <2>4
  <2>6. \A i \in 1..Len(u) : i \in 1..Len(s) \/ i = Len(u)
    BY <1>5, <2>5
  <2>7. MainIsLast(u, n)
    BY <1>5, <1>7, <2>2, <2>4, <2>5, <2>6 DEF MainIsLast
  <2> QED
    BY <1>4, <2>1, <2>7 DEF u
<1> QED
  BY <1>6, <1>7

\* What a record is.
LEMMA RecordsAre ==
  ASSUME NEW r \in Records
  PROVE  /\ Total(r.main) \in Nat /\ MainIsLast(r.headers, Total(r.main))
         /\ r.op \in {"change", "commit", "abort", "prepare", "other"}
         /\ r.op \in {"commit", "abort"} =>
              \E db \in BOOLEAN, n \in SubCounts, more \in BOOLEAN : r.main = Outcome(db, n, more)
<1>0. DataSizes \subseteq Nat /\ SubCounts \subseteq Nat
  BY RecordAssumption
<1>1. ASSUME NEW b \in Blocks, NEW m \in Marks, NEW n \in DataSizes,
             r = Record("change", b, m, <<Section("row", n)>>)
      PROVE  /\ Total(r.main) \in Nat /\ MainIsLast(r.headers, Total(r.main)) /\ r.op = "change"
  <2> DEFINE main == <<Section("row", n)>>
  <2>1. main \in Seq(Sections) /\ Len(main) \in 0..Len(main)
    <3>1. Section("row", n) \in Sections
      BY <1>0 DEF Section, Sections
    <3> QED
      BY <3>1
  <2> HIDE DEF main
  <2>2. Total(main) \in Nat
    BY <2>1, SizeToIs DEF Total
  <2>3. b \in Seq(Block)
    <3>1. PICK k \in 1..MaxBlocks : b \in [1..k -> Block]
      BY DEF Blocks
    <3>2. k \in Nat
      BY RecordAssumption
    <3> QED
      BY <3>1, <3>2
  <2>4. MainIsLast(Headers(b, m, Total(main)), Total(main))
    BY <2>2, <2>3, HeadersAre
  <2>5. r.op = "change" /\ r.main = main /\ r.headers = Headers(b, m, Total(main))
    BY <1>1 DEF Record, main
  <2> QED
    BY <2>2, <2>4, <2>5
<1>2. ASSUME NEW op \in {"commit", "abort", "prepare"}, NEW m \in Marks,
             NEW db \in BOOLEAN, NEW n \in SubCounts, NEW more \in BOOLEAN,
             r = Record(op, <<>>, m, Outcome(db, n, more))
      PROVE  /\ Total(r.main) \in Nat /\ MainIsLast(r.headers, Total(r.main)) /\ r.op = op
             /\ r.main = Outcome(db, n, more)
  <2> DEFINE main == Outcome(db, n, more)
  <2>1. main \in Seq(Sections)
    BY <1>0, OutcomeIs DEF OutcomeLaid
  <2>2. r.op = op /\ r.main = main /\ r.headers = Headers(<<>>, m, Total(main))
    BY <1>2 DEF Record
  <2> HIDE DEF main
  <2>3. Len(main) \in 0..Len(main)
    BY <2>1
  <2>4. Total(main) \in Nat
    BY <2>1, <2>3, SizeToIs DEF Total
  <2>5. <<>> \in Seq(Block)
    OBVIOUS
  <2>6. MainIsLast(Headers(<<>>, m, Total(main)), Total(main))
    BY <2>4, <2>5, HeadersAre
  <2> QED
    BY <2>2, <2>4, <2>6 DEF main
<1>3. ASSUME NEW b \in {<<>>} \cup {<<x>> : x \in Block}, r = Record("other", b, <<>>, <<>>)
      PROVE  /\ Total(r.main) \in Nat /\ MainIsLast(r.headers, Total(r.main)) /\ r.op = "other"
  <2> DEFINE e == <<>>
  <2>1. e \in Seq(Sections) /\ Len(e) = 0 /\ e \in Marks
    BY DEF Marks
  <2>2. b \in Seq(Block)
    <3>1. \A x \in Block : <<x>> \in Seq(Block)
      OBVIOUS
    <3>2. <<>> \in Seq(Block)
      OBVIOUS
    <3> QED
      BY <1>3, <3>1, <3>2, Zenon
  <2>3. r.op = "other" /\ r.main = e /\ r.headers = Headers(b, e, Total(e))
    BY <1>3 DEF Record
  <2> HIDE DEF e
  <2>4. Total(e) \in Nat
    BY <2>1, SizeToIs DEF Total
  <2>5. MainIsLast(Headers(b, e, Total(e)), Total(e))
    BY <2>1, <2>2, <2>4, HeadersAre
  <2> QED
    BY <2>3, <2>4, <2>5
<1>4. \/ \E b \in Blocks, m \in Marks, n \in DataSizes :
           r = Record("change", b, m, <<Section("row", n)>>)
      \/ \E op \in {"commit", "abort", "prepare"}, m \in Marks, db \in BOOLEAN, n \in SubCounts,
            more \in BOOLEAN : r = Record(op, <<>>, m, Outcome(db, n, more))
      \/ \E b \in {<<>>} \cup {<<x>> : x \in Block} : r = Record("other", b, <<>>, <<>>)
  BY DEF Records
<1>5. CASE \E b \in Blocks, m \in Marks, n \in DataSizes :
             r = Record("change", b, m, <<Section("row", n)>>)
  <2>1. /\ Total(r.main) \in Nat /\ MainIsLast(r.headers, Total(r.main)) /\ r.op = "change"
    BY <1>1, <1>5
  <2> QED
    BY <2>1
<1>6. CASE \E op \in {"commit", "abort", "prepare"}, m \in Marks, db \in BOOLEAN, n \in SubCounts,
              more \in BOOLEAN : r = Record(op, <<>>, m, Outcome(db, n, more))
  <2>1. PICK op \in {"commit", "abort", "prepare"}, m \in Marks, db \in BOOLEAN, n \in SubCounts,
             more \in BOOLEAN : r = Record(op, <<>>, m, Outcome(db, n, more))
    BY <1>6
  <2>2. /\ Total(r.main) \in Nat /\ MainIsLast(r.headers, Total(r.main)) /\ r.op = op
        /\ r.main = Outcome(db, n, more)
    BY <1>2, <2>1
  <2> QED
    BY <2>2
<1>7. CASE \E b \in {<<>>} \cup {<<x>> : x \in Block} : r = Record("other", b, <<>>, <<>>)
  <2>1. /\ Total(r.main) \in Nat /\ MainIsLast(r.headers, Total(r.main)) /\ r.op = "other"
    BY <1>3, <1>7
  <2> QED
    BY <2>1
<1> QED
  BY <1>4, <1>5, <1>6, <1>7

------------------------------------------------------------------------------
\* The walk over a record.

\* A header takes up room, and declares data or none.
LEMMA HeaderIn ==
  ASSUME record \in Records
  PROVE  /\ Len(record.headers) \in Nat /\ DOMAIN record.headers = 1..Len(record.headers)
         /\ \A i \in 1..Len(record.headers) :
              /\ record.headers[i] \in Early \cup Main
              /\ SizeOf(i) \in Nat /\ SizeOf(i) > 0 /\ DataOf(record.headers[i]) \in Nat
<1> DEFINE hs == record.headers
<1>1. MainIsLast(hs, Total(record.main))
  BY RecordsAre
<1>2. hs \in Seq(Early \cup Main) /\ Len(hs) \in Nat
  BY <1>1 DEF MainIsLast
<1>3. DOMAIN hs = 1..Len(hs) /\ \A i \in 1..Len(hs) : hs[i] \in Early \cup Main
  BY <1>2
<1> HIDE DEF hs
<1>4. ASSUME NEW i \in 1..Len(hs)
      PROVE  SizeOf(i) \in Nat /\ SizeOf(i) > 0 /\ DataOf(hs[i]) \in Nat
  <2>1. CASE hs[i] \in Block
    <3>1. hs[i].kind = "block" /\ hs[i].data \in Nat
      BY <2>1, RecordAssumption DEF Block
    <3> QED
      BY <3>1 DEF SizeOf, DataOf, hs, ImageSize
  <2>2. CASE hs[i].kind \in {"origin", "toplevel"}
    BY <2>2 DEF SizeOf, DataOf, hs
  <2>3. CASE hs[i].kind \in {"short", "long"} /\ hs[i].len \in Nat
    BY <2>3 DEF SizeOf, DataOf, hs
  <2> QED
    BY <1>3, <2>1, <2>2, <2>3 DEF Early, Main
<1> QED
  BY <1>2, <1>3, <1>4 DEF hs

\* Headers lie one behind the other, and no two begin at the same place.
LEMMA AtIs ==
  ASSUME record \in Records
  PROVE  LET H == Len(record.headers) IN
         /\ At(1) = RecHdr /\ DataTo(0) = 0 /\ Length = At(H + 1) + DataTo(H)
         /\ \A i \in 1..H + 1 : At(i) \in Nat /\ DataTo(i - 1) \in Nat
         /\ \A i \in 1..H : /\ At(i + 1) = At(i) + SizeOf(i)
                            /\ DataTo(i) = DataTo(i - 1) + DataOf(record.headers[i])
         /\ \A i \in 1..H : At(i) < At(H + 1) /\ DataTo(i - 1) <= DataTo(H)
         /\ \A i, j \in 1..H + 1 : At(i) = At(j) => i = j
<1> DEFINE hs == record.headers
           H == Len(hs)
           f == [j \in DOMAIN hs |-> SizeOf(j)]
           g == [j \in DOMAIN hs |-> DataOf(hs[j])]
<1>1. H \in Nat /\ \A i \in 1..H : f[i] = SizeOf(i) /\ g[i] = DataOf(hs[i])
  BY HeaderIn
<1>2. \A i \in 1..H : SizeOf(i) \in Nat /\ SizeOf(i) > 0 /\ DataOf(hs[i]) \in Nat
  BY HeaderIn
<1>3. /\ \A i : At(i) = RecHdr + SumTo(f, i - 1)
      /\ \A i : DataTo(i) = SumTo(g, i)
      /\ Length = At(H + 1) + DataTo(H)
  BY DEF At, DataTo, Length, DataAt
<1> HIDE DEF f, g, H
<1>4. \A i \in 1..H : f[i] \in Nat /\ f[i] > 0 /\ g[i] \in Nat
  BY <1>1, <1>2
<1>5. \A i \in 0..H : SumTo(f, i) \in Nat /\ SumTo(g, i) \in Nat
  BY <1>1, <1>4, SumToNat
<1>6. RecHdr \in Nat
  BY DEF RecHdr
<1>7. At(1) = RecHdr /\ DataTo(0) = 0
  <2>1. 1 - 1 = 0
    OBVIOUS
  <2> QED
    BY <1>3, <1>6, <2>1, SumToIs
<1>8. \A i \in 1..H + 1 : At(i) \in Nat /\ DataTo(i - 1) \in Nat /\ i - 1 \in 0..H
  <2>1. \A i \in 1..H + 1 : i - 1 \in 0..H
    BY <1>1
  <2> QED
    BY <1>3, <1>5, <1>6, <2>1
<1>9. ASSUME NEW i \in 1..H
      PROVE  /\ At(i + 1) = At(i) + SizeOf(i) /\ DataTo(i) = DataTo(i - 1) + DataOf(hs[i])
             /\ At(i) < At(H + 1) /\ DataTo(i - 1) <= DataTo(H)
  <2>1. i - 1 \in Nat /\ (i - 1) + 1 = i /\ i - 1 \in 0..H /\ i \in 0..H /\ i \in i - 1..H
        /\ (i + 1) - 1 = i /\ (H + 1) - 1 = H /\ H \in i..H /\ H \in i - 1..H /\ H \in 0..H
    BY <1>1
  <2>2. SumTo(f, i) = SumTo(f, i - 1) + f[i] /\ SumTo(g, i) = SumTo(g, i - 1) + g[i]
    <3>1. /\ SumTo(f, (i - 1) + 1) = SumTo(f, i - 1) + f[(i - 1) + 1]
          /\ SumTo(g, (i - 1) + 1) = SumTo(g, i - 1) + g[(i - 1) + 1]
      BY <2>1, SumToIs
    <3> QED
      BY <2>1, <3>1
  <2>3. SumTo(f, i) <= SumTo(f, H) /\ SumTo(g, i - 1) <= SumTo(g, H)
    BY <1>1, <1>4, <2>1, SumToGrows
  <2>4. /\ SumTo(f, i) \in Nat /\ SumTo(f, i - 1) \in Nat /\ SumTo(f, H) \in Nat
        /\ SumTo(g, i) \in Nat /\ SumTo(g, i - 1) \in Nat /\ SumTo(g, H) \in Nat
    BY <1>5, <2>1
  <2>5. /\ At(i + 1) = RecHdr + SumTo(f, i) /\ At(i) = RecHdr + SumTo(f, i - 1)
        /\ At(H + 1) = RecHdr + SumTo(f, H)
        /\ DataTo(i) = SumTo(g, i) /\ DataTo(i - 1) = SumTo(g, i - 1) /\ DataTo(H) = SumTo(g, H)
    BY <1>3, <2>1
  <2>6. f[i] = SizeOf(i) /\ g[i] = DataOf(hs[i]) /\ SizeOf(i) \in Nat /\ SizeOf(i) > 0
    BY <1>1, <1>2
  <2> QED
    BY <1>6, <2>2, <2>3, <2>4, <2>5, <2>6
<1>10. ASSUME NEW i \in 1..H + 1, NEW j \in 1..H + 1, i < j
       PROVE  At(i) < At(j)
  <2>1. /\ i \in 1..H /\ i \in Nat /\ i + 1 \in 1..H + 1 /\ i \in 0..H /\ j - 1 \in i..H
        /\ (i + 1) - 1 = i
    BY <1>1, <1>10
  <2>2. SumTo(f, i) <= SumTo(f, j - 1)
    BY <1>1, <1>4, <2>1, SumToGrows
  <2>3. At(i + 1) = RecHdr + SumTo(f, i) /\ At(j) = RecHdr + SumTo(f, j - 1)
    BY <1>3, <2>1
  <2>4. SumTo(f, i) \in Nat /\ SumTo(f, j - 1) \in Nat
    BY <1>5, <1>8, <2>1
  <2>5. At(i + 1) = At(i) + SizeOf(i) /\ SizeOf(i) \in Nat /\ SizeOf(i) > 0 /\ At(i) \in Nat
    BY <1>2, <1>8, <1>9, <2>1
  <2> QED
    BY <1>6, <2>2, <2>3, <2>4, <2>5
<1>11. ASSUME NEW i \in 1..H + 1, NEW j \in 1..H + 1, At(i) = At(j)
       PROVE  i = j
  <2>1. i < j \/ j < i \/ i = j
    BY <1>1
  <2>2. At(i) \in Nat /\ At(j) \in Nat
    BY <1>8
  <2> QED
    BY <1>10, <1>11, <2>1, <2>2
<1> QED
  BY <1>3, <1>7, <1>8, <1>9, <1>11 DEF H

\* The loop ends behind the last header and nowhere before.
LEMMA LoopEnds ==
  ASSUME record \in Records, NEW i \in 1..Len(record.headers) + 1, ReadTo(i)
  PROVE  /\ i \in 1..Len(record.headers) => Remaining > datatotal
         /\ i = Len(record.headers) + 1 => Remaining = datatotal
         /\ i \in 1..Len(record.headers) \/ i = Len(record.headers) + 1
<1> DEFINE H == Len(record.headers)
<1>1. H \in Nat
  BY HeaderIn
<1>2. /\ Length = At(H + 1) + DataTo(H) /\ At(H + 1) \in Nat /\ DataTo(H) \in Nat
      /\ At(i) \in Nat /\ DataTo(i - 1) \in Nat
  <2>1. H + 1 \in 1..H + 1 /\ (H + 1) - 1 = H
    BY <1>1
  <2> QED
    BY <2>1, AtIs
<1>3. off = At(i) /\ datatotal = DataTo(i - 1) /\ Remaining = Length - off
  BY DEF ReadTo, Remaining
<1>4. CASE i \in 1..H
  <2>1. At(i) < At(H + 1) /\ DataTo(i - 1) <= DataTo(H)
    BY <1>4, AtIs
  <2> HIDE DEF H
  <2> QED
    BY <1>1, <1>2, <1>3, <1>4, <2>1 DEF H
<1>5. CASE i = H + 1
  <2>1. i - 1 = H /\ ~(i \in 1..H)
    BY <1>1, <1>5
  <2> HIDE DEF H
  <2> QED
    BY <1>1, <1>2, <1>3, <1>5, <2>1 DEF H
<1> QED
  BY <1>1, <1>4, <1>5

\* Where the headers lie is a matter of the record alone.
LEMMA RecordKept ==
  ASSUME record' = record
  PROVE  /\ \A i : At(i)' = At(i) /\ SizeOf(i)' = SizeOf(i) /\ MainBlock(i)' = MainBlock(i)
         /\ \A i : DataTo(i)' = DataTo(i)
BY DEF At, SizeOf, SameRel, DataTo, MainBlock, RecHdr

\* The headers by their kinds.
LEMMA KindsAre ==
  ASSUME record \in Records, NEW i \in 1..Len(record.headers)
  PROVE  LET h == record.headers[i] IN
         /\ h.kind \in {"block", "short", "long", "origin", "toplevel"}
         /\ h.kind = "block" => h \in Block /\ h.rel \in Rel
         /\ h.kind \in {"short", "long"} => i = Len(record.headers) /\ h.len = Total(record.main)
         /\ h.kind \notin {"short", "long"} /\ i = Len(record.headers) => Total(record.main) = 0
<1> DEFINE h == record.headers[i]
           n == Total(record.main)
<1>1. n \in Nat /\ MainIsLast(record.headers, n)
  BY RecordsAre
<1>2. h \in Early \/ (i = Len(record.headers) /\ n > 0 /\ h \in Main /\ h.len = n)
  BY <1>1 DEF MainIsLast
<1>3. n > 0 /\ i = Len(record.headers) => h \in Main
  BY <1>1 DEF MainIsLast
<1> HIDE DEF h, n
<1>4. h \in Early => \/ h \in Block /\ h.kind = "block" /\ h.rel \in Rel
                     \/ h.kind \in {"origin", "toplevel"}
  BY DEF Early, Block
<1>5. h \in Main => h.kind \in {"short", "long"}
  BY DEF Main
<1> QED
  BY <1>1, <1>2, <1>3, <1>4, <1>5 DEF h, n

\* A turn of the loop reads the next header, whatever it is.
LEMMA BlockRead ==
  ASSUME record \in Records, NEW i \in 1..Len(record.headers), ReadTo(i), WalkBlock(i)
  PROVE  /\ off' = At(i) + SizeOf(i)
         /\ datatotal' = DataTo(i - 1) + DataOf(record.headers[i])
         /\ mainLen' = mainLen
         /\ last' = record.headers[i].rel
         /\ locator' = IF locator = NoRel /\ MainBlock(i) THEN record.headers[i].rel ELSE locator
<1> DEFINE h == record.headers[i]
<1>1. h.kind = "block" /\ h.data \in Nat
  BY KindsAre, RecordAssumption DEF WalkBlock, Block
<1>2. At(i) \in Nat /\ DataTo(i - 1) \in Nat /\ off = At(i) /\ datatotal = DataTo(i - 1)
  <2>1. i \in 1..Len(record.headers) + 1
    BY HeaderIn
  <2> QED
    BY <2>1, AtIs DEF ReadTo
<1> DEFINE this == IF SameRel(i) THEN last ELSE h.rel
<1>3. this = h.rel
  BY <1>1 DEF SameRel, ReadTo
<1>4. /\ off' = off + 1 + 1 + 2 + ImageRead(h) + LocatorRead(i) + 4
      /\ datatotal' = datatotal + h.data + (IF h.image = "none" THEN 0 ELSE ImageSize)
      /\ last' = this
      /\ locator' = IF locator = NoRel /\ IsMain(h) THEN this ELSE locator
      /\ mainLen' = mainLen
  BY DEF WalkBlock
<1>5. IsMain(h) <=> MainBlock(i)
  BY <1>1 DEF IsMain, MainBlock
<1>6. SizeOf(i) = 8 + (IF SameRel(i) THEN 0 ELSE 12)
                    + (IF h.image = "none" THEN 0 ELSE IF h.image = "both" THEN 7 ELSE 5)
  BY <1>1 DEF SizeOf
<1>7. DataOf(h) = h.data + (IF h.image = "none" THEN 0 ELSE ImageSize)
  BY <1>1 DEF DataOf
<1>8. /\ ImageRead(h) = IF h.image = "none" THEN 0 ELSE IF h.image = "both" THEN 7 ELSE 5
      /\ LocatorRead(i) = IF SameRel(i) THEN 0 ELSE 12
  BY DEF ImageRead, LocatorRead
<1> HIDE DEF this
<1>9. off' = At(i) + SizeOf(i)
  <2>1. ImageRead(h) \in Nat /\ LocatorRead(i) \in Nat
    BY <1>8
  <2>2. SizeOf(i) = 8 + LocatorRead(i) + ImageRead(h)
    BY <1>6, <1>8
  <2> HIDE DEF h
  <2> QED
    BY <1>2, <1>4, <2>1, <2>2
<1>10. datatotal' = DataTo(i - 1) + DataOf(h)
  BY <1>1, <1>2, <1>4, <1>7 DEF ImageSize
<1> QED
  BY <1>3, <1>4, <1>5, <1>9, <1>10

\* So does a turn that reads the main data or a mark.
LEMMA RestRead ==
  ASSUME record \in Records, NEW i \in 1..Len(record.headers), ReadTo(i), WalkMain(i) \/ WalkMark(i)
  PROVE  /\ off' = At(i) + SizeOf(i)
         /\ datatotal' = DataTo(i - 1) + DataOf(record.headers[i])
         /\ mainLen' = IF record.headers[i].kind \in {"short", "long"} THEN Total(record.main) ELSE mainLen
         /\ UNCHANGED <<locator, last>>
         /\ record.headers[i].kind # "block"
<1> DEFINE h == record.headers[i]
<1>1. At(i) \in Nat /\ DataTo(i - 1) \in Nat /\ off = At(i) /\ datatotal = DataTo(i - 1)
  <2>1. i \in 1..Len(record.headers) + 1
    BY HeaderIn
  <2> QED
    BY <2>1, AtIs DEF ReadTo
<1>2. CASE WalkMain(i)
  <2>1. h.kind \in {"short", "long"} /\ h.len = Total(record.main) /\ Total(record.main) \in Nat
    BY <1>2, KindsAre, RecordsAre DEF WalkMain
  <2>2. /\ off' = off + 1 + (IF h.kind = "short" THEN 1 ELSE 4)
        /\ mainLen' = h.len /\ datatotal' = datatotal + h.len /\ UNCHANGED <<locator, last>>
    BY <1>2 DEF WalkMain
  <2>3. SizeOf(i) = (IF h.kind = "short" THEN 2 ELSE 5) /\ DataOf(h) = h.len
    BY <2>1 DEF SizeOf, DataOf
  <2>4. off' = At(i) + SizeOf(i)
    BY <1>1, <2>2, <2>3
  <2> QED
    BY <1>1, <2>1, <2>2, <2>3, <2>4
<1>3. CASE WalkMark(i)
  <2>1. /\ h.kind \in {"origin", "toplevel"}
        /\ off' = off + 1 + (IF h.kind = "origin" THEN 2 ELSE 4)
        /\ UNCHANGED <<datatotal, mainLen, locator, last>>
    BY <1>3 DEF WalkMark
  <2>2. SizeOf(i) = (IF h.kind = "origin" THEN 3 ELSE 5) /\ DataOf(h) = 0
    BY <2>1 DEF SizeOf, DataOf
  <2>3. off' = At(i) + SizeOf(i)
    BY <1>1, <2>1, <2>2
  <2> QED
    BY <1>1, <2>1, <2>2, <2>3
<1> QED
  BY <1>2, <1>3

\* Behind a header that was read stands the next.
LEMMA HeaderRead ==
  ASSUME record \in Records, record' = record, NEW i \in 1..Len(record.headers), ReadTo(i),
         WalkBlock(i) \/ WalkMain(i) \/ WalkMark(i)
  PROVE  ReadTo(i + 1)'
<1> DEFINE h == record.headers[i]
           H == Len(record.headers)
<1>0. H \in Nat /\ i \in Nat /\ i > 0 /\ (i + 1) - 1 = i /\ (i = H <=> i + 1 = H + 1)
  BY HeaderIn
<1>1. /\ off' = At(i) + SizeOf(i) /\ datatotal' = DataTo(i - 1) + DataOf(h)
      /\ mainLen' = IF h.kind \in {"short", "long"} THEN Total(record.main) ELSE mainLen
      /\ h.kind = "block" => last' = h.rel
      /\ locator' = IF locator = NoRel /\ MainBlock(i) THEN h.rel ELSE locator
  <2>1. CASE WalkBlock(i)
    <3>1. h.kind = "block"
      BY <2>1 DEF WalkBlock
    <3> QED
      BY <2>1, <3>1, BlockRead
  <2>2. CASE WalkMain(i) \/ WalkMark(i)
    <3>1. ~MainBlock(i)
      BY <2>2, RestRead DEF MainBlock
    <3> QED
      BY <2>2, <3>1, RestRead
  <2> QED
    BY <2>1, <2>2
<1>2. off' = At(i + 1) /\ datatotal' = DataTo(i)
  BY <1>1, AtIs
<1>3. mainLen' = IF i = H THEN Total(record.main) ELSE 0
  <2>1. mainLen = 0
    BY <1>0 DEF ReadTo
  <2> QED
    BY <1>1, <2>1, KindsAre
<1>4. \/ locator' = NoRel /\ \A j \in 1..i : ~MainBlock(j)
      \/ \E k \in 1..i : /\ MainBlock(k) /\ locator' = record.headers[k].rel
                         /\ \A j \in 1..k - 1 : ~MainBlock(j)
  <2>1. \A j \in 1..i : j \in 1..i - 1 \/ j = i
    BY <1>0
  <2>2. CASE locator = NoRel /\ \A j \in 1..i - 1 : ~MainBlock(j)
    <3>1. CASE MainBlock(i)
      BY <1>0, <1>1, <2>2, <3>1
    <3>2. CASE ~MainBlock(i)
      BY <1>1, <2>1, <2>2, <3>2
    <3> QED
      BY <3>1, <3>2
  <2>3. CASE \E k \in 1..i - 1 : /\ MainBlock(k) /\ locator = record.headers[k].rel
                                 /\ \A j \in 1..k - 1 : ~MainBlock(j)
    <3>1. PICK k \in 1..i - 1 : /\ MainBlock(k) /\ locator = record.headers[k].rel
                                /\ \A j \in 1..k - 1 : ~MainBlock(j)
      BY <2>3
    <3>2. k \in 1..i /\ k \in 1..H
      BY <1>0, <3>1
    <3>3. locator # NoRel
      BY <3>1, <3>2, KindsAre, RecordAssumption DEF MainBlock
    <3> QED
      BY <1>1, <3>1, <3>2, <3>3
  <2> QED
    BY <2>2, <2>3 DEF ReadTo
<1>5. /\ At(i + 1)' = At(i + 1) /\ DataTo((i + 1) - 1)' = DataTo(i)
      /\ \A j : MainBlock(j)' = MainBlock(j)
  BY <1>0, RecordKept
<1>6. /\ off' = At(i + 1)'
      /\ datatotal' = DataTo((i + 1) - 1)'
      /\ mainLen' = IF i + 1 = Len(record.headers)' + 1 THEN Total(record.main)' ELSE 0
  <2>1. Total(record.main)' = Total(record.main)
    BY DEF Total, SizeTo
  <2> QED
    BY <1>0, <1>2, <1>3, <1>5, <2>1
<1>7. record.headers[(i + 1) - 1].kind' = "block" => last' = record.headers[(i + 1) - 1].rel'
  BY <1>0, <1>1
<1>8. \/ locator' = NoRel /\ \A j \in 1..(i + 1) - 1 : ~MainBlock(j)'
      \/ \E k \in 1..(i + 1) - 1 : /\ MainBlock(k)' /\ locator' = record.headers[k].rel'
                                   /\ \A j \in 1..k - 1 : ~MainBlock(j)'
  BY <1>0, <1>4, <1>5
<1> QED
  BY <1>6, <1>7, <1>8 DEF ReadTo

\* Where the walk stands, it reads on; it never fails.
LEMMA WalkReads ==
  ASSUME record \in Records, NEW i \in 1..Len(record.headers) + 1, ReadTo(i), Walk
  PROVE  /\ UNCHANGED <<record, pc, event>> /\ pc = "walking"
         /\ \E k \in 1..Len(record.headers) + 1 : ReadTo(k)'
<1> DEFINE H == Len(record.headers)
<1>1. H \in Nat /\ DOMAIN record.headers = 1..H
  BY HeaderIn
<1>2. Remaining \in Int /\ datatotal \in Int
  <2>1. H + 1 \in 1..H + 1 /\ (H + 1) - 1 = H
    BY <1>1
  <2>2. /\ Length = At(H + 1) + DataTo(H) /\ At(H + 1) \in Nat /\ DataTo(H) \in Nat
        /\ At(i) \in Nat /\ DataTo(i - 1) \in Nat
    BY <2>1, AtIs
  <2>3. off = At(i) /\ datatotal = DataTo(i - 1) /\ Remaining = Length - off
    BY DEF ReadTo, Remaining
  <2> QED
    BY <2>2, <2>3
<1>3. i \in 1..H
  <2>1. Remaining > datatotal
    BY DEF Walk
  <2>2. i \in 1..H \/ (i = H + 1 /\ Remaining = datatotal)
    BY LoopEnds
  <2> QED
    BY <1>2, <2>1, <2>2
<1>4. At(i) = off
  BY DEF ReadTo
<1>5. /\ UNCHANGED <<record, pc, event>> /\ pc = "walking"
      /\ \E k \in 1..H : At(k) = off /\ (WalkBlock(k) \/ WalkMain(k) \/ WalkMark(k))
  BY <1>1, <1>3, <1>4 DEF Walk
<1>6. PICK k \in 1..H : At(k) = off /\ (WalkBlock(k) \/ WalkMain(k) \/ WalkMark(k))
  BY <1>5
<1>7. k = i
  <2>1. k \in 1..H + 1 /\ i \in 1..H + 1
    BY <1>1
  <2> QED
    BY <1>4, <1>6, <2>1, AtIs
<1>8. ReadTo(i + 1)'
  BY <1>3, <1>5, <1>6, <1>7, HeaderRead
<1>9. i + 1 \in 1..H + 1
  BY <1>1, <1>3
<1> QED
  BY <1>5, <1>8, <1>9

\* The subtransactions lie where parse_xact looks for them.
LEMMA SubxidsAre ==
  ASSUME record \in Records, record.op \in {"commit", "abort"}, mainLen = Total(record.main)
  PROVE  \E n \in SubCounts \cup {0} :
           /\ Subxids = {n}
           /\ {s \in Range(record.main) : s.name = "subxacts"}
                = IF n = 0 THEN {} ELSE {Section("subxacts", 4 + 4 * n)}
<1> DEFINE main == record.main
<1>1. PICK db \in BOOLEAN, n \in SubCounts, more \in BOOLEAN : main = Outcome(db, n, more)
  BY RecordsAre
<1>2. n \in Nat
  BY RecordAssumption
<1>3. /\ main \in Seq(Sections)
      /\ (\E i \in 1..Len(main) : main[i].name = "dbinfo") <=> db
      /\ n = 0 => \A i \in 1..Len(main) : main[i].name # "subxacts"
      /\ n > 0 => \E i \in 1..Len(main) :
           /\ main[i] = Section("subxacts", 4 + 4 * n)
           /\ SizeTo(main, i - 1) = 12 + (IF db THEN 8 ELSE 0)
           /\ \A j \in 1..Len(main) : main[j].name = "subxacts" => j = i
  <2>1. OutcomeLaid(main, db, n)
    BY <1>1, <1>2, OutcomeIs
  <2> HIDE DEF main
  <2> QED
    BY <2>1 DEF OutcomeLaid
<1>4. DOMAIN main = 1..Len(main)
  BY <1>3
<1>5. \A name : Has(name) <=> \E i \in 1..Len(main) : main[i].name = name
  BY <1>4 DEF Has, Range
<1>6. Range(main) = {main[i] : i \in 1..Len(main)}
  BY <1>4 DEF Range
<1> DEFINE found == {s \in Range(main) : s.name = "subxacts"}
<1>7. CASE n = 0
  <2>1. Subxids = {0}
    BY <1>3, <1>5, <1>7 DEF Subxids
  <2>2. found = {}
    BY <1>3, <1>6, <1>7
  <2> QED
    BY <2>1, <2>2
<1>8. CASE n > 0
  <2>1. PICK i \in 1..Len(main) :
          /\ main[i] = Section("subxacts", 4 + 4 * n)
          /\ SizeTo(main, i - 1) = 12 + (IF db THEN 8 ELSE 0)
          /\ \A j \in 1..Len(main) : main[j].name = "subxacts" => j = i
    BY <1>3, <1>8
  <2>2. main[i].name = "subxacts" /\ main[i].size = 4 + 4 * n
    BY <2>1 DEF Section
  <2>3. SectionAt(i) = SubxactsAt
    <3>1. Length \in Int
      <4> DEFINE H == Len(record.headers)
      <4>1. H \in Nat
        BY HeaderIn
      <4>2. H + 1 \in 1..H + 1 /\ (H + 1) - 1 = H
        BY <4>1
      <4>3. Length = At(H + 1) + DataTo(H) /\ At(H + 1) \in Nat /\ DataTo(H) \in Nat
        BY <4>2, AtIs
      <4> QED
        BY <4>3
    <3>2. Total(main) \in Nat
      BY RecordsAre
    <3>3. SectionAt(i) = Length - Total(main) + (12 + (IF db THEN 8 ELSE 0))
      BY <2>1 DEF SectionAt
    <3>4. SubxactsAt = Length - Total(main) + 12 + (IF db THEN 8 ELSE 0)
      BY <1>3, <1>5 DEF SubxactsAt
    <3> HIDE DEF main
    <3> QED
      BY <3>1, <3>2, <3>3, <3>4
  <2> DEFINE there == {j \in DOMAIN main : main[j].name = "subxacts" /\ SectionAt(j) = SubxactsAt}
  <2>4. there = {i}
    BY <1>4, <2>1, <2>2, <2>3
  <2>5. Has("subxacts")
    BY <1>5, <2>2
  <2>6. Subxids = {(main[j].size - 4) \div 4 : j \in there}
    BY <2>4, <2>5 DEF Subxids
  <2>7. (main[i].size - 4) \div 4 = n
    <3>1. \A size \in Nat : size = 4 + 4 * n => (size - 4) \div 4 = n
      BY <1>2
    <3>2. main[i].size \in Nat
      <4>1. 4 + 4 * n \in Nat
        BY <1>2
      <4> QED
        BY <2>2, <4>1
    <3> QED
      BY <2>2, <3>1, <3>2, Zenon
  <2>8. Subxids = {n}
    <3> HIDE DEF there, main
    <3>1. {(main[j].size - 4) \div 4 : j \in there} = {(main[i].size - 4) \div 4}
      BY <2>4
    <3> QED
      BY <2>6, <2>7, <3>1
  <2>9. found = {Section("subxacts", 4 + 4 * n)}
    <3>1. \A s \in found : s = main[i]
      BY <1>6, <2>1
    <3>2. main[i] \in found
      BY <1>6, <2>2
    <3> HIDE DEF found
    <3> QED
      BY <2>1, <3>1, <3>2
  <2> QED
    BY <1>2, <1>8, <2>8, <2>9
<1> QED
  BY <1>2, <1>7, <1>8

\* What is parsed is what was written.
LEMMA ParseFinds ==
  ASSUME record \in Records, record.op \in {"change", "commit", "abort"},
         NEW i \in 1..Len(record.headers) + 1, ReadTo(i), Parse
  PROVE  pc' = "parsed" /\ record' = record /\ ChangeIsFound' /\ OutcomeIsFound'
<1> DEFINE H == Len(record.headers)
<1>1. H \in Nat /\ DOMAIN record.headers = 1..H
  BY HeaderIn
<1>2. Remaining \in Int /\ datatotal \in Int
  <2>1. H + 1 \in 1..H + 1 /\ (H + 1) - 1 = H
    BY <1>1
  <2>2. /\ Length = At(H + 1) + DataTo(H) /\ At(H + 1) \in Nat /\ DataTo(H) \in Nat
        /\ At(i) \in Nat /\ DataTo(i - 1) \in Nat
    BY <2>1, AtIs
  <2>3. off = At(i) /\ datatotal = DataTo(i - 1) /\ Remaining = Length - off
    BY DEF ReadTo, Remaining
  <2> QED
    BY <2>2, <2>3
<1>3. i = H + 1 /\ Remaining = datatotal
  <2>1. Remaining <= datatotal
    BY DEF Parse
  <2>2. (i \in 1..H /\ Remaining > datatotal) \/ (i = H + 1 /\ Remaining = datatotal)
    BY LoopEnds
  <2> QED
    BY <1>2, <2>1, <2>2
<1>4. /\ pc' = "parsed" /\ record' = record
      /\ IF record.op = "change"
           THEN event' = IF locator = NoRel THEN None ELSE Change(locator)
           ELSE \E n \in Subxids : event' = TxnEnd(record.op = "commit", n)
  BY <1>3 DEF Parse
<1>5. mainLen = Total(record.main)
  BY <1>3 DEF ReadTo
<1>6. CASE record.op = "change"
  <2>1. OutcomeIsFound'
    BY <1>4, <1>6 DEF OutcomeIsFound
  <2> DEFINE main == {j \in DOMAIN record.headers :
                        record.headers[j].kind = "block" /\ record.headers[j].fork = "main"}
             first == CHOOSE j \in main : \A k \in main : j <= k
  <2>2. main = {j \in 1..H : MainBlock(j)}
    BY <1>1 DEF MainBlock
  <2>3. i - 1 = H
    BY <1>1, <1>3
  <2>4. event' = IF main = {} THEN None ELSE Change(record.headers[first].rel)
    <3>1. CASE locator = NoRel /\ \A j \in 1..H : ~MainBlock(j)
      BY <1>4, <1>6, <2>2, <3>1
    <3>2. CASE \E k \in 1..H : /\ MainBlock(k) /\ locator = record.headers[k].rel
                               /\ \A j \in 1..k - 1 : ~MainBlock(j)
      <4>1. PICK k \in 1..H : /\ MainBlock(k) /\ locator = record.headers[k].rel
                              /\ \A j \in 1..k - 1 : ~MainBlock(j)
        BY <3>2
      <4>2. locator # NoRel
        BY <4>1, KindsAre, RecordAssumption DEF MainBlock
      <4>3. k \in main /\ \A j \in main : k <= j
        <5>1. \A j \in 1..H : MainBlock(j) => k <= j
          BY <1>1, <4>1
        <5> QED
          BY <2>2, <4>1, <5>1
      <4>4. main \subseteq Nat
        BY <1>1, <2>2
      <4> HIDE DEF main
      <4>5. first \in main /\ \A j \in main : first <= j
        BY <4>3
      <4> HIDE DEF first
      <4>6. first = k
        <5>1. first <= k /\ k <= first /\ first \in Nat /\ k \in Nat
          BY <4>3, <4>4, <4>5
        <5> QED
          BY <5>1
      <4> QED
        BY <1>4, <1>6, <4>1, <4>2, <4>3, <4>6
    <3> QED
      BY <2>3, <3>1, <3>2 DEF ReadTo
  <2>5. ChangeIsFound'
    BY <1>4, <2>4 DEF ChangeIsFound
  <2> QED
    BY <1>4, <2>1, <2>5
<1>7. CASE record.op \in {"commit", "abort"}
  <2>1. ChangeIsFound'
    BY <1>4, <1>7 DEF ChangeIsFound
  <2>2. PICK n \in SubCounts \cup {0} :
           /\ Subxids = {n}
           /\ {s \in Range(record.main) : s.name = "subxacts"}
                = IF n = 0 THEN {} ELSE {Section("subxacts", 4 + 4 * n)}
    BY <1>5, <1>7, SubxidsAre
  <2>3. event' = TxnEnd(record.op = "commit", n)
    BY <1>4, <1>7, <2>2
  <2>4. OutcomeIsFound'
    BY <1>4, <2>2, <2>3 DEF OutcomeIsFound
  <2> QED
    BY <1>4, <2>1, <2>4
<1> QED
  BY <1>6, <1>7

------------------------------------------------------------------------------
\* The invariant.

\* A walk begins before the first header.
LEMMA WalkStarts == WalkInit => WalkIInv
<1> SUFFICES ASSUME WalkInit
             PROVE  WalkIInv
  OBVIOUS
<1>1. record \in Records
  BY DEF WalkInit
<1>2. ReadTo(1)
  <2> DEFINE H == Len(record.headers)
  <2>1. H \in Nat
    BY <1>1, HeaderIn
  <2>2. off = At(1) /\ datatotal = DataTo(1 - 1)
    BY <1>1, AtIs DEF WalkInit
  <2>3. mainLen = IF 1 = H + 1 THEN Total(record.main) ELSE 0
    <3>1. CASE H = 0
      <4>1. Total(record.main) \in Nat /\ ~(Total(record.main) > 0)
        BY <1>1, <3>1, RecordsAre DEF MainIsLast
      <4> QED
        BY <3>1, <4>1 DEF WalkInit
    <3>2. CASE H # 0
      BY <2>1, <3>2 DEF WalkInit
    <3> QED
      BY <3>1, <3>2
  <2>4. locator = NoRel /\ \A j \in 1..1 - 1 : ~MainBlock(j)
    BY DEF WalkInit
  <2> QED
    BY <2>2, <2>3, <2>4 DEF ReadTo
<1> QED
  BY <1>1, <1>2 DEF WalkInit, WalkIInv, ReadAsWritten, NeverLost, ChangeIsFound, OutcomeIsFound

\* Every step of the walk keeps the invariant.
LEMMA WalkKeeps == WalkIInv /\ [WalkNext]_walkVars => WalkIInv'
<1> SUFFICES ASSUME WalkIInv, [WalkNext]_walkVars
             PROVE  WalkIInv'
  OBVIOUS
<1>1. record \in Records
  BY DEF WalkIInv
<1>2. ASSUME UNCHANGED <<record, off, datatotal, mainLen, locator, last>>
      PROVE  \A i \in Nat : ReadTo(i)' = ReadTo(i)
  BY <1>2, RecordKept DEF ReadTo, Total, SizeTo
<1>3. Len(record.headers) \in Nat
  BY <1>1, HeaderIn
<1>4. CASE Dispatch
  <2>1. /\ UNCHANGED <<record, off, datatotal, mainLen, locator, last>>
        /\ pc' = IF record.op \in {"change", "commit", "abort"} THEN "walking" ELSE "parsed"
        /\ ReadTo(1)
    BY <1>4 DEF Dispatch, WalkIInv
  <2>2. ReadTo(1)' /\ 1 \in 1..Len(record.headers) + 1
    BY <1>2, <1>3, <2>1
  <2>3. ReadAsWritten'
    BY <2>1 DEF ReadAsWritten, NeverLost, ChangeIsFound, OutcomeIsFound
  <2> QED
    BY <1>1, <2>1, <2>2, <2>3 DEF WalkIInv
<1>5. CASE Walk
  <2>1. pc = "walking"
    BY <1>5 DEF Walk
  <2>2. PICK i \in 1..Len(record.headers) + 1 : ReadTo(i)
    BY <2>1 DEF WalkIInv
  <2>3. /\ UNCHANGED <<record, pc, event>>
        /\ \E k \in 1..Len(record.headers) + 1 : ReadTo(k)'
    BY <1>1, <1>5, <2>2, WalkReads
  <2>4. ReadAsWritten'
    BY <2>1, <2>3 DEF ReadAsWritten, NeverLost, ChangeIsFound, OutcomeIsFound
  <2> QED
    BY <1>1, <2>1, <2>3, <2>4 DEF WalkIInv
<1>6. CASE Parse
  <2>1. pc = "walking"
    BY <1>6 DEF Parse
  <2>2. record.op \in {"change", "commit", "abort"}
    BY <2>1 DEF WalkIInv
  <2>3. PICK i \in 1..Len(record.headers) + 1 : ReadTo(i)
    BY <2>1 DEF WalkIInv
  <2>4. pc' = "parsed" /\ record' = record /\ ChangeIsFound' /\ OutcomeIsFound'
    BY <1>1, <1>6, <2>2, <2>3, ParseFinds
  <2> QED
    BY <1>1, <2>4 DEF WalkIInv, ReadAsWritten, NeverLost
<1>7. CASE UNCHANGED walkVars
  <2>1. /\ UNCHANGED <<record, off, datatotal, mainLen, locator, last>>
        /\ UNCHANGED <<pc, event>>
    BY <1>7 DEF walkVars
  <2>2. ReadTo(1)' = ReadTo(1) /\ \A i \in 1..Len(record.headers) + 1 : ReadTo(i)' = ReadTo(i)
    BY <1>2, <1>3, <2>1
  <2>3. ReadAsWritten' = ReadAsWritten
    BY <2>1 DEF ReadAsWritten, NeverLost, ChangeIsFound, OutcomeIsFound
  <2> QED
    BY <2>1, <2>2, <2>3 DEF WalkIInv
<1> QED
  BY <1>4, <1>5, <1>6, <1>7 DEF WalkNext

\* A walk over a record stands before one of its headers or behind the last, and what it
\* has read so far is what PostgreSQL wrote there (walk_headers, parse_record).
THEOREM RecordInvariant == WalkSpec => []WalkIInv
BY WalkStarts, WalkKeeps, PTL DEF WalkSpec

\* However many blocks, forks, images, shared relations and sections a record has, the
\* walk gets through it, a change is reported under the relation of its first block of a
\* main fork, and a commit or abort ends the subtransactions it names (walk_headers,
\* parse_heap, parse_xact).
THEOREM RecordReadAsWritten == WalkSpec => []ReadAsWritten
<1>1. WalkIInv => ReadAsWritten
  BY DEF WalkIInv
<1> QED
  BY <1>1, RecordInvariant, PTL
==============================================================================
