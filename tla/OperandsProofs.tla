--------------------------- MODULE OperandsProofs ---------------------------
(***************************************************************************)
(* Lemmas about the operators of Operands, for bytes of any width.  In     *)
(* their order: sign extension; what SR_Set makes of a sum, a difference,  *)
(* a comparison or a negation, and how the flags of one digit carry to     *)
(* the next (NextDigit); sums over a set, powers of two and the bits of a  *)
(* number; operands, and what is read after they are written (StoreRead);  *)
(* and shifts in one go.  The powers of two and the sums of weights are    *)
(* functions, whose arguments are reasoned about by the least              *)
(* counterexample.                                                         *)
(***************************************************************************)
EXTENDS Operands, FiniteSetTheorems, WellFoundedInduction, TLAPS

\* A number has one quotient and one remainder.
LEMMA Quotient ==
  ASSUME NEW m \in Nat, m > 0, NEW e \in Nat, e < m, NEW j \in Int
  PROVE  (e + m * j) % m = e /\ (e + m * j) \div m = j
OBVIOUS

\* Every number has a quotient and a remainder.
LEMMA Division ==
  ASSUME NEW m \in Nat, m > 0, NEW a \in Int
  PROVE  a % m \in Nat /\ a % m < m /\ a \div m \in Int /\ a = (a % m) + m * (a \div m)
OBVIOUS

\* Bytes, words and long words are even numbers of values.
LEMMA WordIsEven ==
  /\ Byte \in Nat /\ Byte > 0 /\ \E h \in Nat : h > 0 /\ Byte = 2 * h
  /\ Word \in Nat /\ Word > 0 /\ \E h \in Nat : h > 0 /\ Word = 2 * h
  /\ Long \in Nat /\ Long > 0 /\ \E h \in Nat : h > 0 /\ Long = 2 * h
BY ByteAssumption DEF Word, Long

\* Longs are the numbers below Long.
LEMMA LongsAreNumbers == \A v : v \in Longs <=> v \in Nat /\ v < Long
BY WordIsEven DEF Longs

\* A remainder is a long word.
LEMMA Remainders == \A a \in Int : a % Long \in Longs
BY Division, WordIsEven, LongsAreNumbers

\* A long word is its own remainder.
LEMMA SmallRemainder == \A v \in Longs : v % Long = v
<1>1. SUFFICES ASSUME NEW v \in Longs
               PROVE  v % Long = v
  OBVIOUS
<1>2. v \in Nat /\ v < Long /\ Long \in Nat /\ Long > 0
  BY WordIsEven, LongsAreNumbers
<1>3. (v + Long * 0) % Long = v
  BY <1>2, Quotient
<1>4. v + Long * 0 = v
  BY <1>2
<1>5. QED
  BY <1>3, <1>4

\* The flags of a difference of two long words.
LEMMA Difference ==
  ASSUME NEW d \in Longs, NEW s \in Longs, NEW r, r = (d - s) % Long
  PROVE  /\ r \in Longs
         /\ r = 0 <=> d = s
         /\ SubBorrow(Negative(s), Negative(d), Negative(r)) <=> d < s
         /\ ~(SubOverflow(Negative(s), Negative(d), Negative(r)) <=> Negative(r)) <=> Signed(d) < Signed(s)
<1>1. PICK h \in Nat : h > 0 /\ Long = 2 * h
  BY WordIsEven
<1>2. d \in Nat /\ d < 2 * h /\ s \in Nat /\ s < 2 * h
  BY <1>1, LongsAreNumbers
<1>3. r = IF s <= d THEN d - s ELSE d - s + 2 * h
  <2>1. PICK m : m = 2 * h
    OBVIOUS
  <2>2. CASE s <= d
    <3>1. d - s \in Nat /\ d - s < m
      BY <1>2, <2>1, <2>2
    <3>2. (d - s + m * 0) % m = d - s
      BY <1>1, <1>2, <2>1, <3>1, Quotient
    <3>3. QED
      BY <1>1, <1>2, <2>1, <2>2, <3>2
  <2>3. CASE ~(s <= d)
    <3>1. d - s + m \in Nat /\ d - s + m < m
      BY <1>2, <2>1, <2>3
    <3>2. (d - s + m + m * (-1)) % m = d - s + m
      BY <1>1, <1>2, <2>1, <3>1, Quotient
    <3>3. d - s + m + m * (-1) = d - s
      BY <1>2, <2>1
    <3>4. QED
      BY <1>1, <1>2, <2>1, <2>3, <3>2, <3>3
  <2>4. QED
    BY <2>2, <2>3
<1>4. r \in Nat /\ r < 2 * h
  BY <1>2, <1>3
<1>5. /\ Negative(d) <=> d >= h
      /\ Negative(s) <=> s >= h
      /\ Negative(r) <=> r >= h
  BY <1>1, <1>2, <1>4 DEF Negative
<1>6. /\ Signed(d) = (IF d < h THEN d ELSE d - 2 * h)
      /\ Signed(s) = (IF s < h THEN s ELSE s - 2 * h)
  BY <1>1, <1>2 DEF Signed, SignedAt
<1>7. r \in Longs
  BY <1>1, <1>4, LongsAreNumbers
<1>8. r = 0 <=> d = s
  BY <1>2, <1>3
<1>9. SubBorrow(Negative(s), Negative(d), Negative(r)) <=> d < s
  BY <1>2, <1>3, <1>4, <1>5 DEF SubBorrow
<1>10. ~(SubOverflow(Negative(s), Negative(d), Negative(r)) <=> Negative(r)) <=> Signed(d) < Signed(s)
  BY <1>2, <1>3, <1>4, <1>5, <1>6 DEF SubOverflow
<1>11. QED
  BY <1>7, <1>8, <1>9, <1>10

\* Flags that say how d compares with s.
Compares(f, d, s) ==
  /\ f.z <=> d = s
  /\ f.c <=> d < s
  /\ ~(f.v <=> f.n) <=> Signed(d) < Signed(s)

\* Such flags make every condition on the order say what it means.
LEMMA ConditionsCompare ==
  ASSUME NEW f \in Flags, NEW d \in Longs, NEW s \in Longs, Compares(f, d, s),
         NEW condition \in Relations
  PROVE  /\ BranchTaken(condition, f) <=> Relation(condition, d, s)
         /\ condition # "HI" => (SetTaken(condition, f) <=> Relation(condition, d, s))
<1>1. d \in Int /\ s \in Int /\ Signed(d) \in Int /\ Signed(s) \in Int
  BY LongsAreNumbers, WordIsEven DEF Signed, SignedAt
<1>2. Signed(d) = Signed(s) <=> d = s
  BY LongsAreNumbers, WordIsEven DEF Signed, SignedAt
<1>3. PICK sd, ss : sd = Signed(d) /\ ss = Signed(s)
  OBVIOUS
<1>4. BranchTaken(condition, f) <=> Relation(condition, d, s)
  <2>1. f.n \in BOOLEAN /\ f.z \in BOOLEAN /\ f.v \in BOOLEAN /\ f.c \in BOOLEAN
    BY DEF Flags
  <2>2. (f.z <=> d = s) /\ (f.c <=> d < s)
    BY DEF Compares
  <2>3. sd \in Int /\ ss \in Int /\ (sd = ss <=> f.z) /\ (~(f.v <=> f.n) <=> sd < ss)
    BY <1>1, <1>2, <1>3 DEF Compares
  <2>4. CASE condition = "HI"
    <3>1. BranchTaken(condition, f) <=> (~f.c /\ ~f.z)
      BY <2>4 DEF BranchTaken
    <3>2. Relation(condition, d, s) <=> d > s
      BY <2>4 DEF Relation
    <3>3. QED
      BY <1>1, <2>1, <2>2, <3>1, <3>2
  <2>5. CASE condition = "LS"
    <3>1. BranchTaken(condition, f) <=> (f.c \/ f.z)
      BY <2>5 DEF BranchTaken
    <3>2. Relation(condition, d, s) <=> d <= s
      BY <2>5 DEF Relation
    <3>3. QED
      BY <1>1, <2>1, <2>2, <3>1, <3>2
  <2>6. CASE condition = "CC"
    <3>1. BranchTaken(condition, f) <=> (~f.c)
      BY <2>6 DEF BranchTaken
    <3>2. Relation(condition, d, s) <=> d >= s
      BY <2>6 DEF Relation
    <3>3. QED
      BY <1>1, <2>1, <2>2, <3>1, <3>2
  <2>7. CASE condition = "CS"
    <3>1. BranchTaken(condition, f) <=> (f.c)
      BY <2>7 DEF BranchTaken
    <3>2. Relation(condition, d, s) <=> d < s
      BY <2>7 DEF Relation
    <3>3. QED
      BY <1>1, <2>1, <2>2, <3>1, <3>2
  <2>8. CASE condition = "NE"
    <3>1. BranchTaken(condition, f) <=> (~f.z)
      BY <2>8 DEF BranchTaken
    <3>2. Relation(condition, d, s) <=> d # s
      BY <2>8 DEF Relation
    <3>3. QED
      BY <1>1, <2>1, <2>2, <3>1, <3>2
  <2>9. CASE condition = "EQ"
    <3>1. BranchTaken(condition, f) <=> (f.z)
      BY <2>9 DEF BranchTaken
    <3>2. Relation(condition, d, s) <=> d = s
      BY <2>9 DEF Relation
    <3>3. QED
      BY <1>1, <2>1, <2>2, <3>1, <3>2
  <2>10. CASE condition = "GE"
    <3>1. BranchTaken(condition, f) <=> ((f.n /\ f.v) \/ (~f.n /\ ~f.v))
      BY <2>10 DEF BranchTaken
    <3>2. Relation(condition, d, s) <=> sd >= ss
      BY <2>10, <1>3 DEF Relation
    <3>3. QED
      BY <1>1, <2>1, <2>3, <3>1, <3>2
  <2>11. CASE condition = "LT"
    <3>1. BranchTaken(condition, f) <=> ((f.n /\ ~f.v) \/ (~f.n /\ f.v))
      BY <2>11 DEF BranchTaken
    <3>2. Relation(condition, d, s) <=> sd < ss
      BY <2>11, <1>3 DEF Relation
    <3>3. QED
      BY <1>1, <2>1, <2>3, <3>1, <3>2
  <2>12. CASE condition = "GT"
    <3>1. BranchTaken(condition, f) <=> ((f.n /\ f.v /\ ~f.z) \/ (~f.n /\ ~f.v /\ ~f.z))
      BY <2>12 DEF BranchTaken
    <3>2. Relation(condition, d, s) <=> sd > ss
      BY <2>12, <1>3 DEF Relation
    <3>3. QED
      BY <1>1, <2>1, <2>3, <3>1, <3>2
  <2>13. CASE condition = "LE"
    <3>1. BranchTaken(condition, f) <=> (f.z \/ (f.n /\ ~f.v) \/ (~f.n /\ f.v))
      BY <2>13 DEF BranchTaken
    <3>2. Relation(condition, d, s) <=> sd <= ss
      BY <2>13, <1>3 DEF Relation
    <3>3. QED
      BY <1>1, <2>1, <2>3, <3>1, <3>2
  <2>14. QED
    BY <2>4, <2>5, <2>6, <2>7, <2>8, <2>9, <2>10, <2>11, <2>12, <2>13 DEF Relations, Conditions
<1>5. QED
  BY <1>4 DEF SetTaken

\* The flags of a negation are those of 0 compared with the number.
LEMMA Negation ==
  ASSUME NEW d \in Longs, NEW r, r = (0 - d) % Long
  PROVE  /\ r \in Longs /\ 0 \in Longs
         /\ r = 0 <=> 0 = d
         /\ Negative(d) \/ Negative(r) <=> 0 < d
         /\ ~(Negative(d) /\ Negative(r) <=> Negative(r)) <=> Signed(0) < Signed(d)
<1>1. PICK h \in Nat : h > 0 /\ Long = 2 * h
  BY WordIsEven
<1>2. d \in Nat /\ d < 2 * h /\ 0 \in Longs
  BY <1>1, LongsAreNumbers
<1>3. r \in Longs /\ (r = 0 <=> 0 = d) /\ (SubBorrow(Negative(d), Negative(0), Negative(r)) <=> 0 < d)
  BY <1>2, Difference
<1>4. r \in Nat
  BY <1>3, LongsAreNumbers
<1>5. ~Negative(0) /\ Signed(0) = 0
  BY <1>1 DEF Negative, Signed, SignedAt
<1>6. r = IF d = 0 THEN 0 ELSE 2 * h - d
  <2>1. CASE d = 0
    BY <1>3, <2>1
  <2>2. CASE d # 0
    <3>1. PICK m : m = 2 * h
      OBVIOUS
    <3>2. m - d \in Nat /\ m - d < m
      BY <1>2, <2>2, <3>1
    <3>3. (m - d + m * (-1)) % m = m - d
      BY <1>1, <3>1, <3>2, Quotient
    <3>4. m - d + m * (-1) = 0 - d
      BY <1>2, <3>1
    <3>5. QED
      BY <1>1, <2>2, <3>1, <3>3, <3>4
  <2>3. QED
    BY <2>1, <2>2
<1>7. /\ Negative(d) <=> d >= h
      /\ Negative(r) <=> r >= h
  BY <1>1, <1>2, <1>4 DEF Negative
<1>8. Signed(d) = (IF d < h THEN d ELSE d - 2 * h)
  BY <1>1, <1>2 DEF Signed, SignedAt
<1>9. Negative(d) \/ Negative(r) <=> 0 < d
  BY <1>1, <1>2, <1>4, <1>6, <1>7
<1>10. ~(Negative(d) /\ Negative(r) <=> Negative(r)) <=> Signed(0) < Signed(d)
  BY <1>1, <1>2, <1>4, <1>5, <1>6, <1>7, <1>8
<1>11. QED
  BY <1>2, <1>3, <1>9, <1>10

\* The sign of a long word is that of its value.
LEMMA SignOfLong ==
  ASSUME NEW v \in Longs
  PROVE  0 \in Longs /\ Signed(0) = 0 /\ (Negative(v) <=> Signed(v) < 0) /\ ~(v < 0)
<1>1. PICK h \in Nat : h > 0 /\ Long = 2 * h
  BY WordIsEven
<1>2. v \in Nat /\ v < 2 * h
  BY <1>1, LongsAreNumbers
<1>3. QED
  BY <1>1, <1>2, LongsAreNumbers DEF Signed, SignedAt, Negative

-----------------------------------------------------------------------------
(* Sign extension. *)

\* A long word is a whole number of bytes, of words and of long words.
LEMMA SizesDivide ==
  ASSUME NEW size \in {1, 2, 4}
  PROVE  /\ Values(size) \in Nat /\ \E b \in Nat : b > 0 /\ Values(size) = 2 * b
         /\ \E k \in Nat : k > 0 /\ Long = Values(size) * k
<1>1. Values(1) = Byte /\ Values(2) = Word /\ Values(4) = Long
  BY DEF Values
<1>2. PICK b, w \in Nat : b = Byte /\ w = Word /\ w = b * b /\ Long = w * w
  BY WordIsEven DEF Word, Long
<1>3. CASE size = 1
  <2>1. PICK j : j = b * w
    OBVIOUS
  <2>2. j \in Nat /\ b * j = w * w /\ j > 0
    BY <1>2, <2>1, WordIsEven
  <2>3. QED
    BY <1>1, <1>2, <1>3, <2>2, WordIsEven
<1>4. CASE size = 2
  BY <1>1, <1>2, <1>4, WordIsEven
<1>5. CASE size = 4
  <2>1. Long = Long * 1
    BY WordIsEven
  <2>2. QED
    BY <1>1, <1>5, <2>1, WordIsEven
<1>6. QED
  BY <1>3, <1>4, <1>5

\* What sign extension makes of a value: the value when it is not negative, or
\* the end of the long words.
LEMMA SignExtension ==
  ASSUME NEW size \in {1, 2, 4}, NEW x \in Int, NEW e, e = x % Values(size)
  PROVE  /\ e \in Nat /\ e < Values(size)
         /\ SignExtend(x, size) = IF 2 * e < Values(size) THEN e ELSE e + (Long - Values(size))
         /\ SignExtend(x, size) \in Longs
         /\ SignExtend(x, size) % Values(size) = e
         /\ Negative(SignExtend(x, size)) <=> ~(2 * e < Values(size))
<1>1. PICK n, l : n = Values(size) /\ l = Long
  OBVIOUS
<1>2. PICK b, k \in Nat : b > 0 /\ n = 2 * b /\ k > 0 /\ l = n * k
  BY <1>1, SizesDivide
<1>3. n \in Nat /\ n > 0 /\ l \in Nat /\ l > 0 /\ n <= l
  BY <1>1, <1>2, WordIsEven
<1>4. e \in Nat /\ e < n
  BY <1>1, <1>3, Division
<1>5. CASE 2 * e < n
  <2>1. SignedAt(e, n) = e
    BY <1>5 DEF SignedAt
  <2>2. (e + l * 0) % l = e /\ e < l
    BY <1>3, <1>4, Quotient
  <2>3. e % l = e
    BY <1>3, <1>4, <2>2
  <2>4. SignExtend(x, size) = e
    BY <1>1, <2>1, <2>3 DEF SignExtend
  <2>5. (e + n * 0) % n = e
    BY <1>3, <1>4, Quotient
  <2>6. e % n = e
    BY <1>3, <1>4, <2>5
  <2>7. ~(2 * e >= l)
    BY <1>3, <1>4, <1>5
  <2>8. QED
    BY <1>1, <1>3, <1>4, <1>5, <2>2, <2>4, <2>6, <2>7, LongsAreNumbers DEF Negative
<1>6. CASE ~(2 * e < n)
  <2>1. SignedAt(e, n) = e - n
    BY <1>6 DEF SignedAt
  <2>2. PICK y : y = e + (l - n)
    OBVIOUS
  <2>3. y \in Nat /\ y < l
    BY <1>3, <1>4, <2>2
  <2>4. (y + l * (-1)) % l = y
    BY <1>3, <2>3, Quotient
  <2>5. y + l * (-1) = e - n
    BY <1>3, <1>4, <2>2
  <2>6. SignExtend(x, size) = y
    BY <1>1, <2>1, <2>4, <2>5 DEF SignExtend
  <2>7. PICK j \in Int : j = k - 1
    BY <1>2
  <2>8. y % n = e
    <3>1. n * j = n * k - n
      BY <1>2, <1>3, <2>7
    <3>2. y = e + n * j
      BY <1>2, <1>3, <1>4, <2>2, <3>1
    <3>3. QED
      BY <1>3, <1>4, <3>2, Quotient
  <2>9. 2 * y >= l
    BY <1>2, <1>3, <1>4, <1>6, <2>2
  <2>10. QED
    BY <1>1, <1>3, <1>4, <1>6, <2>2, <2>3, <2>6, <2>8, <2>9, LongsAreNumbers DEF Negative
<1>7. QED
  BY <1>5, <1>6

\* A long word has nothing to extend, and a number that is extended from a size
\* is not changed by an extension from the same size or from a larger one.
LEMMA WholeExtension == \A v \in Longs : SignExtend(v, 4) = v
<1>1. SUFFICES ASSUME NEW v \in Longs
               PROVE  SignExtend(v, 4) = v
  OBVIOUS
<1>2. Values(4) = Long
  BY DEF Values
<1>3. v % Long = v
  BY SmallRemainder
<1>4. PICK l : l = Long /\ l \in Nat /\ l > 0 /\ v \in Nat /\ v < l
  BY WordIsEven, LongsAreNumbers
<1>5. (v - l) % l = v
  <2>1. (v + l * (-1)) % l = v
    BY <1>4, Quotient
  <2>2. v + l * (-1) = v - l
    BY <1>4
  <2>3. QED
    BY <2>1, <2>2
<1>6. SignedAt(v, l) % l = v
  BY <1>3, <1>4, <1>5 DEF SignedAt
<1>7. QED
  BY <1>2, <1>3, <1>4, <1>6 DEF SignExtend

\* The sizes in their order.
LEMMA SizesGrow ==
  ASSUME NEW a \in {1, 2, 4}, NEW b \in {1, 2, 4}, a <= b
  PROVE  Values(a) <= Values(b)
<1>1. PICK x, w, l : x = Byte /\ w = Word /\ l = Long
  OBVIOUS
<1>2. x \in Nat /\ x > 0 /\ w \in Nat /\ w > 0 /\ w = x * x /\ l = w * w
  BY <1>1, WordIsEven DEF Word, Long
<1>3. x <= w
  BY <1>2
<1>4. w <= l /\ l \in Nat
  BY <1>2
<1>5. \A s \in {1, 2, 4} : Values(s) = CASE s = 1 -> x [] s = 2 -> w [] s = 4 -> l
  BY <1>1 DEF Values
<1>6. Values(1) = x /\ Values(2) = w /\ Values(4) = l
  BY <1>5
<1>7. QED
  BY <1>2, <1>3, <1>4, <1>6

\* An extended number is extended already from every greater width.
LEMMA ExtensionStays ==
  ASSUME NEW a \in {1, 2, 4}, NEW b \in {1, 2, 4}, a <= b, NEW x \in Int, NEW v, v = SignExtend(x, a)
  PROVE  SignExtend(v, b) = v
<1>1. PICK A, B, l : A = Values(a) /\ B = Values(b) /\ l = Long
  OBVIOUS
<1>2. A \in Nat /\ A > 0 /\ B \in Nat /\ B > 0 /\ A <= B
  BY <1>1, SizesDivide, SizesGrow
<1>3. PICK k \in Nat : k > 0 /\ l = B * k
  BY <1>1, SizesDivide
<1>4. PICK e : e = x % A
  OBVIOUS
<1>5. e \in Nat /\ e < A /\ v \in Longs /\ v = IF 2 * e < A THEN e ELSE e + (l - A)
  BY SMTT(30), <1>1, <1>4, SignExtension
<1>6. PICK g : g = v % B
  OBVIOUS
<1>7. SignExtend(v, b) = IF 2 * g < B THEN g ELSE g + (l - B)
  <2>1. v \in Int
    BY <1>5, LongsAreNumbers
  <2>2. QED
    BY SMTT(30), <1>1, <1>6, <2>1, SignExtension
<1>8. CASE 2 * e < A
  <2>1. v = e + B * 0
    BY <1>2, <1>5, <1>8
  <2>2. g = e
    BY <1>2, <1>5, <1>6, <2>1, Quotient
  <2>3. QED
    BY <1>2, <1>5, <1>7, <1>8, <2>2
<1>9. CASE ~(2 * e < A)
  <2>1. PICK h : h = e + (B - A)
    OBVIOUS
  <2>2. h \in Nat /\ h < B /\ ~(2 * h < B)
    BY <1>2, <1>5, <1>9, <2>1
  <2>3. PICK j : j = k - 1
    OBVIOUS
  <2>4. j \in Int /\ l = B * j + B
    BY <1>2, <1>3, <2>3
  <2>5. PICK y : y = B * j /\ y \in Int
    BY <1>2, <2>4
  <2>6. v = h + y /\ l = y + B
    BY <1>2, <1>5, <1>9, <2>1, <2>4, <2>5
  <2>7. g = h
    BY <1>2, <1>6, <2>2, <2>4, <2>5, <2>6, Quotient
  <2>8. QED
    BY <1>2, <1>7, <2>2, <2>5, <2>6, <2>7
<1>10. QED
  BY <1>8, <1>9

\* Zero is extended to zero.
LEMMA ZeroExtension == \A size \in {1, 2, 4} : SignExtend(0, size) = 0
<1>1. SUFFICES ASSUME NEW size \in {1, 2, 4}
               PROVE  SignExtend(0, size) = 0
  OBVIOUS
<1>2. PICK A : A = Values(size) /\ A \in Nat /\ A > 0
  BY SizesDivide
<1>3. (0 + A * 0) % A = 0
  BY <1>2, Quotient
<1>4. 0 % A = 0
  BY <1>2, <1>3
<1>5. QED
  BY SMTT(30), <1>2, <1>4, SignExtension

\* Bytes and words are at most half as many as long words.
LEMMA ShortSizes == \A size \in {1, 2} : 2 * Values(size) <= Long
<1>1. Values(1) = Byte /\ Values(2) = Word
  BY DEF Values
<1>2. PICK b, w \in Nat : b = Byte /\ w = Word /\ w = b * b /\ Long = w * w
  BY WordIsEven DEF Word, Long
<1>3. b >= 2 /\ w >= 2
  BY <1>2, WordIsEven
<1>4. \A i, j \in Nat : i >= 2 => i * j >= 2 * j
  OBVIOUS
<1>5. w >= 2 * b /\ w * w >= 2 * w
  BY <1>2, <1>3, <1>4
<1>6. QED
  BY <1>1, <1>2, <1>3, <1>5

\* The same of the short comparisons: the difference is taken of the unsigned
\* bytes or words, and the signs are those of the extended ones.
LEMMA ShortDifference ==
  ASSUME NEW size \in {1, 2}, NEW x \in Int, NEW y \in Int,
         NEW d, d = SignExtend(x, size), NEW s, s = SignExtend(y, size),
         NEW r, r = ((d % Values(size)) - (s % Values(size))) % Long
  PROVE  /\ r \in Longs
         /\ r = 0 <=> d = s
         /\ SubBorrow(Negative(s), Negative(d), Negative(r)) <=> d < s
         /\ ~(SubOverflow(Negative(s), Negative(d), Negative(r)) <=> Negative(r)) <=> Signed(d) < Signed(s)
<1>1. PICK h \in Nat : h > 0 /\ Long = 2 * h
  BY WordIsEven
<1>2. PICK n \in Nat : n = Values(size) /\ n > 0 /\ n <= h
  BY <1>1, ShortSizes, SizesDivide
<1>3. PICK e, g : e = x % Values(size) /\ g = y % Values(size)
  OBVIOUS
<1>4. /\ e \in Nat /\ e < n /\ d \in Longs /\ d % n = e
      /\ d = (IF 2 * e < n THEN e ELSE e + (2 * h - n))
      /\ Negative(d) <=> ~(2 * e < n)
  <2>1. size \in {1, 2, 4}
    OBVIOUS
  <2>2. /\ e \in Nat /\ e < Values(size)
        /\ d = IF 2 * e < Values(size) THEN e ELSE e + (Long - Values(size))
        /\ d \in Longs
        /\ d % Values(size) = e
        /\ Negative(d) <=> ~(2 * e < Values(size))
    BY SMTT(30), <1>3, <2>1, SignExtension
  <2>3. QED
    BY <1>1, <1>2, <2>2
<1>5. /\ g \in Nat /\ g < n /\ s \in Longs /\ s % n = g
      /\ s = (IF 2 * g < n THEN g ELSE g + (2 * h - n))
      /\ Negative(s) <=> ~(2 * g < n)
  <2>1. size \in {1, 2, 4}
    OBVIOUS
  <2>2. /\ g \in Nat /\ g < Values(size)
        /\ s = IF 2 * g < Values(size) THEN g ELSE g + (Long - Values(size))
        /\ s \in Longs
        /\ s % Values(size) = g
        /\ Negative(s) <=> ~(2 * g < Values(size))
    BY SMTT(30), <1>3, <2>1, SignExtension
  <2>3. QED
    BY <1>1, <1>2, <2>2
<1>6. PICK m : m = 2 * h
  OBVIOUS
<1>7. r = (e - g) % m
  <2>1. d % Values(size) = e /\ s % Values(size) = g /\ Long = m
    BY <1>1, <1>2, <1>4, <1>5, <1>6
  <2>2. QED
    BY <2>1
<1>8. r = IF g <= e THEN e - g ELSE e - g + m
  <2>1. CASE g <= e
    <3>1. e - g \in Nat /\ e - g < m
      BY <1>1, <1>2, <1>4, <1>5, <1>6, <2>1
    <3>2. (e - g + m * 0) % m = e - g
      BY <1>1, <1>6, <3>1, Quotient
    <3>3. QED
      BY <1>1, <1>6, <1>7, <2>1, <3>1, <3>2
  <2>2. CASE ~(g <= e)
    <3>1. e - g + m \in Nat /\ e - g + m < m
      BY <1>1, <1>2, <1>4, <1>5, <1>6, <2>2
    <3>2. (e - g + m + m * (-1)) % m = e - g + m
      BY <1>1, <1>6, <3>1, Quotient
    <3>3. e - g + m + m * (-1) = e - g
      BY <1>4, <1>5, <1>6
    <3>4. QED
      BY <1>7, <2>2, <3>2, <3>3
  <2>3. QED
    BY <2>1, <2>2
<1>9. r \in Nat /\ r < m
  BY <1>1, <1>2, <1>4, <1>5, <1>6, <1>8
<1>10. Negative(r) <=> e < g
  BY <1>1, <1>2, <1>4, <1>5, <1>6, <1>8, <1>9 DEF Negative
<1>11. /\ Signed(d) = (IF 2 * e < n THEN e ELSE e - n)
       /\ Signed(s) = (IF 2 * g < n THEN g ELSE g - n)
  BY <1>1, <1>2, <1>4, <1>5 DEF Signed, SignedAt
<1>12. r \in Longs
  BY <1>1, <1>6, <1>9, LongsAreNumbers
<1>13. r = 0 <=> d = s
  <2>1. r = 0 <=> e = g
    BY <1>1, <1>2, <1>4, <1>5, <1>6, <1>8
  <2>2. d = s <=> e = g
    BY <1>1, <1>2, <1>4, <1>5
  <2>3. QED
    BY <2>1, <2>2
<1>14. SubBorrow(Negative(s), Negative(d), Negative(r)) <=> d < s
  BY <1>2, <1>4, <1>5, <1>10 DEF SubBorrow
<1>15. ~(SubOverflow(Negative(s), Negative(d), Negative(r)) <=> Negative(r)) <=> Signed(d) < Signed(s)
  BY <1>2, <1>4, <1>5, <1>10, <1>11 DEF SubOverflow
<1>16. QED
  BY <1>12, <1>13, <1>14, <1>15

-----------------------------------------------------------------------------
(* Numbers of several long words. *)

\* One where the condition holds.
One(condition) == IF condition THEN 1 ELSE 0

\* A digit in front of a number: the longer number is negative when the digit is,
\* and zero when both are.
LEMMA Digit ==
  ASSUME NEW m \in Nat, m > 0, NEW low \in Nat, low < m, NEW high \in Longs,
         NEW y, y = low + m * high, NEW n, n = m * Long
  PROVE  /\ n \in Nat /\ n > 0 /\ y \in Nat /\ y < n
         /\ 2 * y >= n <=> Negative(high)
         /\ y = 0 <=> low = 0 /\ high = 0
         /\ SignedAt(y, n) = y - n * One(Negative(high))
<1>1. PICK h \in Nat : h > 0 /\ Long = 2 * h
  BY WordIsEven
<1>2. high \in Nat /\ high < 2 * h
  BY <1>1, LongsAreNumbers
<1>3. PICK p, q \in Nat : p = m * high /\ q = m * h
  BY <1>2
<1>4. n = 2 * q /\ n \in Nat
  BY <1>1, <1>3
<1>5. \A i, j \in Nat : i < j => m * i + m <= m * j
  OBVIOUS
<1>6. high < h => p + m <= q
  BY <1>2, <1>3, <1>5
<1>7. ~(high < h) => q <= p
  <2>1. high # h /\ ~(high < h) => q + m <= p
    BY <1>1, <1>2, <1>3, <1>5
  <2>2. high = h => q = p
    BY <1>3
  <2>3. QED
    BY <1>3, <2>1, <2>2
<1>8. p + m <= n
  <2>1. PICK k \in Nat : k = 2 * h /\ m * k = n
    BY <1>1
  <2>2. QED
    BY <1>2, <1>3, <1>5, <2>1
<1>9. y \in Nat /\ y < n /\ y = low + p /\ n > 0
  BY <1>3, <1>4, <1>8
<1>10. 2 * y >= n <=> ~(high < h)
  BY <1>3, <1>4, <1>6, <1>7, <1>9
<1>11. Negative(high) <=> ~(high < h)
  BY <1>1, <1>2 DEF Negative
<1>12. y = 0 <=> low = 0 /\ high = 0
  <2>1. p = 0 <=> high = 0
    BY <1>2, <1>3
  <2>2. QED
    BY <1>3, <1>9, <2>1
<1>13. SignedAt(y, n) = y - n * One(Negative(high))
  <2>1. CASE Negative(high)
    BY <1>4, <1>9, <1>10, <1>11, <2>1 DEF SignedAt, One
  <2>2. CASE ~Negative(high)
    BY <1>4, <1>9, <1>10, <1>11, <2>2 DEF SignedAt, One
  <2>3. QED
    BY <2>1, <2>2
<1>14. QED
  BY <1>4, <1>9, <1>10, <1>11, <1>12, <1>13

\* What is carried over a digit: the total so far is value and k times its weight
\* m; with a digit e, and what is carried into it, that makes r and leaves j to
\* carry, the same holds of the longer total.
LEMMA Carried ==
  ASSUME NEW m \in Nat, m > 0, NEW value \in Nat, value < m, NEW k \in Int, NEW e \in Int,
         NEW r \in Longs, NEW j \in Int, e + k = r + Long * j,
         NEW total, total = (value + m * k) + m * e,
         NEW y, y = value + m * r, NEW n, n = m * Long
  PROVE  /\ total = y + n * j
         /\ total % n = y
         /\ total \notin 0 .. n - 1 <=> j # 0
<1>1. r \in Int /\ Long \in Nat
  BY LongsAreNumbers, WordIsEven
<1>2. n \in Nat /\ n > 0 /\ y \in Nat /\ y < n
  BY Digit
<1>3. total = y + n * j
  <2>1. m * k + m * e = m * (e + k)
    OBVIOUS
  <2>2. PICK p \in Int : p = Long * j
    BY <1>1
  <2>3. m * (r + p) = m * r + m * p
    BY <1>1, <2>2
  <2>4. m * p = n * j
    BY <1>1, <2>2
  <2>5. PICK mk, me, mr, mp \in Int : mk = m * k /\ me = m * e /\ mr = m * r /\ mp = m * p
    BY <1>1, <2>2
  <2>6. mk + me = mr + mp
    BY <2>1, <2>2, <2>3, <2>5
  <2>7. total = value + (mk + me)
    BY <2>5
  <2>8. y + n * j = value + (mr + mp)
    BY <2>4, <2>5
  <2>9. QED
    BY <2>6, <2>7, <2>8
<1>4. total % n = y
  <2>1. (y + n * j) % n = y
    BY ZenonT(30), <1>2, Quotient
  <2>2. QED
    BY <1>3, <2>1
<1>5. PICK nj \in Int : nj = n * j
  BY <1>2
<1>6. j >= 1 => nj >= n
  BY <1>2, <1>5
<1>7. j <= -1 => nj <= 0 - n
  BY <1>2, <1>5
<1>8. j = 0 => nj = 0
  BY <1>2, <1>5
<1>9. QED
  BY SMTT(30), <1>2, <1>3, <1>4, <1>5, <1>6, <1>7, <1>8

\* One digit of a sum: what it carries, and when it overflows.
LEMMA AddDigit ==
  ASSUME NEW d \in Longs, NEW s \in Longs, NEW c \in {0, 1}, NEW r, r = (s + d + c) % Long
  PROVE  /\ r \in Longs
         /\ \E j \in Int :
              /\ (d + s) + c = r + Long * j
              /\ j # 0 <=> AddCarry(Negative(s), Negative(d), Negative(r))
              /\ AddOverflow(Negative(s), Negative(d), Negative(r)) <=> j - One(Negative(d)) - One(Negative(s)) # 0 - One(Negative(r))
<1>1. PICK h \in Nat : h > 0 /\ Long = 2 * h
  BY WordIsEven
<1>2. d \in Nat /\ d < 2 * h /\ s \in Nat /\ s < 2 * h
  BY <1>1, LongsAreNumbers
<1>3. PICK a \in Int : a = s + d + c
  BY <1>2
<1>4. PICK j \in Int : j = a \div Long
  BY <1>1, <1>3, Division
<1>5. PICK p \in Int : p = h * j
  BY <1>1, <1>4
<1>6. r \in Nat /\ r < 2 * h /\ a = r + 2 * p
  <2>1. r = a % Long
    BY <1>3
  <2>2. /\ a % Long \in Nat /\ a % Long < Long
        /\ a = (a % Long) + Long * (a \div Long)
    <3>1. Long \in Nat /\ Long > 0
      BY WordIsEven
    <3>2. QED
      BY <1>3, <3>1, Division
  <2>3. Long * j = 2 * p
    BY <1>1, <1>4, <1>5
  <2>4. QED
    BY <1>1, <1>4, <2>1, <2>2, <2>3
<1>7. /\ j >= 1 => p >= h
      /\ j >= 2 => p >= 2 * h
      /\ j <= -1 => p <= 0 - h
      /\ j <= -2 => p <= 0 - 2 * h
      /\ j = 0 => p = 0
  BY <1>1, <1>4, <1>5
<1>8. j \in {0, 1}
  <2>1. j >= 2 \/ j = 1 \/ j = 0 \/ j = -1 \/ j <= -2
    BY <1>4
  <2>2. QED
    BY <1>1, <1>2, <1>3, <1>4, <1>5, <1>6, <1>7, <2>1
<1>9. a = r + (IF j = 0 THEN 0 ELSE 2 * h)
  <2>1. j # 0 => p = h
    BY <1>1, <1>5, <1>8
  <2>2. QED
    BY <1>1, <1>6, <1>7, <1>8, <2>1
<1>10. /\ Negative(d) <=> d >= h
       /\ Negative(r) <=> r >= h
       /\ Negative(s) <=> s >= h
  BY <1>1, <1>2, <1>6 DEF Negative
<1>11. j # 0 <=> AddCarry(Negative(s), Negative(d), Negative(r))
  BY <1>1, <1>2, <1>3, <1>6, <1>8, <1>9, <1>10 DEF AddCarry, SubBorrow
<1>12. AddOverflow(Negative(s), Negative(d), Negative(r)) <=> j - One(Negative(d)) - One(Negative(s)) # 0 - One(Negative(r))
  BY <1>1, <1>2, <1>3, <1>6, <1>8, <1>9, <1>10 DEF AddOverflow, SubOverflow, One
<1>13. (d + s) + c = r + Long * j
  <2>1. Long * j = 2 * p
    BY <1>1, <1>4, <1>5
  <2>2. QED
    BY <1>2, <1>3, <1>6, <2>1
<1>14. r \in Longs
  BY <1>1, <1>6, LongsAreNumbers
<1>15. QED
  BY <1>11, <1>12, <1>13, <1>14

\* One digit of a difference.
LEMMA SubDigit ==
  ASSUME NEW d \in Longs, NEW s \in Longs, NEW c \in {0, 1}, NEW r, r = (d - s - c) % Long
  PROVE  /\ r \in Longs
         /\ \E j \in Int :
              /\ (d - s) + (0 - c) = r + Long * j
              /\ j # 0 <=> SubBorrow(Negative(s), Negative(d), Negative(r))
              /\ SubOverflow(Negative(s), Negative(d), Negative(r)) <=> j - One(Negative(d)) + One(Negative(s)) # 0 - One(Negative(r))
<1>1. PICK h \in Nat : h > 0 /\ Long = 2 * h
  BY WordIsEven
<1>2. d \in Nat /\ d < 2 * h /\ s \in Nat /\ s < 2 * h
  BY <1>1, LongsAreNumbers
<1>3. PICK a \in Int : a = d - s - c
  BY <1>2
<1>4. PICK j \in Int : j = a \div Long
  BY <1>1, <1>3, Division
<1>5. PICK p \in Int : p = h * j
  BY <1>1, <1>4
<1>6. r \in Nat /\ r < 2 * h /\ a = r + 2 * p
  <2>1. r = a % Long
    BY <1>3
  <2>2. /\ a % Long \in Nat /\ a % Long < Long
        /\ a = (a % Long) + Long * (a \div Long)
    <3>1. Long \in Nat /\ Long > 0
      BY WordIsEven
    <3>2. QED
      BY <1>3, <3>1, Division
  <2>3. Long * j = 2 * p
    BY <1>1, <1>4, <1>5
  <2>4. QED
    BY <1>1, <1>4, <2>1, <2>2, <2>3
<1>7. /\ j >= 1 => p >= h
      /\ j >= 2 => p >= 2 * h
      /\ j <= -1 => p <= 0 - h
      /\ j <= -2 => p <= 0 - 2 * h
      /\ j = 0 => p = 0
  BY <1>1, <1>4, <1>5
<1>8. j \in {0, -1}
  <2>1. j >= 2 \/ j = 1 \/ j = 0 \/ j = -1 \/ j <= -2
    BY <1>4
  <2>2. QED
    BY <1>1, <1>2, <1>3, <1>4, <1>5, <1>6, <1>7, <2>1
<1>9. a = r + (IF j = 0 THEN 0 ELSE 0 - 2 * h)
  <2>1. j # 0 => p = 0 - h
    BY <1>1, <1>5, <1>8
  <2>2. QED
    BY <1>1, <1>6, <1>7, <1>8, <2>1
<1>10. /\ Negative(d) <=> d >= h
       /\ Negative(r) <=> r >= h
       /\ Negative(s) <=> s >= h
  BY <1>1, <1>2, <1>6 DEF Negative
<1>11. j # 0 <=> SubBorrow(Negative(s), Negative(d), Negative(r))
  BY <1>1, <1>2, <1>3, <1>6, <1>8, <1>9, <1>10 DEF AddCarry, SubBorrow
<1>12. SubOverflow(Negative(s), Negative(d), Negative(r)) <=> j - One(Negative(d)) + One(Negative(s)) # 0 - One(Negative(r))
  BY <1>1, <1>2, <1>3, <1>6, <1>8, <1>9, <1>10 DEF AddOverflow, SubOverflow, One
<1>13. (d - s) + (0 - c) = r + Long * j
  <2>1. Long * j = 2 * p
    BY <1>1, <1>4, <1>5
  <2>2. QED
    BY <1>2, <1>3, <1>6, <2>1
<1>14. r \in Longs
  BY <1>1, <1>6, LongsAreNumbers
<1>15. QED
  BY <1>11, <1>12, <1>13, <1>14

\* What SR_Set makes of a negation.
NegOverflow(D, R) == D /\ R
\* The carry that SR_Set takes out of a negation.
NegCarry(D, R) == D \/ R

\* The long word r is a negation of d with a carry, as SR_Set reads it.
NegatedTo(d, c, r) ==
  \E j \in Int :
    /\ (0 - d) + (0 - c) = r + Long * j
    /\ j # 0 <=> NegCarry(Negative(d), Negative(r))
    /\ NegOverflow(Negative(d), Negative(r)) <=> j + One(Negative(d)) # 0 - One(Negative(r))

\* One digit of a negation.
LEMMA NegDigit ==
  ASSUME NEW d \in Longs, NEW c \in {0, 1}, NEW r, r = (0 - d - c) % Long
  PROVE  r \in Longs /\ NegatedTo(d, c, r)
<1>1. PICK h \in Nat : h > 0 /\ Long = 2 * h
  BY WordIsEven
<1>2. d \in Nat /\ d < 2 * h
  BY <1>1, LongsAreNumbers
<1>3. PICK a \in Int : a = 0 - d - c
  BY <1>2
<1>4. PICK j \in Int : j = a \div Long
  BY <1>1, <1>3, Division
<1>5. PICK p \in Int : p = h * j
  BY <1>1, <1>4
<1>6. r \in Nat /\ r < 2 * h /\ a = r + 2 * p
  <2>1. r = a % Long
    BY <1>3
  <2>2. /\ a % Long \in Nat /\ a % Long < Long
        /\ a = (a % Long) + Long * (a \div Long)
    <3>1. Long \in Nat /\ Long > 0
      BY WordIsEven
    <3>2. QED
      BY <1>3, <3>1, Division
  <2>3. Long * j = 2 * p
    BY <1>1, <1>4, <1>5
  <2>4. QED
    BY <1>1, <1>4, <2>1, <2>2, <2>3
<1>7. /\ j >= 1 => p >= h
      /\ j >= 2 => p >= 2 * h
      /\ j <= -1 => p <= 0 - h
      /\ j <= -2 => p <= 0 - 2 * h
      /\ j = 0 => p = 0
  BY <1>1, <1>4, <1>5
<1>8. j \in {0, -1}
  <2>1. j >= 2 \/ j = 1 \/ j = 0 \/ j = -1 \/ j <= -2
    BY <1>4
  <2>2. QED
    BY <1>1, <1>2, <1>3, <1>4, <1>5, <1>6, <1>7, <2>1
<1>9. a = r + (IF j = 0 THEN 0 ELSE 0 - 2 * h)
  <2>1. j # 0 => p = 0 - h
    BY <1>1, <1>5, <1>8
  <2>2. QED
    BY <1>1, <1>6, <1>7, <1>8, <2>1
<1>10. /\ Negative(d) <=> d >= h
       /\ Negative(r) <=> r >= h
  BY <1>1, <1>2, <1>6 DEF Negative
<1>11. j # 0 <=> NegCarry(Negative(d), Negative(r))
  BY <1>1, <1>2, <1>3, <1>6, <1>8, <1>9, <1>10 DEF NegCarry
<1>12. NegOverflow(Negative(d), Negative(r)) <=> j + One(Negative(d)) # 0 - One(Negative(r))
  BY <1>1, <1>2, <1>3, <1>6, <1>8, <1>9, <1>10 DEF NegOverflow, One
<1>13. (0 - d) + (0 - c) = r + Long * j
  <2>1. Long * j = 2 * p
    BY <1>1, <1>4, <1>5
  <2>2. QED
    BY <1>2, <1>3, <1>6, <2>1
<1>14. r \in Longs
  BY <1>1, <1>6, LongsAreNumbers
<1>15. QED
  BY <1>4, <1>11, <1>12, <1>13, <1>14 DEF NegatedTo

\* A sum or a difference.
Total(op, l, r) == IF op = "ADD" THEN l + r ELSE l - r

\* Flags that are exact for a sum or a difference of numbers below m.
Exact(op, m, lhs, rhs, value, f) ==
  LET sum == Total(op, lhs, rhs)
  IN /\ value = sum % m
     /\ f.x <=> sum \notin 0 .. m - 1
     /\ f.c <=> sum \notin 0 .. m - 1
     /\ f.n <=> 2 * value >= m
     /\ f.z <=> value = 0
     /\ f.v <=> SignedAt(value, m) # Total(op, SignedAt(lhs, m), SignedAt(rhs, m))

\* Sums and differences are numbers.
LEMMA TotalIsNumber == \A op : \A l, r \in Int : Total(op, l, r) \in Int
BY DEF Total

\* What is carried out of a number.
CarriedOut(op, f) == IF op = "ADD" THEN One(f.x) ELSE 0 - One(f.x)

\* A positive factor cancels.
LEMMA Cancel ==
  ASSUME NEW n \in Nat, n > 0, NEW a \in Int, NEW b \in Int
  PROVE  n * a = n * b <=> a = b
<1>1. PICK p, q \in Int : p = n * a /\ q = n * b
  OBVIOUS
<1>2. a < b => p < q
  BY <1>1
<1>3. b < a => q < p
  BY <1>1
<1>4. a < b \/ b < a \/ a = b
  OBVIOUS
<1>5. QED
  BY <1>1, <1>2, <1>3, <1>4

\* The total is its remainder and what is carried out of it.
LEMMA TotalAndCarry ==
  ASSUME NEW op, NEW m \in Nat, m > 0, NEW lhs \in Nat, lhs < m, NEW rhs \in Nat, rhs < m,
         NEW value, NEW f \in Flags, Exact(op, m, lhs, rhs, value, f)
  PROVE  /\ value \in Nat /\ value < m
         /\ CarriedOut(op, f) \in {-1, 0, 1}
         /\ Total(op, lhs, rhs) = value + m * CarriedOut(op, f)
<1>1. PICK sum \in Int : sum = Total(op, lhs, rhs)
  BY DEF Total
<1>2. value = sum % m /\ (f.x <=> sum \notin 0 .. m - 1)
  BY <1>1 DEF Exact
<1>3. sum % m \in Nat /\ sum % m < m /\ sum \div m \in Int /\ sum = (sum % m) + m * (sum \div m)
  BY Division
<1>4. PICK j : j = sum \div m
  OBVIOUS
<1>5. value \in Nat /\ value < m /\ j \in Int /\ sum = value + m * j
  BY <1>2, <1>3, <1>4
<1>6. PICK p \in Int : p = m * j
  BY <1>5
<1>7. /\ j >= 1 => p >= m
      /\ j >= 2 => p >= 2 * m
      /\ j <= -1 => p <= 0 - m
      /\ j <= -2 => p <= 0 - 2 * m
      /\ j = 0 => p = 0
  BY <1>5, <1>6
<1>8. /\ op = "ADD" => sum >= 0 /\ sum <= 2 * m - 2
      /\ op # "ADD" => sum > 0 - m /\ sum < m
  BY <1>1 DEF Total
<1>9. /\ op = "ADD" => j \in {0, 1}
      /\ op # "ADD" => j \in {-1, 0}
  <2>1. j >= 2 \/ j = 1 \/ j = 0 \/ j = -1 \/ j <= -2
    BY <1>5
  <2>2. QED
    BY <1>5, <1>6, <1>7, <1>8, <2>1
<1>10. j # 0 <=> sum \notin 0 .. m - 1
  BY <1>5, <1>6, <1>7, <1>9
<1>11. j = CarriedOut(op, f)
  BY <1>2, <1>9, <1>10 DEF CarriedOut, One
<1>12. QED
  BY <1>1, <1>5, <1>9, <1>11

\* A digit in front of two numbers, one of their total, and what the flags say then.
LEMMA NextDigit ==
  ASSUME NEW op, NEW m \in Nat, m > 0, NEW lhs \in Nat, lhs < m, NEW rhs \in Nat, rhs < m,
         NEW value, NEW f \in Flags, Exact(op, m, lhs, rhs, value, f),
         NEW l \in Longs, NEW s \in Longs, NEW r \in Longs, NEW j \in Int,
         Total(op, l, s) + CarriedOut(op, f) = r + Long * j,
         NEW g,
         g.x <=> j # 0, g.c <=> j # 0, g.n <=> Negative(r), g.z <=> r = 0 /\ f.z,
         g.v <=> j - Total(op, One(Negative(l)), One(Negative(s))) # 0 - One(Negative(r)),
         NEW n, n = m * Long, NEW left, left = lhs + m * l, NEW right, right = rhs + m * s,
         NEW y, y = value + m * r
  PROVE  /\ n \in Nat /\ n > 0 /\ left \in Nat /\ left < n /\ right \in Nat /\ right < n
         /\ Exact(op, n, left, right, y, g)
<1>1. /\ n \in Nat /\ n > 0 /\ left \in Nat /\ left < n
      /\ SignedAt(left, n) = left - n * One(Negative(l))
  BY Digit
<1>2. right \in Nat /\ right < n /\ SignedAt(right, n) = right - n * One(Negative(s))
  BY Digit
<1>3. /\ value \in Nat /\ value < m /\ CarriedOut(op, f) \in {-1, 0, 1}
      /\ Total(op, lhs, rhs) = value + m * CarriedOut(op, f)
  BY TotalAndCarry
<1>4. /\ y \in Nat /\ y < n
      /\ 2 * y >= n <=> Negative(r)
      /\ y = 0 <=> value = 0 /\ r = 0
      /\ SignedAt(y, n) = y - n * One(Negative(r))
  BY SMTT(30), <1>3, Digit
<1>5. l \in Int /\ s \in Int
  BY LongsAreNumbers
<1>6. PICK e \in Int : e = Total(op, l, s)
  BY <1>5, TotalIsNumber
<1>7. PICK k \in Int : k = CarriedOut(op, f)
  BY <1>3
<1>8. PICK total \in Int : total = (value + m * k) + m * e
  BY <1>3
<1>9. total = y + n * j /\ total % n = y /\ (total \notin 0 .. n - 1 <=> j # 0)
  <2>1. e + k = r + Long * j
    BY <1>6, <1>7
  <2>2. QED
    BY <1>3, <1>8, <2>1, Carried
<1>10. Total(op, left, right) = total
  <2>1. PICK p, q \in Int : p = m * l /\ q = m * s
    BY <1>5
  <2>2. m * e = Total(op, p, q)
    BY <1>5, <1>6, <2>1 DEF Total
  <2>3. left = lhs + p /\ right = rhs + q
    BY <2>1
  <2>4. total = Total(op, lhs, rhs) + Total(op, p, q)
    BY <1>3, <1>7, <1>8, <2>2
  <2>5. QED
    BY <2>1, <2>3, <2>4 DEF Total
<1>11. g.v <=> SignedAt(y, n) # Total(op, SignedAt(left, n), SignedAt(right, n))
  <2>1. PICK a, b, c \in Int : a = One(Negative(l)) /\ b = One(Negative(s)) /\ c = One(Negative(r))
    BY DEF One
  <2>2. PICK na, nb, nc, nj \in Int : na = n * a /\ nb = n * b /\ nc = n * c /\ nj = n * j
    <3>1. n * a \in Int /\ n * b \in Int
      BY <1>1, <2>1
    <3>2. n * c \in Int /\ n * j \in Int
      BY <1>1, <2>1
    <3>3. QED
      BY <3>1, <3>2, Zenon
  <2>3. PICK o \in Int : o = j - Total(op, a, b)
    BY <2>1 DEF Total
  <2>4. n * o = nj - Total(op, na, nb)
    BY <1>1, <2>1, <2>2, <2>3 DEF Total
  <2>5. Total(op, SignedAt(left, n), SignedAt(right, n)) = Total(op, left - na, right - nb)
    BY <1>1, <1>2, <2>1, <2>2
  <2>6. Total(op, left - na, right - nb) = Total(op, left, right) - Total(op, na, nb)
    BY <1>1, <1>2, <2>2 DEF Total
  <2>7. PICK t \in Int : t = Total(op, na, nb)
    BY <2>2 DEF Total
  <2>8. Total(op, SignedAt(left, n), SignedAt(right, n)) = y + n * o
    BY <1>4, <1>8, <1>9, <1>10, <2>2, <2>4, <2>5, <2>6, <2>7
  <2>9. SignedAt(y, n) = y + n * (0 - c)
    BY <1>1, <1>4, <2>1, <2>2
  <2>10. n * o = n * (0 - c) <=> o = 0 - c
    <3>1. PICK d \in Int : d = 0 - c
      BY <2>1
    <3>2. n * o = n * d <=> o = d
      BY <1>1, <2>3, Cancel
    <3>3. QED
      BY <3>1, <3>2
  <2>11. PICK u, w \in Int : u = n * o /\ w = n * (0 - c)
    BY <1>1, <2>1, <2>3
  <2>12. SignedAt(y, n) # Total(op, SignedAt(left, n), SignedAt(right, n)) <=> o # 0 - c
    <3>1. SignedAt(y, n) = y + w /\ Total(op, SignedAt(left, n), SignedAt(right, n)) = y + u
      BY <2>8, <2>9, <2>11
    <3>2. u = w <=> o = 0 - c
      BY <2>10, <2>11
    <3>3. QED
      BY <1>4, <3>1, <3>2
  <2>13. g.v <=> o # 0 - c
    BY <2>1, <2>3
  <2>14. QED
    BY <2>12, <2>13
<1>12. f.z <=> value = 0
  BY DEF Exact
<1>13. Exact(op, n, left, right, y, g)
  <2>1. PICK sum : sum = Total(op, left, right)
    OBVIOUS
  <2>2. y = sum % n /\ (g.x <=> sum \notin 0 .. n - 1) /\ (g.c <=> sum \notin 0 .. n - 1)
    BY <1>9, <1>10, <2>1
  <2>3. (g.n <=> 2 * y >= n) /\ (g.z <=> y = 0)
    BY <1>4, <1>12
  <2>4. QED
    BY <1>11, <2>1, <2>2, <2>3 DEF Exact
<1>14. QED
  BY <1>1, <1>2, <1>13

\* The empty number.
LEMMA EmptyIsExact ==
  ASSUME NEW op, NEW f, ~f.x, ~f.c, ~f.n, ~f.v, f.z
  PROVE  Exact(op, 1, 0, 0, 0, f)
<1>1. SignedAt(0, 1) = 0 /\ Total(op, 0, 0) = 0
  BY DEF SignedAt, Total
<1>2. 0 % 1 = 0 /\ 0 \in 0 .. 1 - 1 /\ ~(2 * 0 >= 1)
  OBVIOUS
<1>3. QED
  BY <1>1, <1>2 DEF Exact

-----------------------------------------------------------------------------
(* Sums over a set. *)

\* One step of the recursion that sums f over a set.
Addend(f, sums, s) == IF s = {} THEN 0 ELSE LET x == CHOOSE y \in s : TRUE IN f[x] + sums[s \ {x}]

\* A function with the sums of f over all subsets of a set.
Summing(f, sums, S) == sums = [s \in SUBSET S |-> Addend(f, sums, s)]

\* The set that is left for the rest of a sum.
Rest(s) == s \ {CHOOSE y \in s : TRUE}

\* It is a smaller one.
LEMMA RestIsSmaller ==
  ASSUME NEW S, NEW s \in SUBSET S, s # {}
  PROVE  /\ Rest(s) \in SUBSET s /\ Rest(s) \in SUBSET S /\ Rest(s) # s
         /\ <<Rest(s), s>> \in StrictSubsetOrdering(S)
<1>1. (CHOOSE y \in s : TRUE) \in s
  OBVIOUS
<1>2. Rest(s) \in SUBSET s /\ Rest(s) \in SUBSET S /\ Rest(s) # s
  BY <1>1 DEF Rest
<1>3. QED
  BY <1>2 DEF StrictSubsetOrdering

\* What such a function has at a set.
LEMMA SumAt ==
  ASSUME NEW f, NEW sums, NEW S, Summing(f, sums, S), NEW s \in SUBSET S
  PROVE  /\ s = {} => sums[s] = 0
         /\ s # {} => sums[s] = f[CHOOSE y \in s : TRUE] + sums[Rest(s)]
<1>1. PICK g : g = [r \in SUBSET S |-> Addend(f, sums, r)]
  OBVIOUS
<1>2. sums = g
  BY <1>1 DEF Summing
<1>3. g[s] = Addend(f, sums, s)
  BY <1>1
<1>4. sums[s] = Addend(f, sums, s)
  BY <1>2, <1>3
<1>5. QED
  BY <1>4 DEF Addend, Rest

\* Every property of the smaller subsets of a finite set that carries over to a
\* subset holds of all: there is no smallest one without it.
LEMMA SmallestSubset ==
  ASSUME NEW S, IsFiniteSet(S), NEW Bad \in SUBSET (SUBSET S), Bad # {}
  PROVE  \E s \in Bad : \A r \in Bad : <<r, s>> \notin StrictSubsetOrdering(S)
<1>1. IsWellFoundedOn(StrictSubsetOrdering(S), FiniteSubsetsOf(S))
  BY FS_StrictSubsetOrderingWellFounded
<1>2. Bad \subseteq FiniteSubsetsOf(S)
  BY FS_Subset DEF FiniteSubsetsOf
<1>3. QED
  BY <1>1, <1>2, WFMin

\* Two such functions agree.
LEMMA SumsAgree ==
  ASSUME NEW S, IsFiniteSet(S), NEW f, NEW T \in SUBSET S, NEW U \in SUBSET S, NEW g, NEW h,
         Summing(f, g, T), Summing(f, h, U), NEW s \in SUBSET T, s \in SUBSET U
  PROVE  g[s] = h[s]
<1> DEFINE Bad == {r \in SUBSET S : r \in SUBSET T /\ r \in SUBSET U /\ g[r] # h[r]}
<1>1. SUFFICES ASSUME Bad # {} PROVE FALSE
  OBVIOUS
<1>2. PICK r \in Bad : \A q \in Bad : <<q, r>> \notin StrictSubsetOrdering(S)
  <2>1. Bad \in SUBSET (SUBSET S)
    OBVIOUS
  <2>2. QED
    BY <1>1, <2>1, SmallestSubset
<1>3. r # {}
  BY SumAt
<1>4. Rest(r) \in SUBSET S /\ Rest(r) \in SUBSET r /\ <<Rest(r), r>> \in StrictSubsetOrdering(S)
  BY <1>3, RestIsSmaller
<1>5. g[Rest(r)] = h[Rest(r)]
  BY <1>2, <1>4
<1>6. g[r] = f[CHOOSE y \in r : TRUE] + g[Rest(r)] /\ h[r] = f[CHOOSE y \in r : TRUE] + h[Rest(r)]
  BY <1>3, SumAt
<1>7. QED
  BY <1>5, <1>6

\* There is one for every finite set.
LEMMA SumsExist ==
  ASSUME NEW S, IsFiniteSet(S), NEW f
  PROVE  \E sums : Summing(f, sums, S)
<1> DEFINE Has(T) == \E sums : Summing(f, sums, T)
           Bad == {T \in SUBSET S : ~Has(T)}
           G(T) == CHOOSE sums : Summing(f, sums, T)
<1>1. SUFFICES ASSUME Bad # {} PROVE FALSE
  BY DEF Has, Bad
<1>2. PICK T \in Bad : \A U \in Bad : <<U, T>> \notin StrictSubsetOrdering(S)
  <2>1. Bad \in SUBSET (SUBSET S)
    OBVIOUS
  <2>2. QED
    BY <1>1, <2>1, SmallestSubset
<1>3. ASSUME NEW U \in SUBSET T, U # T PROVE Summing(f, G(U), U)
  <2>1. U \in SUBSET S /\ <<U, T>> \in StrictSubsetOrdering(S)
    BY <1>3 DEF StrictSubsetOrdering
  <2>2. Has(U)
    BY <1>2, <2>1
  <2>3. QED
    BY <2>2
<1> DEFINE Value(s) == IF s = {} THEN 0
                       ELSE f[CHOOSE y \in s : TRUE] + G(Rest(s))[Rest(s)]
           h == [s \in SUBSET T |-> Value(s)]
<1>4. ASSUME NEW U \in SUBSET T, U # T PROVE G(U)[U] = Value(U)
  <2>1. Summing(f, G(U), U) /\ U \in SUBSET U
    BY <1>3, <1>4
  <2>2. CASE U = {}
    BY <2>1, <2>2, SumAt
  <2>3. CASE U # {}
    <3>1. Rest(U) \in SUBSET U /\ Rest(U) \in SUBSET T /\ Rest(U) # T /\ Rest(U) \in SUBSET S
      <4>1. Rest(U) \in SUBSET U /\ Rest(U) # U
        BY <2>1, <2>3, RestIsSmaller
      <4>2. QED
        BY <1>4, <4>1
    <3>2. Summing(f, G(Rest(U)), Rest(U))
      BY <1>3, <3>1
    <3>3. G(U)[U] = f[CHOOSE y \in U : TRUE] + G(U)[Rest(U)]
      BY <2>1, <2>3, SumAt
    <3>4. G(U)[Rest(U)] = G(Rest(U))[Rest(U)]
      <4>1. U \in SUBSET S /\ Rest(U) \in SUBSET Rest(U)
        OBVIOUS
      <4>2. QED
        BY <2>1, <3>1, <3>2, <4>1, SumsAgree
    <3>5. QED
      BY <2>3, <3>3, <3>4
  <2>4. QED
    BY <2>2, <2>3
<1>5. ASSUME NEW s \in SUBSET T PROVE Value(s) = Addend(f, h, s)
  <2>1. CASE s = {}
    BY <2>1 DEF Addend
  <2>2. CASE s # {}
    <3>1. Rest(s) \in SUBSET T /\ Rest(s) # T
      <4>1. Rest(s) \in SUBSET s /\ Rest(s) # s
        BY <2>2, RestIsSmaller
      <4>2. QED
        BY <4>1
    <3>2. G(Rest(s))[Rest(s)] = Value(Rest(s))
      BY <1>4, <3>1
    <3>3. h[Rest(s)] = Value(Rest(s))
      BY <3>1
    <3>4. Addend(f, h, s) = f[CHOOSE y \in s : TRUE] + h[Rest(s)]
      <4> HIDE DEF h
      <4>1. QED
        BY <2>2 DEF Addend, Rest
    <3>5. QED
      BY <2>2, <3>2, <3>3, <3>4
  <2>3. QED
    BY <2>1, <2>2
<1>6. Summing(f, h, T)
  <2>1. h = [s \in SUBSET T |-> Addend(f, h, s)]
    BY <1>5
  <2>2. QED
    BY <2>1 DEF Summing
<1>7. QED
  BY <1>2, <1>6

\* A sum of numbers over a finite set is a number.
LEMMA SumIsNumber ==
  ASSUME NEW f, IsFiniteSet(DOMAIN f), \A x \in DOMAIN f : f[x] \in Nat
  PROVE  SumFunction(f) \in Nat
<1> DEFINE S == DOMAIN f
           sums == CHOOSE g : Summing(f, g, S)
<1>1. SumFunction(f) = sums[S]
  BY DEF SumFunction, SumFunctionOnSet, FoldFunctionOnSet, MapThenFoldSet, Summing, Addend
<1>2. Summing(f, sums, S)
  BY SumsExist
<1> DEFINE Bad == {s \in SUBSET S : sums[s] \notin Nat}
<1>3. SUFFICES ASSUME Bad # {} PROVE FALSE
  BY <1>1
<1> HIDE DEF sums
<1>4. PICK s \in Bad : \A r \in Bad : <<r, s>> \notin StrictSubsetOrdering(S)
  <2>1. Bad \in SUBSET (SUBSET S)
    OBVIOUS
  <2>2. QED
    BY <1>3, <2>1, SmallestSubset
<1>5. s # {}
  BY <1>2, <1>4, SumAt
<1>6. Rest(s) \in SUBSET S /\ <<Rest(s), s>> \in StrictSubsetOrdering(S)
  BY <1>5, RestIsSmaller
<1>7. sums[Rest(s)] \in Nat
  BY <1>4, <1>6
<1>8. sums[s] = f[CHOOSE y \in s : TRUE] + sums[Rest(s)]
  BY <1>2, <1>5, SumAt
<1>9. f[CHOOSE y \in s : TRUE] \in Nat
  <2>1. (CHOOSE y \in s : TRUE) \in s
    BY <1>5
  <2>2. QED
    BY <2>1
<1>10. QED
  BY <1>4, <1>7, <1>8, <1>9

-----------------------------------------------------------------------------
(* Powers of two and the numbers made of them. *)

\* A set of numbers has a least element.
LEMMA LeastElement ==
  ASSUME NEW S, S \subseteq Nat, S # {}
  PROVE  \E n \in S : \A m \in S : n <= m
<1>1. PICK n \in S : \A m \in S : <<m, n>> \notin OpToRel(<, Nat)
  BY NatLessThanWellFounded, WFMin
<1>2. \A m \in S : ~(m < n)
  BY <1>1 DEF OpToRel
<1>3. QED
  BY <1>2

\* A function with the powers up to n.
Doubling(g, n) == g = [i \in 0 .. n |-> IF i = 0 THEN 1 ELSE 2 * g[i - 1]]

\* There is one for every n.
LEMMA DoublingExists == \A n \in Nat : \E g : Doubling(g, n)
<1> DEFINE Has(n) == \E g : Doubling(g, n)
           Bad == {n \in Nat : ~Has(n)}
<1>1. SUFFICES ASSUME Bad # {} PROVE FALSE
  OBVIOUS
<1>2. PICK n \in Bad : \A m \in Bad : n <= m
  <2>1. Bad \subseteq Nat
    OBVIOUS
  <2>2. QED
    BY <1>1, <2>1, LeastElement
<1>3. CASE n = 0
  <2>1. Doubling([i \in 0 .. 0 |-> 1], 0)
    BY DEF Doubling
  <2>2. QED
    BY <1>2, <1>3, <2>1
<1>4. CASE n # 0
  <2>1. n - 1 \in Nat /\ ~(n <= n - 1)
    BY <1>4
  <2>2. Has(n - 1)
    BY <1>2, <2>1
  <2>3. PICK g : Doubling(g, n - 1)
    BY <2>2
  <2> DEFINE h == [i \in 0 .. n |-> IF i < n THEN g[i] ELSE 2 * g[n - 1]]
  <2>4. ASSUME NEW i \in 0 .. n PROVE h[i] = IF i = 0 THEN 1 ELSE 2 * h[i - 1]
    <3>1. \A j \in 0 .. n - 1 : g[j] = IF j = 0 THEN 1 ELSE 2 * g[j - 1]
      BY <2>3 DEF Doubling
    <3>2. CASE i = 0
      BY <1>4, <2>1, <3>1, <3>2
    <3>3. CASE i # 0 /\ i < n
      <4>1. i \in 0 .. n - 1 /\ i - 1 \in 0 .. n /\ i - 1 < n
        BY <3>3
      <4>2. h[i] = g[i] /\ h[i - 1] = g[i - 1]
        BY <3>3, <4>1
      <4>3. QED
        BY <3>1, <3>3, <4>1, <4>2
    <3>4. CASE i = n
      <4>1. n - 1 \in 0 .. n /\ n - 1 < n
        BY <2>1
      <4>2. h[n] = 2 * g[n - 1] /\ h[n - 1] = g[n - 1]
        BY <4>1
      <4>3. QED
        BY <1>4, <3>4, <4>2
    <3>5. QED
      BY <3>2, <3>3, <3>4
  <2>5. Doubling(h, n)
    <3>1. h = [i \in 0 .. n |-> h[i]]
      OBVIOUS
    <3>2. h = [i \in 0 .. n |-> IF i = 0 THEN 1 ELSE 2 * h[i - 1]]
      <4> HIDE DEF h
      <4>1. QED
        BY <2>4, <3>1
    <3>3. QED
      BY <3>2 DEF Doubling
  <2>6. QED
    BY <1>2, <2>5
<1>5. QED
  BY <1>3, <1>4

\* The bits of a long word are a number.
LEMMA BitsAreNumbers == ByteBits \in Nat /\ ByteBits > 0 /\ LongBits \in Nat /\ LongBits = 4 * ByteBits
BY OperandsAssumption DEF LongBits

\* What a power is.
LEMMA PowerAt ==
  /\ Power[0] = 1
  /\ \A i \in 0 .. 2 * LongBits : i # 0 => Power[i] = 2 * Power[i - 1]
<1>1. PICK n \in Nat : n = 2 * LongBits
  BY BitsAreNumbers
<1>2. Power = CHOOSE g : Doubling(g, n)
  BY <1>1 DEF Power, Doubling
<1>3. Doubling(Power, n)
  BY <1>2, DoublingExists
<1>4. \A i \in 0 .. n : Power[i] = IF i = 0 THEN 1 ELSE 2 * Power[i - 1]
  BY <1>3 DEF Doubling
<1>5. QED
  BY <1>1, <1>4

\* It is a number, and not zero.
LEMMA PowerIsPositive == \A i \in 0 .. 2 * LongBits : Power[i] \in Nat /\ Power[i] > 0
<1> DEFINE Bad == {i \in 0 .. 2 * LongBits : ~(Power[i] \in Nat /\ Power[i] > 0)}
<1>1. SUFFICES ASSUME Bad # {} PROVE FALSE
  OBVIOUS
<1>2. PICK i \in Bad : \A j \in Bad : i <= j
  <2>1. Bad \subseteq Nat
    BY BitsAreNumbers
  <2>2. QED
    BY <1>1, <2>1, LeastElement
<1>3. i # 0
  BY PowerAt
<1>4. i \in Nat /\ i - 1 \in 0 .. 2 * LongBits /\ ~(i <= i - 1)
  BY <1>3, BitsAreNumbers
<1>5. Power[i - 1] \in Nat /\ Power[i - 1] > 0
  BY <1>2, <1>4
<1>6. Power[i] = 2 * Power[i - 1]
  BY <1>3, PowerAt
<1>7. QED
  BY <1>5, <1>6

\* Exponents add, and a long word has as many values as the power of its bits.
LEMMA PowersMultiply ==
  \A i, j \in Nat : i + j <= 2 * LongBits => Power[i + j] = Power[i] * Power[j]
<1> DEFINE Holds(j) == \A i \in Nat : i + j <= 2 * LongBits => Power[i + j] = Power[i] * Power[j]
           Bad == {j \in Nat : ~Holds(j)}
<1>1. SUFFICES ASSUME Bad # {} PROVE FALSE
  OBVIOUS
<1>2. PICK j \in Bad : \A m \in Bad : j <= m
  <2>1. Bad \subseteq Nat
    OBVIOUS
  <2>2. QED
    BY <1>1, <2>1, LeastElement
<1>3. PICK i \in Nat : i + j <= 2 * LongBits /\ Power[i + j] # Power[i] * Power[j]
  BY <1>2
<1>4. LongBits \in Nat /\ i \in 0 .. 2 * LongBits /\ j \in 0 .. 2 * LongBits /\ i + j \in 0 .. 2 * LongBits
  BY <1>3, BitsAreNumbers
<1>5. Power[i] \in Nat /\ Power[j] \in Nat
  BY <1>4, PowerIsPositive
<1>6. CASE j = 0
  <2>1. Power[j] = 1 /\ i + j = i
    BY <1>6, PowerAt
  <2>2. QED
    BY <1>3, <1>5, <2>1
<1>7. CASE j # 0
  <2>1. j - 1 \in Nat /\ j - 1 \notin Bad
    BY <1>2, <1>7
  <2>2. i + (j - 1) <= 2 * LongBits /\ i + (j - 1) = (i + j) - 1
    BY <1>3, <1>4
  <2>3. Power[i + (j - 1)] = Power[i] * Power[j - 1]
    BY <2>1, <2>2
  <2>4. j - 1 \in 0 .. 2 * LongBits
    BY <1>4, <2>1
  <2>5. Power[j] = 2 * Power[j - 1] /\ Power[i + j] = 2 * Power[(i + j) - 1]
    BY <1>4, <1>7, PowerAt
  <2>6. PICK a, b : a = Power[i] /\ b = Power[j - 1] /\ a \in Nat /\ b \in Nat
    BY <1>4, <2>4, PowerIsPositive
  <2>7. 2 * (a * b) = a * (2 * b)
    BY <2>6
  <2>8. QED
    BY <1>3, <2>2, <2>3, <2>5, <2>6, <2>7
<1>8. QED
  BY <1>6, <1>7

\* A long word is a power of two of as many as its bits.
LEMMA LongIsPower == Power[LongBits] = Long
<1>1. PICK b \in Nat : b = ByteBits /\ LongBits = 4 * b
  BY BitsAreNumbers
<1>2. PICK y : y = Power[b] /\ y = Byte
  BY <1>1, OperandsAssumption
<1>3. y \in Nat /\ Long = (y * y) * (y * y)
  BY <1>2, WordIsEven DEF Word, Long
<1>4. PICK w : w = y * y /\ w \in Nat
  BY <1>3
<1>5. Power[b + b] = w
  <2>1. b + b <= 2 * LongBits
    BY <1>1
  <2>2. Power[b + b] = Power[b] * Power[b]
    BY <2>1, PowersMultiply
  <2>3. QED
    BY <1>2, <1>4, <2>2
<1>6. Power[(b + b) + (b + b)] = w * w
  <2>1. PICK c \in Nat : c = b + b /\ c + c <= 2 * LongBits
    BY <1>1
  <2>2. Power[c + c] = Power[c] * Power[c]
    BY <2>1, PowersMultiply
  <2>3. QED
    BY <1>5, <2>1, <2>2
<1>7. (b + b) + (b + b) = LongBits
  BY <1>1
<1>8. QED
  BY <1>3, <1>4, <1>6, <1>7

\* Bits make a number.
LEMMA BitsMakeNumber ==
  ASSUME NEW bits \in SUBSET (0 .. LongBits - 1)
  PROVE  FromBits(bits) \in Nat
<1> DEFINE f == [i \in bits |-> Power[i]]
<1>1. IsFiniteSet(bits)
  <2>1. 0 \in Int /\ LongBits - 1 \in Int
    BY BitsAreNumbers
  <2>2. IsFiniteSet(0 .. LongBits - 1)
    BY <2>1, FS_Interval
  <2>3. QED
    BY <2>2, FS_Subset
<1>2. bits \subseteq 0 .. 2 * LongBits
  BY BitsAreNumbers
<1>3. IsFiniteSet(DOMAIN f) /\ \A i \in DOMAIN f : f[i] \in Nat
  BY <1>1, <1>2, PowerIsPositive
<1>4. SumFunction(f) \in Nat
  <2> HIDE DEF f
  <2>1. QED
    BY <1>3, SumIsNumber
<1>5. QED
  BY <1>4 DEF FromBits

\* So do the logical operations.
LEMMA LogicIsNumber ==
  ASSUME NEW v, NEW w
  PROVE  And(v, w) \in Nat /\ Or(v, w) \in Nat /\ Eor(v, w) \in Nat
<1>1. \A u : BitsOf(u) \in SUBSET (0 .. LongBits - 1)
  BY DEF BitsOf
<1>2. QED
  BY <1>1, BitsMakeNumber DEF And, Or, Eor

-----------------------------------------------------------------------------
(* The machine and its operands. *)

\* The parts of a machine.
LEMMA Parts ==
  ASSUME NEW m \in Machines
  PROVE  /\ m.d \in [0 .. 1 -> Longs] /\ m.a \in [{0, 7} -> Longs] /\ m.pc \in Longs
         /\ m.ccr \in Flags /\ m.ram \in [Addresses -> 0 .. Byte - 1]
BY DEF Machines

\* A machine with another pc, other flags, registers or memory.
LEMMA WithPC ==
  ASSUME NEW m \in Machines, NEW v \in Longs, NEW o, o = [m EXCEPT !.pc = v]
  PROVE  /\ o \in Machines /\ o.pc = v
         /\ o.d = m.d /\ o.a = m.a /\ o.ccr = m.ccr /\ o.ram = m.ram
BY DEF Machines

\* Another condition code register leaves a machine, as it leaves the rest of it.
LEMMA WithFlags ==
  ASSUME NEW m \in Machines, NEW v \in Flags, NEW o, o = [m EXCEPT !.ccr = v]
  PROVE  /\ o \in Machines /\ o.ccr = v
         /\ o.d = m.d /\ o.a = m.a /\ o.pc = m.pc /\ o.ram = m.ram
BY DEF Machines

\* So does another value in a data register,
LEMMA WithD ==
  ASSUME NEW m \in Machines, NEW n \in 0 .. 1, NEW v \in Longs, NEW o, o = [m EXCEPT !.d[n] = v]
  PROVE  /\ o \in Machines /\ o.d = [m.d EXCEPT ![n] = v]
         /\ o.a = m.a /\ o.pc = m.pc /\ o.ccr = m.ccr /\ o.ram = m.ram
BY DEF Machines

\* in an address register,
LEMMA WithA ==
  ASSUME NEW m \in Machines, NEW n \in {0, 7}, NEW v \in Longs, NEW o, o = [m EXCEPT !.a[n] = v]
  PROVE  /\ o \in Machines /\ o.a = [m.a EXCEPT ![n] = v]
         /\ o.d = m.d /\ o.pc = m.pc /\ o.ccr = m.ccr /\ o.ram = m.ram
BY DEF Machines

\* and in memory.
LEMMA WithRam ==
  ASSUME NEW m \in Machines, NEW v \in [Addresses -> 0 .. Byte - 1], NEW o, o = [m EXCEPT !.ram = v]
  PROVE  /\ o \in Machines /\ o.ram = v
         /\ o.d = m.d /\ o.a = m.a /\ o.pc = m.pc /\ o.ccr = m.ccr
BY DEF Machines

\* A fetch moves the pc and nothing else.
LEMMA Fetched ==
  ASSUME NEW m \in Machines, NEW size \in Nat, NEW o, o = Memory_RetrFromPC(m, size)
  PROVE  /\ o \in Machines
         /\ o.d = m.d /\ o.a = m.a /\ o.ccr = m.ccr /\ o.ram = m.ram
<1>1. PICK v : v = (m.pc + (IF size = 1 THEN 2 ELSE size)) % Long
  OBVIOUS
<1>2. v \in Longs
  <2>1. m.pc \in Int
    BY Parts, LongsAreNumbers
  <2>2. PICK a \in Int : a = m.pc + (IF size = 1 THEN 2 ELSE size)
    BY <2>1
  <2>3. QED
    BY <1>1, <2>2, Remainders
<1>3. o = [m EXCEPT !.pc = v]
  BY <1>1 DEF Memory_RetrFromPC
<1>4. QED
  BY <1>2, <1>3, WithPC

\* A place that an operand can be at.
IsPlace(at) ==
  /\ at.mode \in {"Dn", "An", "Immediate"} \cup InMemory
  /\ at.mode = "Dn" => at.reg \in 0 .. 1
  /\ at.mode = "An" => at.reg \in {0, 7}
  /\ at.size \in {1, 2, 4}
  /\ at.address \in Longs /\ at.data \in Nat

\* Displacements, indices and data are numbers.
LEMMA OperandsAreNumbers ==
  ASSUME NEW m \in Machines, NEW ea, IsOperand(ea)
  PROVE  Displacement(ea) \in Nat /\ Index(m, ea) \in Nat
<1>1. ea.data \in Int
  BY LongsAreNumbers DEF IsOperand
<1>2. \A size \in {1, 2, 4} : SignExtend(ea.data, size) \in Nat
  BY <1>1, SignExtension, LongsAreNumbers
<1>3. Displacement(ea) \in Nat
  BY <1>2 DEF Displacement
<1>4. CASE ea.mode \in Indexed
  <2>1. PICK s : s = IF ea.bank = "d" THEN m.d[ea.index] ELSE m.a[ea.index]
    OBVIOUS
  <2>2. s \in Nat
    BY <1>4, <2>1, Parts, LongsAreNumbers DEF IsOperand
  <2>3. ea.scale \in {1, 2, 4}
    BY <1>4 DEF IsOperand
  <2>4. Index(m, ea) = ea.scale * s
    BY <1>4, <2>1 DEF Index
  <2>5. QED
    BY <1>3, <2>2, <2>3, <2>4
<1>5. CASE ea.mode \notin Indexed
  BY <1>3, <1>5 DEF Index
<1>6. QED
  BY <1>4, <1>5

\* Sums wrap around to long words.
LEMMA Wrapped == \A v, w, u \in Int : (v + w) % Long \in Longs /\ (v - w) % Long \in Longs /\ (v + w + u) % Long \in Longs
<1>1. \A v, w, u \in Int : v + w \in Int /\ v - w \in Int /\ v + w + u \in Int
  OBVIOUS
<1>2. QED
  BY <1>1, Remainders

\* An address register that steps up or down.
LEMMA Steps ==
  ASSUME NEW m \in Machines, NEW n \in {0, 7}, NEW size \in Int, NEW up, NEW down,
         up = [m EXCEPT !.a[n] = (@ + size) % Long], down = [m EXCEPT !.a[n] = (@ - size) % Long]
  PROVE  /\ up \in Machines /\ up.d = m.d /\ up.ccr = m.ccr /\ up.ram = m.ram
         /\ down \in Machines /\ down.d = m.d /\ down.ccr = m.ccr /\ down.ram = m.ram
<1>1. m.a[n] \in Int
  BY Parts, LongsAreNumbers
<1>2. PICK v \in Longs : v = (m.a[n] + size) % Long
  BY <1>1, Wrapped
<1>3. PICK w \in Longs : w = (m.a[n] - size) % Long
  BY <1>1, Wrapped
<1>4. up = [m EXCEPT !.a[n] = v]
  BY <1>2
<1>5. down = [m EXCEPT !.a[n] = w]
  BY <1>3
<1>6. up \in Machines /\ up.d = m.d /\ up.ccr = m.ccr /\ up.ram = m.ram
  BY <1>4 DEF Machines
<1>7. down \in Machines /\ down.d = m.d /\ down.ccr = m.ccr /\ down.ram = m.ram
  BY <1>5 DEF Machines
<1>8. QED
  BY <1>6, <1>7

\* Forming an operand takes its extension words and steps an address register; the
\* rest of the machine stays.
LEMMA Formed ==
  ASSUME NEW m \in Machines, NEW size \in {1, 2, 4}, NEW ea, IsOperand(ea),
         NEW e, e = EA_GetFromPC(m, size, ea)
  PROVE  /\ e.core \in Machines /\ e.core.d = m.d /\ e.core.ccr = m.ccr /\ e.core.ram = m.ram
         /\ IsPlace(e.at) /\ e.at.mode = ea.mode /\ e.at.reg = ea.reg /\ e.at.size = size
<1> DEFINE n == IF ea.mode = "Dn" THEN 0 ELSE ea.reg
           stepped == CASE ea.mode = "PostIncrement" -> [m EXCEPT !.a[n] = (@ + size) % Long]
                        [] ea.mode = "PreDecrement" -> [m EXCEPT !.a[n] = (@ - size) % Long]
                        [] Extension(ea, size) > 0 -> Memory_RetrFromPC(m, Extension(ea, size))
                        [] OTHER -> m
           address == CASE ea.mode \in {"Indirect", "PostIncrement"} -> m.a[n]
                        [] ea.mode = "PreDecrement" -> stepped.a[n]
                        [] ea.mode \in {"Displaced", "Indexed"} ->
                             (m.a[n] + Displacement(ea) + Index(m, ea)) % Long
                        [] ea.mode = "AbsoluteWord" -> ea.data % Word
                        [] ea.mode = "AbsoluteLong" -> ea.data
                        [] ea.mode \in PCRelative ->
                             (m.pc + Displacement(ea) + Index(m, ea)) % Long
                        [] OTHER -> 0
<1>1. e = [core |-> stepped,
           at |-> [mode |-> ea.mode, reg |-> ea.reg, size |-> size,
                   address |-> address, data |-> ea.data % Values(size)]]
  BY DEF EA_GetFromPC
<1>2. ea.mode \notin {"Dn", "Immediate"} \cup Absolute \cup PCRelative => n \in {0, 7}
  BY DEF IsOperand
<1> HIDE DEF n
<1>3. Extension(ea, size) \in Nat
  BY DEF Extension
<1>4. \A k \in {0, 7} : m.a[k] \in Longs /\ m.a[k] \in Int
  BY Parts, LongsAreNumbers
<1>5. m.pc \in Int /\ ea.data \in Longs /\ ea.data \in Int /\ size \in Int
  BY Parts, LongsAreNumbers DEF IsOperand
<1>6. Displacement(ea) \in Int /\ Index(m, ea) \in Int
  BY OperandsAreNumbers
<1> DEFINE x == Extension(ea, size)
<1>7. /\ ea.mode \in {"PostIncrement", "PreDecrement"} => ~(x > 0)
      /\ x \in Nat
  BY <1>3 DEF Extension, Absolute, PCRelative, Indexed
<1>8. PICK inc : inc = [m EXCEPT !.a[n] = (@ + size) % Long]
  OBVIOUS
<1>9. PICK dec : dec = [m EXCEPT !.a[n] = (@ - size) % Long]
  OBVIOUS
<1>10. PICK ext : ext = Memory_RetrFromPC(m, x)
  OBVIOUS
<1>11. stepped = CASE ea.mode = "PostIncrement" -> inc
                   [] ea.mode = "PreDecrement" -> dec
                   [] x > 0 -> ext
                   [] OTHER -> m
  BY <1>8, <1>9, <1>10
<1> HIDE DEF x
<1>12. \A o : o \in {inc, dec} /\ n \in {0, 7} =>
         o \in Machines /\ o.d = m.d /\ o.ccr = m.ccr /\ o.ram = m.ram
  <2>1. SUFFICES ASSUME n \in {0, 7}
                 PROVE  /\ inc \in Machines /\ inc.d = m.d /\ inc.ccr = m.ccr /\ inc.ram = m.ram
                        /\ dec \in Machines /\ dec.d = m.d /\ dec.ccr = m.ccr /\ dec.ram = m.ram
    OBVIOUS
  <2>2. QED
    BY <1>5, <1>8, <1>9, <2>1, Steps
<1>13. ext \in Machines /\ ext.d = m.d /\ ext.ccr = m.ccr /\ ext.ram = m.ram
  BY <1>7, <1>10, Fetched
<1>14. /\ ea.mode = "PostIncrement" => stepped = inc
       /\ ea.mode = "PreDecrement" => stepped = dec
       /\ ea.mode \notin {"PostIncrement", "PreDecrement"} => stepped \in {ext, m}
  BY <1>7, <1>11
<1>15. ea.mode \in {"PostIncrement", "PreDecrement"} => n \in {0, 7}
  BY <1>2 DEF Absolute, PCRelative
<1>16. /\ stepped \in Machines /\ stepped.d = m.d /\ stepped.ccr = m.ccr /\ stepped.ram = m.ram
  <2> HIDE DEF stepped
  <2>1. CASE ea.mode \in {"PostIncrement", "PreDecrement"}
    <3>1. stepped \in {inc, dec}
      BY <1>14, <2>1
    <3>2. QED
      BY <1>12, <1>15, <2>1, <3>1
  <2>2. CASE ea.mode \notin {"PostIncrement", "PreDecrement"}
    <3>1. stepped \in {ext, m}
      BY <1>14, <2>2
    <3>2. QED
      BY <1>13, <3>1
  <2>3. QED
    BY <2>1, <2>2
<1>17. address \in Longs
  <2> HIDE DEF stepped
  <2>1. PICK a1 : a1 = m.a[n]
    OBVIOUS
  <2>2. PICK a2 : a2 = stepped.a[n]
    OBVIOUS
  <2>3. PICK a3 : a3 = (m.a[n] + Displacement(ea) + Index(m, ea)) % Long
    OBVIOUS
  <2>4. PICK a4 : a4 = ea.data % Word
    OBVIOUS
  <2>5. PICK a5 \in Longs : a5 = (m.pc + Displacement(ea) + Index(m, ea)) % Long
    BY <1>5, <1>6, Wrapped
  <2>6. address = CASE ea.mode \in {"Indirect", "PostIncrement"} -> a1
                    [] ea.mode = "PreDecrement" -> a2
                    [] ea.mode \in {"Displaced", "Indexed"} -> a3
                    [] ea.mode = "AbsoluteWord" -> a4
                    [] ea.mode = "AbsoluteLong" -> ea.data
                    [] ea.mode \in PCRelative -> a5
                    [] OTHER -> 0
    BY <2>1, <2>2, <2>3, <2>4, <2>5
  <2>7. ea.mode \in {"Indirect", "PostIncrement", "PreDecrement", "Displaced", "Indexed"} => n \in {0, 7}
    BY <1>2 DEF Absolute, PCRelative
  <2>8. ea.mode \in {"Indirect", "PostIncrement"} => a1 \in Longs
    BY <1>4, <2>1, <2>7
  <2>9. ea.mode = "PreDecrement" => a2 \in Longs
    BY <1>16, <2>2, <2>7, Parts
  <2>10. ea.mode \in {"Displaced", "Indexed"} => a3 \in Longs
    <3>1. SUFFICES ASSUME n \in {0, 7}
                   PROVE  a3 \in Longs
      BY <2>7
    <3>2. PICK k \in Int : k = m.a[n]
      BY <1>4, <3>1
    <3>3. QED
      BY <1>6, <2>3, <3>2, Wrapped
  <2>11. a4 \in Longs
    <3>1. a4 \in Nat /\ a4 < Word
      BY <1>5, <2>4, WordIsEven, Division
    <3>2. Word <= Long
      BY SizesDivide, ShortSizes, WordIsEven DEF Values
    <3>3. QED
      BY <3>1, <3>2, WordIsEven, LongsAreNumbers
  <2>12. 0 \in Longs
    BY WordIsEven, LongsAreNumbers
  <2> HIDE DEF address
  <2>13. QED
    BY <1>5, <2>5, <2>6, <2>8, <2>9, <2>10, <2>11, <2>12 DEF PCRelative
<1>18. PICK data : data = ea.data % Values(size)
  OBVIOUS
<1>19. data \in Nat
  BY <1>5, <1>18, SizesDivide, Division
<1> HIDE DEF stepped, address
<1>20. PICK at : at = [mode |-> ea.mode, reg |-> ea.reg, size |-> size, address |-> address, data |-> data]
  OBVIOUS
<1>21. e.core = stepped /\ e.at = at
  BY <1>1, <1>18, <1>20
<1>22. at.mode = ea.mode /\ at.reg = ea.reg /\ at.size = size /\ at.address = address /\ at.data = data
  BY <1>20
<1>23. ea.mode = "An" => ea.reg \in {0, 7}
  BY DEF IsOperand, Absolute, PCRelative
<1>24. IsPlace(at)
  BY <1>17, <1>19, <1>22, <1>23 DEF IsPlace, IsOperand
<1>25. QED
  BY <1>16, <1>21, <1>22, <1>24

\* What is read is a sign extended number.
LEMMA Read ==
  ASSUME NEW m \in Machines, NEW at, IsPlace(at), Inside(at)
  PROVE  /\ \E x \in Int : EA_GetValue(m, at) = SignExtend(x, at.size)
         /\ EA_GetValue(m, at) \in Longs
<1>1. at.size \in {1, 2, 4} /\ at.data \in Int /\ at.address \in Nat
  BY LongsAreNumbers DEF IsPlace
<1>2. \A x \in Longs : x \in Int
  BY LongsAreNumbers
<1>3. PICK retr : retr = Memory_Retr(m, at.size, at.address)
  OBVIOUS
<1>4. PICK dreg : dreg = m.d[at.reg]
  OBVIOUS
<1>5. PICK areg : areg = m.a[at.reg]
  OBVIOUS
<1>6. PICK value : value = CASE at.mode = "Dn" -> dreg
                             [] at.mode = "An" -> areg
                             [] at.mode = "Immediate" -> at.data
                             [] OTHER -> retr
  OBVIOUS
<1>7. EA_GetValue(m, at) = SignExtend(value, at.size)
  BY <1>3, <1>4, <1>5, <1>6 DEF EA_GetValue
<1>8. at.mode = "Dn" => dreg \in Int
  BY <1>2, <1>4, Parts DEF IsPlace
<1>9. at.mode = "An" => areg \in Int
  BY <1>2, <1>5, Parts DEF IsPlace
<1>10. at.mode \in InMemory => retr \in Int
  <2>1. SUFFICES ASSUME at.mode \in InMemory
                 PROVE  retr \in Int
    OBVIOUS
  <2>2. at.address .. at.address + at.size - 1 \subseteq Addresses
    BY <2>1 DEF Inside
  <2>3. \A i \in 0 .. at.size - 1 : m.ram[at.address + i] \in Int
    <3>1. SUFFICES ASSUME NEW i \in 0 .. at.size - 1
                   PROVE  m.ram[at.address + i] \in Int
      OBVIOUS
    <3>2. at.address + i \in Addresses
      BY <1>1, <2>2
    <3>3. QED
      BY <3>2, Parts, WordIsEven
  <2>4. PICK f : f = [i \in 0 .. 3 |-> m.ram[at.address + i]]
    OBVIOUS
  <2>5. \A i \in 0 .. at.size - 1 : f[i] \in Int /\ f[i] = m.ram[at.address + i]
    BY <1>1, <2>3, <2>4
  <2>6. Byte \in Int /\ Word \in Int
    BY WordIsEven
  <2>7. CASE at.size = 1
    <3>1. retr = f[0]
      BY <1>3, <2>5, <2>7 DEF Memory_Retr
    <3>2. QED
      BY <2>5, <2>7, <3>1
  <2>8. CASE at.size = 2
    <3>1. retr = f[0] * Byte + f[1]
      BY <1>3, <2>5, <2>8 DEF Memory_Retr
    <3>2. f[0] \in Int /\ f[1] \in Int
      BY <2>5, <2>8
    <3>3. QED
      BY <2>6, <3>1, <3>2
  <2>9. CASE at.size = 4
    <3>1. retr = (f[0] * Byte + f[1]) * Word + f[2] * Byte + f[3]
      BY <1>3, <2>5, <2>9 DEF Memory_Retr
    <3>2. f[0] \in Int /\ f[1] \in Int /\ f[2] \in Int /\ f[3] \in Int
      BY <2>5, <2>9
    <3>3. QED
      BY <2>6, <3>1, <3>2
  <2>10. QED
    BY <1>1, <2>7, <2>8, <2>9
<1>11. value \in Int
  BY <1>1, <1>6, <1>8, <1>9, <1>10 DEF IsPlace
<1>12. QED
  BY <1>1, <1>7, <1>11, SignExtension

\* The part of a long word that is not written, with what is.
LEMMA PartlyWritten ==
  ASSUME NEW size \in {1, 2, 4}, NEW old \in Longs, NEW value \in Int
  PROVE  /\ Over(old, value, size) \in Longs
         /\ Over(old, value, size) % Values(size) = value % Values(size)
         /\ Over(old, value, size) \div Values(size) = old \div Values(size)
<1> DEFINE new == Over(old, value, size)
<1> HIDE DEF new
<1>1. PICK n : n = Values(size) /\ n \in Nat /\ n > 0
  BY SizesDivide
<1>2. PICK k \in Nat : Long = n * k
  BY <1>1, SizesDivide
<1>3. PICK e, j : e = old % n /\ j = old \div n
  OBVIOUS
<1>4. e \in Nat /\ e < n /\ j \in Int /\ old = e + n * j
  <2>1. old \in Int
    BY LongsAreNumbers
  <2>2. old % n \in Nat /\ old % n < n /\ old \div n \in Int /\ old = (old % n) + n * (old \div n)
    BY <1>1, <2>1, Division
  <2>3. QED
    BY <1>3, <2>2
<1>5. PICK f : f = value % n
  OBVIOUS
<1>6. f \in Nat /\ f < n
  BY <1>1, <1>5, Division
<1>7. PICK p \in Int : p = n * j
  BY <1>1, <1>3
<1>8. new = f + p
  <2>1. new = (old - e) + f
    BY <1>1, <1>3, <1>5 DEF Over, new
  <2>2. old - e = p
    BY <1>4, <1>7
  <2>3. QED
    BY <1>4, <1>6, <1>7, <2>1, <2>2
<1>9. (f + n * j) % n = f /\ (f + n * j) \div n = j
  BY <1>1, <1>4, <1>6, Quotient
<1>10. new % n = f /\ new \div n = j
  BY <1>7, <1>8, <1>9
<1>11. j >= 0 /\ j < k
  <2>1. old \in Nat /\ old < n * k
    BY <1>2, LongsAreNumbers
  <2>2. j < 0 => p <= 0 - n
    BY <1>1, <1>4, <1>7
  <2>3. j >= k => n * j >= n * k
    BY <1>1, <1>2, <1>4
  <2>4. QED
    BY <1>1, <1>2, <1>4, <1>7, <2>1, <2>2, <2>3
<1>12. new \in Nat /\ new < Long
  <2>1. p >= 0
    BY <1>1, <1>4, <1>7, <1>11
  <2>2. p + n <= Long
    <3>1. n * j + n <= n * k
      BY <1>1, <1>2, <1>4, <1>11
    <3>2. QED
      BY <1>2, <1>7, <3>1
  <2>3. QED
    BY <1>1, <1>6, <1>7, <1>8, <2>1, <2>2, WordIsEven
<1>13. QED
  <2>1. new \in Longs
    BY <1>12, LongsAreNumbers
  <2>2. new % Values(size) = value % Values(size) /\ new \div Values(size) = old \div Values(size)
    BY <1>1, <1>3, <1>5, <1>10
  <2>3. QED
    BY <2>1, <2>2 DEF new

\* Machines that agree in all but so many bytes of memory.
AgreeBut(m, o, address, size) ==
  /\ o.d = m.d /\ o.a = m.a /\ o.pc = m.pc /\ o.ccr = m.ccr
  /\ \A x \in Addresses : o.ram[x] # m.ram[x] => x \in address .. address + size - 1

\* A store writes bytes, and only those it is told to.
LEMMA Stored ==
  ASSUME NEW m \in Machines, NEW size \in {1, 2, 4}, NEW address \in Nat, NEW value \in Int,
         NEW o, o = Memory_Stor(m, size, address, value)
  PROVE  o \in Machines /\ AgreeBut(m, o, address, size)
<1>1. PICK v : v = [x \in Addresses |->
                      IF x \in address .. address + size - 1
                      THEN (value \div Weight(address + size - 1 - x)) % Byte ELSE m.ram[x]]
  OBVIOUS
<1>2. o = [m EXCEPT !.ram = v]
  BY <1>1 DEF Memory_Stor
<1>3. \A k \in 0 .. 3 : Weight(k) \in Nat /\ Weight(k) > 0
  <2>1. PICK b, w : b = Byte /\ w = Word
    OBVIOUS
  <2>2. b \in Nat /\ b > 0 /\ w \in Nat /\ w > 0
    BY <2>1, WordIsEven
  <2>3. w * b \in Nat /\ w * b > 0
    BY <2>2
  <2>4. QED
    BY <2>1, <2>2, <2>3 DEF Weight
<1>4. \A x \in Addresses : v[x] \in 0 .. Byte - 1
  <2>1. SUFFICES ASSUME NEW x \in Addresses
                 PROVE  v[x] \in 0 .. Byte - 1
    OBVIOUS
  <2>2. m.ram[x] \in 0 .. Byte - 1
    BY Parts
  <2>3. CASE x \in address .. address + size - 1
    <3>1. address + size - 1 - x \in 0 .. 3
      BY <2>3
    <3>2. PICK k : k = Weight(address + size - 1 - x)
      OBVIOUS
    <3>3. k \in Nat /\ k > 0
      BY <1>3, <3>1, <3>2
    <3>4. PICK q : q = value \div k
      OBVIOUS
    <3>5. q \in Int
      BY <3>3, <3>4, Division
    <3>6. PICK r : r = q % Byte
      OBVIOUS
    <3>7. r \in Nat /\ r < Byte
      BY <3>5, <3>6, Division, WordIsEven
    <3>8. v[x] = r
      BY <1>1, <2>3, <3>2, <3>4, <3>6
    <3>9. QED
      BY <3>7, <3>8, WordIsEven
  <2>4. CASE x \notin address .. address + size - 1
    BY <1>1, <2>2, <2>4
  <2>5. QED
    BY <2>3, <2>4
<1>5. v \in [Addresses -> 0 .. Byte - 1]
  <2>1. v = [x \in Addresses |-> v[x]]
    BY <1>1
  <2>2. QED
    BY <1>4, <2>1
<1>6. /\ o \in Machines /\ o.ram = v
      /\ o.d = m.d /\ o.a = m.a /\ o.pc = m.pc /\ o.ccr = m.ccr
  BY <1>2, <1>5, WithRam
<1>7. QED
  BY <1>1, <1>6 DEF AgreeBut

\* The places that are written.
LEMMA WritablePlaces ==
  ASSUME NEW at, IsPlace(at)
  PROVE  /\ at.mode \in Writable \ {"Dn", "An"} => at.mode \in InMemory
         /\ at.mode \in {"Dn", "An"} => at.mode \notin InMemory
         /\ at.mode \in Writable <=> at.mode \notin {"Immediate"} \cup PCRelative
BY DEF IsPlace, Writable, InMemory, PCRelative, Absolute

\* Writing an operand changes its place and nothing else.
LEMMA Written ==
  ASSUME NEW m \in Machines, NEW at, IsPlace(at), NEW value \in Int,
         at.mode = "An" /\ at.size # 1 => value \in Longs,
         NEW o, o = EA_PutValue(m, at, value)
  PROVE  /\ o \in Machines /\ o.pc = m.pc /\ o.ccr = m.ccr
         /\ \A n \in 0 .. 1 : o.d[n] # m.d[n] =>
              /\ at.mode = "Dn" /\ at.reg = n
              /\ o.d[n] \div Values(at.size) = m.d[n] \div Values(at.size)
         /\ \A x \in Addresses : o.ram[x] # m.ram[x] =>
              at.mode \in InMemory /\ x \in at.address .. at.address + at.size - 1
         /\ at.mode = "Dn" => o.d[at.reg] % Values(at.size) = value % Values(at.size)
         /\ at.mode = "An" => o.a[at.reg] % Values(at.size) = value % Values(at.size)
         /\ at.mode = "An" /\ at.size # 1 => o.a[at.reg] = value
<1>1. PICK size \in {1, 2, 4} : size = at.size
  BY DEF IsPlace
<1>2. at.address \in Nat
  BY LongsAreNumbers DEF IsPlace
<1>3. PICK od : od = [m EXCEPT !.d[at.reg] = Over(@, value, size)]
  OBVIOUS
<1>4. PICK oa : oa = [m EXCEPT !.a[at.reg] = IF size = 1 THEN Over(@, value, size) ELSE value]
  OBVIOUS
<1>5. PICK om : om = Memory_Stor(m, size, at.address, value)
  OBVIOUS
<1>6. o = CASE at.mode = "Dn" -> od
            [] at.mode = "An" -> oa
            [] at.mode \in Writable \ {"Dn", "An"} -> om
            [] OTHER -> m
  BY <1>1, <1>3, <1>4, <1>5 DEF EA_PutValue
<1>7. /\ at.mode = "Dn" => o = od
      /\ at.mode = "An" => o = oa
      /\ at.mode \notin {"Dn", "An"} => o = m \/ (o = om /\ at.mode \in Writable \ {"Dn", "An"})
  BY <1>6
<1>8. CASE at.mode = "Dn"
  <2>1. at.reg \in 0 .. 1
    BY <1>8 DEF IsPlace
  <2>2. PICK old \in Longs : old = m.d[at.reg]
    BY <2>1, Parts
  <2>3. PICK v : v = Over(old, value, size)
    OBVIOUS
  <2>4. v \in Longs /\ v % Values(size) = value % Values(size)
        /\ v \div Values(size) = old \div Values(size)
    BY <2>3, PartlyWritten
  <2>5. PICK n \in 0 .. 1 : n = at.reg
    BY <2>1
  <2>6. o = [m EXCEPT !.d[n] = v]
    BY <1>3, <1>7, <1>8, <2>2, <2>3, <2>5
  <2>7. o \in Machines /\ o.d = [m.d EXCEPT ![n] = v]
        /\ o.a = m.a /\ o.pc = m.pc /\ o.ccr = m.ccr /\ o.ram = m.ram
    BY <2>4, <2>6 DEF Machines
  <2>8. o.d[n] = v /\ \A k \in 0 .. 1 : k # n => o.d[k] = m.d[k]
    BY <2>7, Parts
  <2>9. QED
    BY <1>1, <1>8, <2>2, <2>4, <2>5, <2>7, <2>8
<1>9. CASE at.mode = "An"
  <2>1. at.reg \in {0, 7}
    BY <1>9 DEF IsPlace
  <2>2. PICK old \in Longs : old = m.a[at.reg]
    BY <2>1, Parts
  <2>3. PICK v : v = IF size = 1 THEN Over(old, value, size) ELSE value
    OBVIOUS
  <2>4. v \in Longs
    <3>1. CASE size = 1
      <4>1. PICK w : w = Over(old, value, size)
        OBVIOUS
      <4>2. w \in Longs
        BY <4>1, PartlyWritten
      <4>3. QED
        BY <2>3, <3>1, <4>1, <4>2
    <3>2. CASE size # 1
      BY <1>1, <1>9, <2>3, <3>2
    <3>3. QED
      BY <3>1, <3>2
  <2>5. PICK n \in {0, 7} : n = at.reg
    BY <2>1
  <2>6. o = [m EXCEPT !.a[n] = v]
    BY <1>4, <1>7, <1>9, <2>2, <2>3, <2>5
  <2>7. o \in Machines /\ o.a = [m.a EXCEPT ![n] = v]
        /\ o.d = m.d /\ o.pc = m.pc /\ o.ccr = m.ccr /\ o.ram = m.ram
    BY <2>4, <2>6 DEF Machines
  <2>8. o.a[n] = v
    BY <2>7, Parts
  <2>9. v % Values(size) = value % Values(size)
    <3>1. CASE size = 1
      <4>1. PICK w : w = Over(old, value, size)
        OBVIOUS
      <4>2. w % Values(size) = value % Values(size)
        BY <4>1, PartlyWritten
      <4>3. QED
        BY <2>3, <3>1, <4>1, <4>2
    <3>2. CASE size # 1
      BY <2>3, <3>2
    <3>3. QED
      BY <3>1, <3>2
  <2>10. size # 1 => v = value
    BY <2>3
  <2>11. QED
    BY <1>1, <1>9, <2>5, <2>7, <2>8, <2>9, <2>10
<1>10. CASE at.mode \notin {"Dn", "An"}
  <2>1. CASE o = m
    BY <1>10, <2>1
  <2>2. CASE o = om /\ at.mode \in Writable \ {"Dn", "An"}
    <3>1. at.mode \in InMemory
      BY <2>2, WritablePlaces
    <3>2. o \in Machines /\ o.d = m.d /\ o.a = m.a /\ o.pc = m.pc /\ o.ccr = m.ccr
          /\ \A x \in Addresses : o.ram[x] # m.ram[x] => x \in at.address .. at.address + size - 1
      <4>1. o = Memory_Stor(m, size, at.address, value)
        BY <1>5, <2>2
      <4>2. PICK address \in Nat : address = at.address
        BY <1>2
      <4>3. o = Memory_Stor(m, size, address, value)
        BY <4>1, <4>2
      <4>4. o \in Machines /\ AgreeBut(m, o, address, size)
        BY <4>3, Stored
      <4>5. QED
        BY <4>2, <4>4 DEF AgreeBut
    <3>3. QED
      BY <1>1, <1>10, <3>1, <3>2
  <2>3. QED
    BY <1>7, <1>10, <2>1, <2>2
<1>11. QED
  BY <1>8, <1>9, <1>10

\* A number of two digits.
LEMMA TwoDigits ==
  ASSUME NEW a \in Nat, a > 0, NEW b \in Nat, b > 0, NEW v \in Int, NEW n, n = a * b
  PROVE  /\ v % n = (v % a) + a * ((v \div a) % b)
         /\ v \div n = (v \div a) \div b
<1>1. v % a \in Nat /\ v % a < a /\ v \div a \in Int /\ v = (v % a) + a * (v \div a)
  BY Division
<1>2. PICK r, q : r = v % a /\ q = v \div a
  OBVIOUS
<1>3. r \in Nat /\ r < a /\ q \in Int /\ v = r + a * q
  BY <1>1, <1>2
<1>4. q % b \in Nat /\ q % b < b /\ q \div b \in Int /\ q = (q % b) + b * (q \div b)
  BY <1>3, Division
<1>5. PICK s, t : s = q % b /\ t = q \div b
  OBVIOUS
<1>6. s \in Nat /\ s < b /\ t \in Int /\ q = s + b * t
  BY <1>4, <1>5
<1>7. PICK e \in Nat : e = r + a * s
  BY <1>3, <1>6
<1>8. n \in Nat /\ n > 0 /\ e < n
  <2>1. a * s + a <= a * b
    <3>1. PICK u \in Nat : b = s + 1 + u
      <4>1. b - s - 1 \in Nat /\ b = s + 1 + (b - s - 1)
        BY <1>6
      <4>2. QED
        BY <4>1
    <3>2. a * (s + 1 + u) = a * s + a + a * u
      BY <1>6, <3>1
    <3>3. PICK c \in Nat : c = a * u
      BY <3>1
    <3>4. PICK f \in Nat : f = a * s
      BY <1>6
    <3>5. QED
      BY <3>1, <3>2, <3>3, <3>4
  <2>2. QED
    BY <1>3, <1>6, <1>7, <2>1
<1>9. v = e + n * t
  <2>1. PICK bt \in Int : bt = b * t
    BY <1>6
  <2>2. a * (s + bt) = a * s + a * bt
    BY <1>6, <2>1
  <2>3. a * bt = n * t
    BY <1>6, <2>1
  <2>4. QED
    BY <1>3, <1>6, <1>7, <2>1, <2>2, <2>3
<1>10. (e + n * t) % n = e /\ (e + n * t) \div n = t
  BY <1>6, <1>7, <1>8, Quotient
<1>11. v % n = e /\ v \div n = t
  BY <1>9, <1>10
<1>12. QED
  BY <1>2, <1>5, <1>7, <1>11

\* A round of an arithmetic shift to the right: half of a number that is kept
\* in a long word.
LEMMA HalfStep ==
  ASSUME NEW q \in Int, 0 - Long <= 2 * q, 2 * q < Long,
         NEW r, r = q % Long, NEW half, half = r \div 2
  PROVE  /\ half + (IF 4 * half >= Long THEN Long \div 2 ELSE 0) = (q \div 2) % Long
         /\ r % 2 = 1 <=> q % 2 = 1
         /\ 0 - Long <= 2 * (q \div 2) /\ 2 * (q \div 2) < Long
<1>1. PICK k \in Nat : k > 0 /\ Long = 4 * k
  <2>1. PICK h \in Nat : h > 0 /\ Word = 2 * h
    BY WordIsEven
  <2>2. (2 * h) * (2 * h) = 4 * (h * h) /\ h * h \in Nat /\ h * h > 0
    BY <2>1
  <2>3. QED
    BY <2>1, <2>2 DEF Long
<1>2. PICK l : l = Long /\ l = 4 * k
  BY <1>1
<1>3. PICK u, v : u = q \div 2 /\ v = q % 2
  OBVIOUS
<1>4. u \in Int /\ v \in 0 .. 1 /\ q = v + 2 * u
  <2>1. q % 2 \in Nat /\ q % 2 < 2 /\ q \div 2 \in Int /\ q = (q % 2) + 2 * (q \div 2)
    BY Division
  <2>2. QED
    BY <1>3, <2>1
<1>5. 0 - 4 * k <= 2 * q /\ 2 * q < 4 * k
  BY <1>1
<1>6. l \div 2 = 2 * k
  <2>1. (0 + 2 * (2 * k)) \div 2 = 2 * k
    BY Quotient
  <2>2. QED
    BY <1>2, <2>1
<1>7. l \in Nat /\ l > 0
  BY <1>1, <1>2
<1>8. CASE q >= 0
  <2>1. r = q
    <3>1. q < l /\ q \in Nat
      BY <1>2, <1>5, <1>8
    <3>2. (q + l * 0) % l = q
      BY <1>7, <3>1, Quotient
    <3>3. q + l * 0 = q
      BY <1>7
    <3>4. QED
      BY <1>2, <3>2, <3>3
  <2>2. half = u /\ r % 2 = v
    BY <1>3, <2>1
  <2>3. u >= 0 /\ u < k
    BY <1>4, <1>5, <1>8
  <2>4. u % l = u
    <3>1. (u + l * 0) % l = u
      BY <1>2, <1>4, <1>7, <2>3, Quotient
    <3>2. u + l * 0 = u
      BY <1>4, <1>7
    <3>3. QED
      BY <3>1, <3>2
  <2>5. ~(4 * half >= l)
    BY <1>2, <1>4, <2>2, <2>3
  <2>6. half + (IF 4 * half >= l THEN l \div 2 ELSE 0) = u % l
    BY <1>4, <2>2, <2>4, <2>5
  <2>7. 0 - l <= 2 * u /\ 2 * u < l
    BY <1>2, <1>4, <2>3
  <2>8. QED
    BY <1>2, <1>3, <2>2, <2>6, <2>7
<1>9. CASE q < 0
  <2>1. r = q + l
    <3>1. q + l \in Nat /\ q + l < l
      BY <1>2, <1>5, <1>9
    <3>2. ((q + l) + l * (-1)) % l = q + l
      BY <1>7, <3>1, Quotient
    <3>3. (q + l) + l * (-1) = q
      BY <1>7
    <3>4. QED
      BY <1>2, <3>2, <3>3
  <2>2. half = u + 2 * k /\ r % 2 = v
    <3>1. r = v + 2 * (u + 2 * k)
      BY <1>2, <1>4, <2>1
    <3>2. (v + 2 * (u + 2 * k)) % 2 = v /\ (v + 2 * (u + 2 * k)) \div 2 = u + 2 * k
      BY <1>4, Quotient
    <3>3. QED
      BY <3>1, <3>2
  <2>3. u < 0 /\ u >= 0 - k
    BY <1>4, <1>5, <1>9
  <2>4. u % l = u + l
    <3>1. u + l \in Nat /\ u + l < l
      BY <1>2, <1>4, <2>3
    <3>2. ((u + l) + l * (-1)) % l = u + l
      BY <1>7, <3>1, Quotient
    <3>3. (u + l) + l * (-1) = u
      BY <1>4, <1>7
    <3>4. QED
      BY <3>2, <3>3
  <2>5. 4 * half >= l
    BY <1>2, <1>4, <2>2, <2>3
  <2>6. half + (IF 4 * half >= l THEN l \div 2 ELSE 0) = u % l
    <3>1. half + 2 * k = u + l
      BY <1>2, <1>4, <2>2
    <3>2. QED
      BY <1>6, <2>4, <2>5, <3>1
  <2>7. 0 - l <= 2 * u /\ 2 * u < l
    BY <1>2, <1>4, <2>3
  <2>8. QED
    BY <1>2, <1>3, <2>2, <2>6, <2>7
<1>10. QED
  BY <1>8, <1>9

\* A round of a shift to the left.
LEMMA DoubleStep ==
  ASSUME NEW y \in Int, NEW r, r = y % Long
  PROVE  /\ (2 * r) % Long = (2 * y) % Long
         /\ 2 * r >= Long <=> ((2 * y) \div Long) % 2 = 1
<1>1. PICK l : l = Long /\ l \in Nat /\ l > 0
  BY WordIsEven
<1>2. PICK k : k = y \div l
  OBVIOUS
<1>3. r \in Nat /\ r < l /\ k \in Int /\ y = r + l * k
  BY <1>1, <1>2, Division
<1>4. PICK p \in Int : p = l * k /\ l * (2 * k) = 2 * p /\ l * (2 * k + 1) = 2 * p + l
  <2>1. l * k \in Int /\ l * (2 * k) = 2 * (l * k) /\ l * (2 * k + 1) = 2 * (l * k) + l
    BY <1>1, <1>3
  <2>2. QED
    BY <2>1
<1>5. y = r + p
  BY <1>3, <1>4
<1>6. CASE 2 * r < l
  <2>1. (2 * r + l * (2 * k)) % l = 2 * r /\ (2 * r + l * (2 * k)) \div l = 2 * k
    BY <1>1, <1>3, <1>6, Quotient
  <2>2. (2 * r + l * 0) % l = 2 * r
    BY <1>1, <1>3, <1>6, Quotient
  <2>3. 2 * r + l * (2 * k) = 2 * y /\ 2 * r + l * 0 = 2 * r
    BY <1>1, <1>3, <1>4, <1>5
  <2>4. (2 * y) % l = 2 * r /\ (2 * y) \div l = 2 * k /\ (2 * r) % l = 2 * r
    BY <2>1, <2>2, <2>3
  <2>5. (2 * k) % 2 # 1
    BY <1>3
  <2>6. ~(2 * r >= l)
    BY <1>1, <1>3, <1>6
  <2>7. QED
    BY <1>1, <2>4, <2>5, <2>6
<1>7. CASE ~(2 * r < l)
  <2>1. PICK e : e = 2 * r - l /\ e \in Nat /\ e < l
    BY <1>1, <1>3, <1>7
  <2>2. (e + l * (2 * k + 1)) % l = e /\ (e + l * (2 * k + 1)) \div l = 2 * k + 1
    BY <1>1, <1>3, <2>1, Quotient
  <2>3. (e + l * 1) % l = e
    BY <1>1, <2>1, Quotient
  <2>4. e + l * (2 * k + 1) = 2 * y /\ e + l * 1 = 2 * r
    BY <1>1, <1>3, <1>4, <1>5, <2>1
  <2>5. (2 * y) % l = e /\ (2 * y) \div l = 2 * k + 1 /\ (2 * r) % l = e
    BY <2>2, <2>3, <2>4
  <2>6. (2 * k + 1) % 2 = 1
    BY <1>3
  <2>7. 2 * r >= l
    BY <1>1, <1>3, <1>7
  <2>8. QED
    BY <1>1, <2>5, <2>6, <2>7
<1>8. QED
  BY <1>6, <1>7

\* A long word that is read from memory.
LEMMA LongRead ==
  ASSUME NEW m \in Machines, NEW address \in Nat, address .. address + 3 \subseteq Addresses
  PROVE  Memory_Retr(m, 4, address) \in Longs
<1>1. PICK r : r = m.ram
  OBVIOUS
<1>2. r \in [Addresses -> 0 .. Byte - 1]
  BY <1>1, Parts
<1>3. /\ address \in Addresses /\ address + 1 \in Addresses
      /\ address + 2 \in Addresses /\ address + 3 \in Addresses
  OBVIOUS
<1>4. PICK b0, b1, b2, b3 : b0 = r[address] /\ b1 = r[address + 1] /\ b2 = r[address + 2] /\ b3 = r[address + 3]
  OBVIOUS
<1>5. PICK y, w : y = Byte /\ w = Word /\ y \in Nat /\ y > 0 /\ w = y * y /\ w \in Nat /\ w > 0 /\ Long = w * w
  BY WordIsEven DEF Word, Long
<1>6. b0 \in 0 .. y - 1 /\ b1 \in 0 .. y - 1 /\ b2 \in 0 .. y - 1 /\ b3 \in 0 .. y - 1
  BY <1>2, <1>3, <1>4, <1>5
<1>7. PICK h, l : h = b0 * y + b1 /\ l = b2 * y + b3
  OBVIOUS
<1>8. h \in Nat /\ h < w /\ l \in Nat /\ l < w
  <2>1. \A a, b \in 0 .. y - 1 : a * y + b \in Nat /\ a * y + b < y * y
    <3>1. SUFFICES ASSUME NEW a \in 0 .. y - 1, NEW b \in 0 .. y - 1
                   PROVE  a * y + b \in Nat /\ a * y + b < y * y
      OBVIOUS
    <3>2. a * y + y <= y * y
      <4>1. (a + 1) * y <= y * y
        BY <1>5
      <4>2. (a + 1) * y = a * y + y
        BY <1>5
      <4>3. QED
        BY <4>1, <4>2
    <3>3. QED
      BY <1>5, <3>2
  <2>2. QED
    BY <1>5, <1>6, <1>7, <2>1
<1>9. h * w + l \in Nat /\ h * w + l < w * w
  <2>1. h * w + w <= w * w
    <3>1. (h + 1) * w <= w * w
      BY <1>5, <1>8
    <3>2. (h + 1) * w = h * w + w
      BY <1>5, <1>8
    <3>3. QED
      BY <3>1, <3>2
  <2>2. QED
    BY <1>5, <1>8, <2>1
<1>10. Memory_Retr(m, 4, address) = (b0 * y + b1) * w + b2 * y + b3
  <2>1. r[address + 0] = b0
    BY <1>4
  <2>2. QED
    BY <1>1, <1>4, <1>5, <2>1 DEF Memory_Retr
<1>11. (b0 * y + b1) * w + b2 * y + b3 = h * w + l
  <2>1. PICK p, q : p = h * w /\ q = b2 * y
    OBVIOUS
  <2>2. p \in Int /\ q \in Int
    BY <1>5, <1>6, <1>8, <2>1
  <2>3. p + q + b3 = p + (q + b3)
    BY <1>6, <2>2
  <2>4. QED
    BY <1>7, <2>1, <2>3
<1>12. QED
  BY <1>5, <1>9, <1>10, <1>11, LongsAreNumbers

\* What is read depends on the bytes that are read.
LEMMA SameRead ==
  ASSUME NEW m, NEW o, NEW address \in Nat,
         \A x \in address .. address + 3 : o.ram[x] = m.ram[x]
  PROVE  Memory_Retr(o, 4, address) = Memory_Retr(m, 4, address)
<1>1. /\ o.ram[address + 0] = m.ram[address + 0] /\ o.ram[address + 1] = m.ram[address + 1]
      /\ o.ram[address + 2] = m.ram[address + 2] /\ o.ram[address + 3] = m.ram[address + 3]
  OBVIOUS
<1>2. QED
  BY <1>1 DEF Memory_Retr

\* What is stored is read again.
LEMMA StoreRead ==
  ASSUME NEW m \in Machines, NEW size \in {1, 2, 4}, NEW address \in Nat, NEW value \in Int,
         address .. address + size - 1 \subseteq Addresses,
         NEW o, o = Memory_Stor(m, size, address, value)
  PROVE  Memory_Retr(o, size, address) = value % Values(size)
<1>1. PICK b, w, wb : b = Byte /\ w = Word /\ wb = Word * Byte
  OBVIOUS
<1>2. b \in Nat /\ b > 0 /\ w \in Nat /\ w > 0 /\ w = b * b /\ Long = w * w /\ wb = w * b
  BY <1>1, WordIsEven DEF Word, Long
<1>3. PICK f : f = [i \in 0 .. 3 |-> (value \div Weight(i)) % Byte]
  OBVIOUS
<1>4. \A i \in 0 .. size - 1 : o.ram[address + i] = f[size - 1 - i]
  <2>1. SUFFICES ASSUME NEW i \in 0 .. size - 1
                 PROVE  o.ram[address + i] = f[size - 1 - i]
    OBVIOUS
  <2>2. PICK x : x = address + i
    OBVIOUS
  <2>3. x \in address .. address + size - 1 /\ x \in Addresses
    BY <2>2
  <2>4. address + size - 1 - x = size - 1 - i /\ size - 1 - i \in 0 .. 3
    BY <2>2
  <2>5. o.ram[x] = (value \div Weight(address + size - 1 - x)) % Byte
    BY <2>3 DEF Memory_Stor, Machines
  <2>6. PICK k \in 0 .. 3 : k = size - 1 - i /\ k = address + size - 1 - x
    BY <2>4
  <2>7. o.ram[x] = f[k]
    BY <1>3, <2>5, <2>6
  <2>8. QED
    BY <2>2, <2>6, <2>7
<1>5. Weight(0) = 1 /\ Weight(1) = b /\ Weight(2) = w /\ Weight(3) = wb
  BY <1>1 DEF Weight
<1>6. PICK v0, v1, v2, v3 : v0 = value % b /\ v1 = (value \div b) % b
                            /\ v2 = (value \div w) % b /\ v3 = (value \div wb) % b
  OBVIOUS
<1>7. f[0] = v0 /\ f[1] = v1 /\ f[2] = v2 /\ f[3] = v3
  <2>1. value \div 1 = value
    OBVIOUS
  <2>2. f[0] = (value \div 1) % b /\ f[1] = (value \div b) % b
        /\ f[2] = (value \div w) % b /\ f[3] = (value \div wb) % b
    BY <1>1, <1>3, <1>5
  <2>3. QED
    BY <1>6, <2>1, <2>2
<1>8. PICK h : h = value \div w
  OBVIOUS
<1>9. h \in Int
  BY <1>2, <1>8, Division
<1>10. \A v \in Int : v % w = (v % b) + b * ((v \div b) % b)
  <2>1. SUFFICES ASSUME NEW v \in Int
                 PROVE  v % w = (v % b) + b * ((v \div b) % b)
    OBVIOUS
  <2>2. PICK a \in Nat : a = b
    BY <1>2
  <2>3. a > 0 /\ w = a * b
    BY <1>2, <2>2
  <2>4. v % w = (v % a) + a * ((v \div a) % b)
    BY ZenonT(30), <1>2, <2>3, TwoDigits
  <2>5. QED
    BY <2>2, <2>4
<1>11. value % w = v0 + b * v1
  <2>1. value % w = (value % b) + b * ((value \div b) % b)
    BY <1>10
  <2>2. QED
    BY <1>6, <2>1
<1>12. h % w = v2 + b * v3
  <2>1. h % w = (h % b) + b * ((h \div b) % b)
    BY <1>9, <1>10
  <2>2. value \div wb = (value \div w) \div b
    BY <1>2, TwoDigits
  <2>3. QED
    BY <1>6, <1>8, <2>1, <2>2
<1>13. value % Long = (value % w) + w * (h % w)
  <2>1. value % Long = (value % w) + w * ((value \div w) % w)
    BY <1>2, TwoDigits
  <2>2. QED
    BY <1>8, <2>1
<1>14. v0 \in Nat /\ v1 \in Nat /\ v2 \in Nat /\ v3 \in Nat
  <2>1. \A u \in Int : u % b \in Nat
    BY <1>2, Division
  <2>2. value \div b \in Int /\ value \div w \in Int
    BY <1>2, Division
  <2>3. wb \in Nat /\ wb > 0
    BY <1>2
  <2>4. value \div wb \in Int
    BY <2>3, Division
  <2>5. QED
    BY <1>6, <2>1, <2>2, <2>4
<1>15. CASE size = 1
  <2>1. Memory_Retr(o, size, address) = o.ram[address + 0]
    BY <1>15 DEF Memory_Retr
  <2>2. o.ram[address + 0] = v0
    BY <1>4, <1>7, <1>15
  <2>3. QED
    BY <1>1, <1>6, <1>15, <2>1, <2>2 DEF Values
<1>16. CASE size = 2
  <2>1. Memory_Retr(o, size, address) = o.ram[address + 0] * b + o.ram[address + 1]
    BY <1>1, <1>16 DEF Memory_Retr
  <2>2. o.ram[address + 0] = v1 /\ o.ram[address + 1] = v0
    BY <1>4, <1>7, <1>16
  <2>3. v1 * b + v0 = v0 + b * v1
    BY <1>2, <1>14
  <2>4. QED
    BY <1>1, <1>11, <1>16, <2>1, <2>2, <2>3 DEF Values
<1>17. CASE size = 4
  <2>1. Memory_Retr(o, size, address)
          = (o.ram[address + 0] * b + o.ram[address + 1]) * w + o.ram[address + 2] * b + o.ram[address + 3]
    BY <1>1, <1>17 DEF Memory_Retr
  <2>2. o.ram[address + 0] = v3 /\ o.ram[address + 1] = v2 /\ o.ram[address + 2] = v1 /\ o.ram[address + 3] = v0
    BY <1>4, <1>7, <1>17
  <2>3. (v3 * b + v2) * w + v1 * b + v0 = (v0 + b * v1) + w * (v2 + b * v3)
    BY <1>2, <1>14
  <2>4. Memory_Retr(o, size, address) = (v3 * b + v2) * w + v1 * b + v0
    BY <2>1, <2>2
  <2>5. value % Long = (v0 + b * v1) + w * (v2 + b * v3)
    BY <1>11, <1>12, <1>13
  <2>6. Values(size) = Long
    BY <1>17 DEF Values
  <2>7. QED
    BY <2>3, <2>4, <2>5, <2>6
<1>18. QED
  BY <1>15, <1>16, <1>17

\* What is written to an operand is read from it again.
LEMMA ReadBack ==
  ASSUME NEW m \in Machines, NEW at, IsPlace(at), Inside(at), at.mode \in Writable,
         NEW value \in Longs, SignExtend(value, at.size) = value,
         NEW o, o.d = EA_PutValue(m, at, value).d, o.a = EA_PutValue(m, at, value).a,
         o.ram = EA_PutValue(m, at, value).ram
  PROVE  EA_GetValue(o, at) = value
<1>1. PICK size \in {1, 2, 4} : size = at.size
  BY DEF IsPlace
<1>2. PICK address \in Nat : address = at.address
  BY LongsAreNumbers DEF IsPlace
<1>3. value \in Int
  BY LongsAreNumbers
<1>4. PICK w : w = EA_PutValue(m, at, value)
  OBVIOUS
<1>5. o.d = w.d /\ o.a = w.a /\ o.ram = w.ram
  BY <1>4
<1>6. \A x : x % Values(size) = value % Values(size) => SignExtend(x, size) = value
  BY <1>1 DEF SignExtend
<1>7. /\ at.mode = "Dn" => w.d[at.reg] % Values(size) = value % Values(size)
      /\ at.mode = "An" => w.a[at.reg] % Values(size) = value % Values(size)
  BY <1>1, <1>3, <1>4, Written
<1>8. CASE at.mode = "Dn"
  <2>1. EA_GetValue(o, at) = SignExtend(w.d[at.reg], size)
    BY <1>1, <1>5, <1>8 DEF EA_GetValue
  <2>2. QED
    BY <1>6, <1>7, <1>8, <2>1
<1>9. CASE at.mode = "An"
  <2>1. EA_GetValue(o, at) = SignExtend(w.a[at.reg], size)
    BY <1>1, <1>5, <1>9 DEF EA_GetValue
  <2>2. QED
    BY <1>6, <1>7, <1>9, <2>1
<1>10. CASE at.mode \notin {"Dn", "An"}
  <2>1. at.mode \in InMemory /\ at.mode # "Immediate"
    BY <1>10, WritablePlaces
  <2>2. address .. address + size - 1 \subseteq Addresses
    BY <1>1, <1>2, <2>1 DEF Inside
  <2>3. PICK s : s = Memory_Stor(m, size, address, value)
    OBVIOUS
  <2>4. w = s
    BY <1>1, <1>2, <1>4, <1>10, <2>3 DEF EA_PutValue
  <2>5. Memory_Retr(s, size, address) = value % Values(size)
    BY <1>3, <2>2, <2>3, StoreRead
  <2>6. PICK r : r = Memory_Retr(s, size, address)
    OBVIOUS
  <2>7. Memory_Retr(o, size, address) = r
    BY <1>5, <2>4, <2>6 DEF Memory_Retr
  <2>8. EA_GetValue(o, at) = SignExtend(r, size)
    BY <1>1, <1>2, <1>10, <2>1, <2>7 DEF EA_GetValue
  <2>9. r % Values(size) = value % Values(size)
    <3>1. PICK n : n = Values(size) /\ n \in Nat /\ n > 0
      BY SizesDivide
    <3>2. value % n \in Nat /\ value % n < n
      BY <1>3, <3>1, Division
    <3>3. PICK k : k = value % n
      OBVIOUS
    <3>4. (k + n * 0) % n = k
      BY <3>1, <3>2, <3>3, Quotient
    <3>5. k + n * 0 = k
      BY <3>1, <3>2, <3>3
    <3>6. r = k
      BY <2>5, <2>6, <3>1, <3>3
    <3>7. QED
      BY <3>1, <3>3, <3>4, <3>5, <3>6
  <2>10. QED
    BY <1>6, <2>8, <2>9
<1>11. QED
  BY <1>8, <1>9, <1>10

\* Whether the bit that leaves a number in the last step of a shift is set.
Out(right, v, count) ==
  IF right THEN (v \div Power[count - 1]) % 2 = 1
           ELSE ((v * Power[count]) \div Long) % 2 = 1

\* What the number becomes.
Moves(right, v, count) == (IF right THEN v \div Power[count] ELSE v * Power[count]) % Long

\* A quotient of a number by one that is greater is 0, and no quotient is
\* greater than what is divided.
LEMMA SmallQuotient ==
  ASSUME NEW v \in Nat, NEW p \in Nat, p > 0
  PROVE  /\ v \div p \in Nat /\ v \div p <= v
         /\ v < p => v \div p = 0
<1>1. PICK q, e : q = v \div p /\ e = v % p
  OBVIOUS
<1>2. e \in Nat /\ e < p /\ q \in Int /\ v = e + p * q
  BY <1>1, Division
<1>3. q >= 0
  <2>1. SUFFICES ASSUME q <= -1 PROVE FALSE
    BY <1>2
  <2>2. PICK k \in Nat : q = -1 - k
    <3>1. -1 - q \in Nat /\ q = -1 - (-1 - q)
      BY <1>2, <2>1
    <3>2. QED
      BY <3>1
  <2>3. p * q = (0 - p) - p * k /\ p * k \in Nat
    BY <2>2
  <2>4. QED
    BY <1>2, <2>3
<1>4. q <= v
  <2>1. CASE q = 0
    BY <2>1
  <2>2. CASE q # 0
    <3>1. PICK k \in Nat : p = k + 1
      <4>1. p - 1 \in Nat /\ p = (p - 1) + 1
        OBVIOUS
      <4>2. QED
        BY <4>1
    <3>2. p * q = k * q + q /\ k * q \in Nat
      BY <1>2, <1>3, <3>1
    <3>3. QED
      BY <1>2, <1>3, <3>2
  <2>3. QED
    BY <2>1, <2>2
<1>5. ASSUME v < p PROVE q = 0
  <2>1. (v + p * 0) \div p = 0
    BY <1>5, Quotient
  <2>2. v + p * 0 = v
    OBVIOUS
  <2>3. QED
    BY <1>1, <2>1, <2>2
<1>6. QED
  BY <1>1, <1>2, <1>3, <1>4, <1>5

\* A power above the bits of a long word is at least Long.
LEMMA GreatPowers ==
  ASSUME NEW i \in LongBits .. 2 * LongBits
  PROVE  /\ i - LongBits \in 0 .. LongBits
         /\ Power[i] = Power[i - LongBits] * Long
         /\ Power[i] >= Long
<1>1. PICK l \in Nat : l = LongBits
  BY BitsAreNumbers
<1>2. PICK j \in Nat : j = i - l /\ i = j + l /\ j <= l /\ j \in 0 .. 2 * LongBits
  <2>1. i - l \in Nat /\ i = (i - l) + l /\ i - l <= l /\ i - l \in 0 .. 2 * LongBits
    BY <1>1
  <2>2. QED
    BY <2>1
<1>3. Power[j + l] = Power[j] * Power[l]
  <2>1. j + l <= 2 * LongBits
    BY <1>1, <1>2
  <2>2. QED
    BY <2>1, PowersMultiply
<1>4. PICK p : p = Power[j] /\ p \in Nat /\ p > 0
  BY <1>2, PowerIsPositive
<1>5. PICK n \in Nat : n = Long
  BY WordIsEven
<1>6. Power[i] = p * n
  BY <1>1, <1>2, <1>3, <1>4, <1>5, LongIsPower
<1>7. p * n >= n
  <2>1. PICK k \in Nat : p = k + 1
    <3>1. p - 1 \in Nat /\ p = (p - 1) + 1
      BY <1>4
    <3>2. QED
      BY <3>1
  <2>2. p * n = k * n + n /\ k * n \in Nat
    BY <1>5, <2>1
  <2>3. QED
    BY <1>5, <2>2
<1>8. QED
  BY <1>1, <1>2, <1>4, <1>5, <1>6, <1>7

\* The closed form of a logical shift to the right.
LEMMA RightInOneGo ==
  ASSUME NEW v \in Longs, NEW count \in 1 .. 2 * LongBits
  PROVE  /\ (IF count >= LongBits THEN 0 ELSE v \div Power[count]) = Moves(TRUE, v, count)
         /\ (IF count >= LongBits THEN 0 ELSE v \div Power[count]) \in Longs
         /\ count <= LongBits /\ count - 1 \in BitsOf(v) <=> Out(TRUE, v, count)
<1>1. PICK l \in Nat : l = LongBits /\ l > 0
  BY BitsAreNumbers
<1>2. v \in Nat /\ v < Long
  BY LongsAreNumbers
<1>3. PICK n \in Nat : n = Long /\ n > 0
  BY WordIsEven
<1>4. /\ count \in 0 .. 2 * LongBits /\ count - 1 \in 0 .. 2 * LongBits
      /\ count \in Nat /\ count > 0
  BY <1>1
<1>5. PICK p, b : p = Power[count] /\ p \in Nat /\ p > 0 /\ b = Power[count - 1] /\ b \in Nat /\ b > 0
  BY <1>4, PowerIsPositive
<1>6. v \div p \in Nat /\ v \div p <= v
  BY <1>2, <1>5, SmallQuotient
<1>7. v \div p \in Longs /\ (v \div p) % Long = v \div p
  <2>1. v \div p < Long
    BY <1>2, <1>3, <1>6
  <2>2. v \div p \in Longs
    BY <1>6, <2>1, LongsAreNumbers
  <2>3. QED
    BY <2>2, SmallRemainder
<1>8. CASE count < l
  <2>1. ~(count >= LongBits) /\ count <= LongBits /\ count - 1 \in 0 .. LongBits - 1
    BY <1>1, <1>4, <1>8
  <2>2. QED
    BY <1>5, <1>7, <2>1 DEF Moves, Out, BitsOf
<1>9. CASE count >= l
  <2>1. count \in LongBits .. 2 * LongBits
    BY <1>1, <1>4, <1>9
  <2>2. p >= n
    BY <1>3, <1>5, <2>1, GreatPowers
  <2>3. v \div p = 0
    BY <1>2, <1>3, <1>5, <2>2, SmallQuotient
  <2>4. (IF count >= LongBits THEN 0 ELSE v \div Power[count]) = 0
    BY <1>1, <1>9
  <2>5. Moves(TRUE, v, count) = 0 /\ 0 \in Longs
    BY <1>5, <1>7, <2>3 DEF Moves
  <2>6. CASE count = l
    <3>1. count <= LongBits /\ count - 1 \in 0 .. LongBits - 1
      BY <1>1, <2>6
    <3>2. QED
      BY <2>4, <2>5, <3>1 DEF Out, BitsOf
  <2>7. CASE count > l
    <3>1. count - 1 \in LongBits .. 2 * LongBits /\ ~(count <= LongBits)
      BY <1>1, <1>4, <2>7
    <3>2. b >= n
      BY <1>3, <1>5, <3>1, GreatPowers
    <3>3. v \div b = 0
      BY <1>2, <1>3, <1>5, <3>2, SmallQuotient
    <3>4. ~(0 % 2 = 1)
      OBVIOUS
    <3>5. ~Out(TRUE, v, count)
      BY <1>5, <3>3, <3>4 DEF Out
    <3>6. QED
      BY <2>4, <2>5, <3>1, <3>5
  <2>8. count = l \/ count > l
    BY <1>1, <1>4, <1>9
  <2>9. QED
    BY <2>6, <2>7, <2>8
<1>10. count < l \/ count >= l
  BY <1>1, <1>4
<1>11. QED
  BY <1>8, <1>9, <1>10

\* The closed form of a shift to the left.
LEMMA LeftInOneGo ==
  ASSUME NEW v \in Longs, NEW count \in 1 .. 2 * LongBits
  PROVE  /\ (IF count >= LongBits THEN 0 ELSE (v * Power[count]) % Long) = Moves(FALSE, v, count)
         /\ count <= LongBits /\ LongBits - count \in BitsOf(v) <=> Out(FALSE, v, count)
<1>1. PICK l \in Nat : l = LongBits /\ l > 0
  BY BitsAreNumbers
<1>2. v \in Nat /\ v < Long
  BY LongsAreNumbers
<1>3. PICK n \in Nat : n = Long /\ n > 0
  BY WordIsEven
<1>4. count \in 0 .. 2 * LongBits /\ count \in Nat /\ count > 0
  BY <1>1
<1>5. PICK p : p = Power[count] /\ p \in Nat /\ p > 0
  BY <1>4, PowerIsPositive
<1>6. Moves(FALSE, v, count) = (v * p) % n /\ (Out(FALSE, v, count) <=> ((v * p) \div n) % 2 = 1)
  BY <1>3, <1>5 DEF Moves, Out
<1>7. ASSUME count >= l
      PROVE  (IF count >= LongBits THEN 0 ELSE (v * Power[count]) % Long) = Moves(FALSE, v, count)
  <2>1. count \in LongBits .. 2 * LongBits
    BY <1>1, <1>4, <1>7
  <2>2. PICK j : j = count - LongBits /\ j \in 0 .. LongBits /\ Power[count] = Power[j] * Long
    BY <2>1, GreatPowers
  <2>3. PICK k : k = Power[j] /\ k \in Nat
    <3>1. j \in 0 .. 2 * LongBits
      BY <1>1, <2>2
    <3>2. QED
      BY <3>1, PowerIsPositive
  <2>4. PICK y \in Nat : y = v * k
    BY <1>2, <2>3
  <2>5. v * p = 0 + n * y
    <3>1. p = k * n
      BY <1>3, <1>5, <2>2, <2>3
    <3>2. v * (k * n) = n * (v * k)
      BY <1>2, <1>3, <2>3
    <3>3. n * y \in Nat
      BY <1>3, <2>4
    <3>4. QED
      BY <2>4, <3>1, <3>2, <3>3
  <2>6. (0 + n * y) % n = 0
    BY <1>3, <2>4, Quotient
  <2>7. QED
    BY <1>1, <1>6, <1>7, <2>5, <2>6
<1>8. ASSUME count <= l
      PROVE  LongBits - count \in BitsOf(v) <=> Out(FALSE, v, count)
  <2>1. PICK j \in Nat : j = l - count /\ j + count = l /\ j \in 0 .. LongBits - 1 /\ j \in 0 .. 2 * LongBits
    <3>1. /\ l - count \in Nat /\ (l - count) + count = l
          /\ l - count \in 0 .. LongBits - 1 /\ l - count \in 0 .. 2 * LongBits
      BY <1>1, <1>4, <1>8
    <3>2. QED
      BY <3>1
  <2>2. PICK k : k = Power[j] /\ k \in Nat /\ k > 0
    BY <2>1, PowerIsPositive
  <2>3. n = p * k
    <3>1. count + j = l /\ count + j <= 2 * LongBits
      BY <1>1, <1>4, <2>1
    <3>2. Power[count + j] = Power[count] * Power[j]
      BY <1>4, <2>1, <3>1, PowersMultiply
    <3>3. QED
      BY <1>1, <1>3, <1>5, <2>2, <3>1, <3>2, LongIsPower
  <2>4. PICK y \in Nat : y = v * p
    BY <1>2, <1>5
  <2>5. y \div n = (y \div p) \div k
    BY <1>5, <2>2, <2>3, <2>4, TwoDigits
  <2>6. y \div p = v
    <3>1. (0 + p * v) \div p = v
      BY <1>2, <1>5, Quotient
    <3>2. 0 + p * v = y
      BY <1>2, <1>5, <2>4
    <3>3. QED
      BY <3>1, <3>2
  <2>7. (v * p) \div n = v \div Power[j]
    BY <2>2, <2>4, <2>5, <2>6
  <2>8. LongBits - count = j
    BY <1>1, <2>1
  <2>9. QED
    BY <1>6, <2>1, <2>7, <2>8 DEF BitsOf
<1>9. ASSUME count > l PROVE ~Out(FALSE, v, count)
  <2>1. count \in LongBits .. 2 * LongBits
    BY <1>1, <1>4, <1>9
  <2>2. PICK j : j = count - LongBits /\ j \in 1 .. LongBits /\ Power[count] = Power[j] * Long
    <3>1. count - LongBits \in 1 .. LongBits /\ Power[count] = Power[count - LongBits] * Long
      BY <1>1, <1>4, <1>9, <2>1, GreatPowers
    <3>2. QED
      BY <3>1
  <2>3. j \in 0 .. 2 * LongBits /\ j - 1 \in 0 .. 2 * LongBits /\ j # 0
    BY <1>1, <2>2
  <2>4. PICK k : k = Power[j - 1] /\ k \in Nat /\ Power[j] = 2 * k
    BY <2>3, PowerAt, PowerIsPositive
  <2>5. PICK y \in Nat : y = v * k
    BY <1>2, <2>4
  <2>6. v * p = 0 + n * (2 * y)
    <3>1. p = (2 * k) * n
      BY <1>3, <1>5, <2>2, <2>4
    <3>2. v * ((2 * k) * n) = n * (2 * (v * k))
      BY <1>2, <1>3, <2>4
    <3>3. n * (2 * y) \in Nat
      BY <1>3, <2>5
    <3>4. QED
      BY <2>5, <3>1, <3>2, <3>3
  <2>7. (0 + n * (2 * y)) \div n = 2 * y
    BY <1>3, <2>5, Quotient
  <2>8. ~((2 * y) % 2 = 1)
    BY <2>5
  <2>9. QED
    BY <1>6, <2>6, <2>7, <2>8
<1>10. (IF count >= LongBits THEN 0 ELSE (v * Power[count]) % Long) = Moves(FALSE, v, count)
  <2>1. CASE count >= l
    BY <1>7, <2>1
  <2>2. CASE ~(count >= l)
    BY <1>1, <2>2 DEF Moves
  <2>3. QED
    BY <2>1, <2>2
<1>11. count <= LongBits /\ LongBits - count \in BitsOf(v) <=> Out(FALSE, v, count)
  <2>1. CASE count <= l
    BY <1>1, <1>8, <2>1
  <2>2. CASE count > l
    <3>1. ~(count <= LongBits)
      BY <1>1, <1>4, <2>2
    <3>2. QED
      BY <1>9, <2>2, <3>1
  <2>3. count <= l \/ count > l
    BY <1>1, <1>4
  <2>4. QED
    BY <2>1, <2>2, <2>3
<1>12. QED
  BY <1>10, <1>11
=============================================================================
