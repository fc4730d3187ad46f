--------------------------- MODULE SeqSpaceProofs ---------------------------
(***************************************************************************)
(* Facts about the arithmetic modulo SEQ_LEN of project2/util.h, for every *)
(* window and sequence length that WindowAssumption allows.                *)
(***************************************************************************)
EXTENDS SeqSpace, TLAPS

\* A remainder is a sequence number.
LEMMA ModRange == \A x \in Int : x % SEQ_LEN \in SeqNum
  BY WindowAssumption DEF SeqNum

\* Division with remainder.
LEMMA ModDiv ==
  ASSUME NEW x \in Int
  PROVE  \E q \in Int : x = SEQ_LEN * q + (x % SEQ_LEN)
<1>1. x = SEQ_LEN * (x \div SEQ_LEN) + (x % SEQ_LEN) /\ x \div SEQ_LEN \in Int
  BY WindowAssumption
<1> QED BY <1>1

\* A multiple of SEQ_LEN that is smaller than SEQ_LEN is zero.
LEMMA SmallMultiple ==
  ASSUME NEW n \in Int, SEQ_LEN * n < SEQ_LEN, -SEQ_LEN < SEQ_LEN * n
  PROVE  n = 0
<1>1. CASE n > 0
  <2>1. SEQ_LEN * n >= SEQ_LEN  BY <1>1, WindowAssumption
  <2> QED BY <2>1, WindowAssumption
<1>2. CASE n < 0
  <2>1. SEQ_LEN * n <= -SEQ_LEN  BY <1>2, WindowAssumption
  <2> QED BY <2>1, WindowAssumption
<1> QED BY <1>1, <1>2

\* The remainder is the only one.
LEMMA ModUnique ==
  ASSUME NEW q \in Int, NEW r \in SeqNum
  PROVE  (SEQ_LEN * q + r) % SEQ_LEN = r
<1> DEFINE x == SEQ_LEN * q + r
           m == x % SEQ_LEN
<1>1. x \in Int  BY WindowAssumption DEF SeqNum
<1>2. m \in SeqNum  BY <1>1, ModRange
<1>3. PICK p \in Int : x = SEQ_LEN * p + m  BY <1>1, ModDiv
<1> HIDE DEF m
<1>4. SEQ_LEN * (q - p) = m - r  BY <1>2, <1>3, WindowAssumption DEF SeqNum
<1>5. q - p = 0  BY <1>2, <1>4, SmallMultiple, WindowAssumption DEF SeqNum
<1>6. m = r  BY <1>2, <1>4, <1>5, WindowAssumption DEF SeqNum
<1> QED BY <1>6 DEF m

\* Reducing one summand first changes nothing.
LEMMA ModAdd ==
  ASSUME NEW x \in Int, NEW d \in Int
  PROVE  ((x % SEQ_LEN) + d) % SEQ_LEN = (x + d) % SEQ_LEN
<1> DEFINE r == x % SEQ_LEN
           m == (r + d) % SEQ_LEN
<1>1. r \in SeqNum  BY ModRange
<1>2. PICK q \in Int : x = SEQ_LEN * q + r  BY ModDiv
<1> HIDE DEF r
<1>3. r + d \in Int  BY <1>1 DEF SeqNum
<1>4. m \in SeqNum  BY <1>3, ModRange
<1>5. PICK p \in Int : r + d = SEQ_LEN * p + m  BY <1>3, ModDiv
<1> HIDE DEF m
<1>6. x + d = SEQ_LEN * (q + p) + m
  BY <1>1, <1>2, <1>4, <1>5, WindowAssumption DEF SeqNum
<1>7. (x + d) % SEQ_LEN = m  BY <1>4, <1>6, ModUnique
<1> QED BY <1>7 DEF m, r

\* Adding SEQ_LEN changes nothing.
LEMMA ModPeriod ==
  ASSUME NEW x \in Int
  PROVE  (x + SEQ_LEN) % SEQ_LEN = x % SEQ_LEN
<1> DEFINE m == x % SEQ_LEN
<1>1. m \in SeqNum  BY ModRange
<1>2. PICK q \in Int : x = SEQ_LEN * q + m  BY ModDiv
<1> HIDE DEF m
<1>3. x + SEQ_LEN = SEQ_LEN * (q + 1) + m
  BY <1>1, <1>2, WindowAssumption DEF SeqNum
<1>4. (x + SEQ_LEN) % SEQ_LEN = m  BY <1>1, <1>3, ModUnique
<1> QED BY <1>4 DEF m

\* Below twice SEQ_LEN the remainder is at most one subtraction.
LEMMA ModSmall ==
  ASSUME NEW y \in 0 .. 2 * SEQ_LEN - 1
  PROVE  y % SEQ_LEN = IF y < SEQ_LEN THEN y ELSE y - SEQ_LEN
<1>1. CASE y < SEQ_LEN
  <2>1. y \in SeqNum  BY <1>1, WindowAssumption DEF SeqNum
  <2>2. y = SEQ_LEN * 0 + y  BY WindowAssumption
  <2> QED BY <1>1, <2>1, <2>2, ModUnique
<1>2. CASE ~ (y < SEQ_LEN)
  <2>1. y - SEQ_LEN \in SeqNum  BY <1>2, WindowAssumption DEF SeqNum
  <2>2. y = SEQ_LEN * 1 + (y - SEQ_LEN)  BY WindowAssumption
  <2>3. (SEQ_LEN * 1 + (y - SEQ_LEN)) % SEQ_LEN = y - SEQ_LEN
    BY <2>1, ModUnique
  <2> QED BY <1>2, <2>2, <2>3
<1> QED BY <1>1, <1>2

\* The number at offset d after x.
LEMMA OffsetValue ==
  ASSUME NEW x \in SeqNum, NEW d \in SeqNum
  PROVE  (x + d) % SEQ_LEN = IF x + d < SEQ_LEN THEN x + d ELSE x + d - SEQ_LEN
<1> DEFINE y == x + d
<1>1. y \in 0 .. 2 * SEQ_LEN - 1  BY WindowAssumption DEF SeqNum
<1> HIDE DEF y
<1>2. y % SEQ_LEN = IF y < SEQ_LEN THEN y ELSE y - SEQ_LEN  BY <1>1, ModSmall
<1> QED BY <1>2, WindowAssumption DEF y, SeqNum

\* It is a sequence number.
LEMMA OffsetRange ==
  \A x \in SeqNum, d \in 0 .. SEQ_LEN - 1 : (x + d) % SEQ_LEN \in SeqNum
BY OffsetValue, WindowAssumption DEF SeqNum

\* Two offsets below SEQ_LEN that reach the same number are equal.
LEMMA OffsetUnique ==
  ASSUME NEW x \in SeqNum, NEW d \in SeqNum, NEW e \in SeqNum,
         (x + d) % SEQ_LEN = (x + e) % SEQ_LEN
  PROVE  d = e
<1>1. (x + d) % SEQ_LEN = IF x + d < SEQ_LEN THEN x + d ELSE x + d - SEQ_LEN
  BY OffsetValue
<1>2. (x + e) % SEQ_LEN = IF x + e < SEQ_LEN THEN x + e ELSE x + e - SEQ_LEN
  BY OffsetValue
<1> QED BY <1>1, <1>2, WindowAssumption DEF SeqNum

\* Every number is at some offset.
LEMMA OffsetExists ==
  ASSUME NEW x \in SeqNum, NEW k \in SeqNum
  PROVE  \E d \in SeqNum : k = (x + d) % SEQ_LEN
<1>1. CASE x <= k
  <2>1. k - x \in SeqNum /\ x + (k - x) = k /\ k \in 0 .. 2 * SEQ_LEN - 1
    BY <1>1, WindowAssumption DEF SeqNum
  <2>2. k % SEQ_LEN = k  BY <2>1, ModSmall, WindowAssumption DEF SeqNum
  <2> QED BY <2>1, <2>2
<1>2. CASE k < x
  <2> DEFINE d == k - x + SEQ_LEN
  <2>1. d \in SeqNum /\ ~ (x + d < SEQ_LEN) /\ x + d - SEQ_LEN = k
    BY <1>2, WindowAssumption DEF SeqNum
  <2> HIDE DEF d
  <2>2. (x + d) % SEQ_LEN = k  BY <2>1, OffsetValue
  <2> QED BY <2>1, <2>2
<1> QED BY <1>1, <1>2, WindowAssumption DEF SeqNum

\* An offset from a base that moved on by d.
LEMMA OffsetShift ==
  ASSUME NEW b \in SeqNum, NEW d \in 0 .. SEQ_LEN - 1, NEW x \in 0 .. SEQ_LEN - 1,
         NEW c, c = (b + d) % SEQ_LEN,
         NEW y, y = IF d + x < SEQ_LEN THEN d + x ELSE d + x - SEQ_LEN
  PROVE  y \in SeqNum /\ (c + x) % SEQ_LEN = (b + y) % SEQ_LEN
<1> DEFINE z == d + x
           v == b + d
<1>1. /\ z \in Int /\ d \in Int /\ v \in Int /\ v + x = b + z /\ x \in Int
      /\ y \in SeqNum
  BY WindowAssumption DEF SeqNum
<1>2. c = v % SEQ_LEN /\ y = IF z < SEQ_LEN THEN z ELSE z - SEQ_LEN
  BY <1>1, WindowAssumption
<1> HIDE DEF v
<1>3. (c + x) % SEQ_LEN = (b + z) % SEQ_LEN  BY <1>1, <1>2, ModAdd
<1>4. CASE z < SEQ_LEN  BY <1>1, <1>2, <1>3, <1>4
<1>5. CASE ~ (z < SEQ_LEN)
  <2> DEFINE w == b + y
  <2>1. w \in Int /\ w + SEQ_LEN = b + z
    BY <1>1, <1>2, <1>5, WindowAssumption DEF SeqNum
  <2> HIDE DEF w
  <2>2. (w + SEQ_LEN) % SEQ_LEN = w % SEQ_LEN  BY <2>1, ModPeriod
  <2> QED BY <1>1, <1>3, <2>1, <2>2 DEF w
<1> QED BY <1>4, <1>5

\* util.h between(): on a circle, offset e lies up to offset h.
LEMMA BetweenOffset ==
  ASSUME NEW x \in SeqNum, NEW h \in SeqNum, NEW e \in SeqNum
  PROVE  Between(x, (x + h) % SEQ_LEN, (x + e) % SEQ_LEN) <=> e <= h
<1>1. (x + h) % SEQ_LEN = IF x + h < SEQ_LEN THEN x + h ELSE x + h - SEQ_LEN
  BY OffsetValue
<1>2. (x + e) % SEQ_LEN = IF x + e < SEQ_LEN THEN x + e ELSE x + e - SEQ_LEN
  BY OffsetValue
<1> QED BY <1>1, <1>2, WindowAssumption DEF SeqNum, Between

\* util.h map_to_window(): it gives the offset back.
THEOREM MapToWindowOffset ==
  ASSUME NEW x \in SeqNum, NEW e \in SeqNum
  PROVE  MapToWindow(x, (x + e) % SEQ_LEN) = e
<1>1. (x + e) % SEQ_LEN = IF x + e < SEQ_LEN THEN x + e ELSE x + e - SEQ_LEN
  BY OffsetValue
<1> QED BY <1>1, WindowAssumption DEF SeqNum, MapToWindow

\* util.h mod(): for the arguments the programs give it, the remainder.
LEMMA ModIsRemainder ==
  ASSUME NEW a \in -1 .. 2 * SEQ_LEN - 1
  PROVE  Mod(a, SEQ_LEN) = (a + SEQ_LEN) % SEQ_LEN
<1>1. CASE a = -1
  <2>1. 1 \in 0 .. 2 * SEQ_LEN - 1 /\ SEQ_LEN - 1 \in 0 .. 2 * SEQ_LEN - 1
        /\ 1 < SEQ_LEN /\ SEQ_LEN - 1 < SEQ_LEN
    BY WindowAssumption
  <2>2. 1 % SEQ_LEN = 1 /\ (SEQ_LEN - 1) % SEQ_LEN = SEQ_LEN - 1
    BY <2>1, ModSmall
  <2>3. CRem(a, SEQ_LEN) = -1
    BY <1>1, <2>2 DEF CRem
  <2> QED BY <1>1, <2>2, <2>3, WindowAssumption DEF Mod
<1>2. CASE a >= 0
  <2>1. a % SEQ_LEN \in SeqNum  BY ModRange
  <2>2. PICK q \in Int : a = SEQ_LEN * q + (a % SEQ_LEN)  BY ModDiv
  <2>3. a + SEQ_LEN = SEQ_LEN * (q + 1) + (a % SEQ_LEN)
    BY <2>1, <2>2, WindowAssumption DEF SeqNum
  <2>4. (a + SEQ_LEN) % SEQ_LEN = a % SEQ_LEN
    BY <2>1, <2>3, ModUnique
  <2> QED BY <1>2, <2>1, <2>4, WindowAssumption DEF Mod, CRem, SeqNum
<1> QED BY <1>1, <1>2

\* On numbers that are not negative it is the remainder itself.
LEMMA ModOfNat ==
  ASSUME NEW a \in Nat
  PROVE  Mod(a, SEQ_LEN) = a % SEQ_LEN
<1>1. a % SEQ_LEN \in SeqNum  BY ModRange
<1> QED BY <1>1 DEF Mod, CRem, SeqNum
=============================================================================
