-------------------------- MODULE HistogramProofs --------------------------
(***************************************************************************)
(* Proofs about Histogram, for words of every width, every number of       *)
(* sub-buckets, every set of samples and every set of percentages.         *)
(***************************************************************************)
EXTENDS Histogram, DataLemmas

-----------------------------------------------------------------------------
(* Buckets. *)

\* What the sizes are.
LEMMA Sizes ==
    /\ Width \in Nat /\ kSubBits \in Nat /\ kSubBits < Width
    /\ kSubCount \in Nat /\ kSubCount >= 1 /\ UINT_MAX \in Nat /\ UINT_MAX + 1 = 2^Width
    /\ kBucketCount \in Nat /\ kSubCount <= kBucketCount
    /\ 2^Width \in Nat
<1>1. Width \in Nat /\ kSubBits \in Nat /\ kSubBits < Width
  BY WidthAssumption
<1>2. 2^Width \in Nat /\ 2^Width >= 1 /\ kSubCount \in Nat /\ kSubCount >= 1
  BY <1>1, PowerStep DEF kSubCount
<1>3. UINT_MAX \in Nat /\ UINT_MAX + 1 = 2^Width
  BY <1>2 DEF UINT_MAX
<1>4. \A a, d \in Nat : d >= 1 => a * d \in Nat /\ a <= a * d
  OBVIOUS
<1>5. Width - kSubBits + 1 \in Nat /\ Width - kSubBits + 1 >= 1
  BY <1>1
<1>6. kBucketCount \in Nat /\ kSubCount <= kBucketCount
  BY <1>2, <1>4, <1>5 DEF kBucketCount
<1>7. QED
  BY <1>1, <1>2, <1>3, <1>6

\* The position of the highest bit is between two powers of two.
LEMMA BitWidthIs ==
    ASSUME NEW v \in Nat, NEW n \in Nat, n < Width, 2^n <= v, v < 2^(n + 1)
    PROVE  bit_width(v) = n + 1
<1> DEFINE P(m) == v < 2^m /\ (m = 0 \/ v >= 2^(m - 1))
           m1 == n + 1
<1>0. Width \in Nat /\ 2^0 = 1
  BY Sizes, PowerStep
<1>1. m1 \in 0..Width /\ m1 - 1 = n /\ m1 \in Nat
  BY <1>0
<1>2. P(m1)
  BY <1>1
<1>3. ASSUME NEW m \in 0..Width, P(m)
      PROVE  m = m1
  <2>1. m \in Nat /\ 2^m \in Nat /\ 2^n \in Nat /\ 2^m1 \in Nat
    BY <1>0, <1>1, PowerStep
  <2>2. CASE m <= n
    <3>1. 2^m <= 2^n
      BY <2>1, <2>2, PowerGrows
    <3>2. QED
      BY <1>3, <2>1, <3>1
  <2>3. CASE m >= n + 2
    <3> DEFINE l == m - 1
    <3>1. l \in Nat /\ m1 <= l /\ m # 0
      BY <2>1, <2>3
    <3>2. 2^m1 <= 2^l /\ 2^l \in Nat
      BY <3>1, <1>1, PowerGrows, PowerStep
    <3>3. v >= 2^l
      BY <1>3, <3>1
    <3>4. v < 2^m1
      OBVIOUS
    <3> HIDE DEF l, m1
    <3>5. QED
      BY <2>1, <3>2, <3>3, <3>4
  <2>4. QED
    BY <2>1, <2>2, <2>3
<1> HIDE DEF P, m1
<1>4. (CHOOSE m \in 0..Width : P(m)) = m1
  BY <1>1, <1>2, <1>3
<1>5. QED
  BY <1>4 DEF P, m1, bit_width

\* Every value has a highest bit.
LEMMA HighestBit ==
    ASSUME NEW v \in Nat, v >= 1, v <= UINT_MAX
    PROVE  \E n \in Nat : n < Width /\ 2^n <= v /\ v < 2^(n + 1)
<1> DEFINE T == {m \in Nat : v < 2^m}
<1>1. Width \in T
  BY Sizes
<1>2. PICK m \in T : \A y \in T : m <= y
  <2>1. T \subseteq Nat /\ T # {}
    BY <1>1
  <2> HIDE DEF T
  <2>2. QED
    BY <2>1, LeastNat
<1>3. m \in Nat /\ m <= Width /\ v < 2^m
  BY <1>1, <1>2
<1>4. m # 0
  <2>1. 2^0 = 1
    BY PowerStep
  <2>2. ASSUME m = 0 PROVE FALSE
    <3>1. v < 2^0
      BY <1>3, <2>2
    <3> QED
      BY <2>1, <3>1
  <2>3. QED
    BY <2>2
<1> DEFINE n == m - 1
<1>5. n \in Nat /\ n + 1 = m /\ n < Width
  BY <1>3, <1>4, Sizes
<1>6. n \notin T
  BY <1>2, <1>5
<1>7. 2^n <= v
  BY <1>5, <1>6, PowerStep
<1> HIDE DEF n
<1>8. QED
  BY <1>3, <1>5, <1>7

\* The value of at least kSubCount with `shift` bits below its sub-bucket, in
\* sub-bucket `sub`, at place r.
Place(shift, sub, r) == 2^(shift + kSubBits) + sub * 2^shift + r

Shifts == 0..(Width - kSubBits - 1)

Subs == 0..(kSubCount - 1)

\* The powers around a place.
LEMMA Powers ==
    ASSUME NEW shift \in Shifts
    PROVE  /\ shift \in Nat /\ shift + kSubBits \in Nat /\ shift + kSubBits < Width
           /\ 2^shift \in Nat /\ 2^shift >= 1
           /\ 2^(shift + kSubBits) = kSubCount * 2^shift
           /\ 2^(shift + kSubBits) \in Nat
           /\ kSubCount <= 2^(shift + kSubBits)
           /\ 2^(shift + kSubBits + 1) = 2 * 2^(shift + kSubBits)
           /\ 2^(shift + kSubBits + 1) <= 2^Width
<1> DEFINE e == shift + kSubBits
           f == e + 1
<1>1. shift \in Nat /\ e \in Nat /\ e < Width /\ kSubBits \in Nat /\ Width \in Nat /\ f \in Nat /\ f <= Width /\ kSubBits <= e
  BY Sizes DEF Shifts
<1>2. 2^shift \in Nat /\ 2^shift >= 1 /\ 2^e \in Nat /\ 2^(e + 1) = 2 * 2^e
  BY <1>1, PowerStep
<1>3. 2^e = 2^shift * 2^kSubBits /\ kSubCount \in Nat
  BY <1>1, PowerAdd, Sizes
<1>4. 2^kSubBits <= 2^e /\ 2^f <= 2^Width
  BY <1>1, PowerGrows
<1>5. 2^e = kSubCount * 2^shift
  BY <1>2, <1>3 DEF kSubCount
<1>6. QED
  BY <1>1, <1>2, <1>4, <1>5 DEF kSubCount

\* A place is within its power of two.
LEMMA PlaceBounds ==
    ASSUME NEW shift \in Shifts, NEW sub \in Subs, NEW r \in 0..(2^shift - 1)
    PROVE  /\ Place(shift, sub, r) \in Nat
           /\ kSubCount <= Place(shift, sub, r) /\ Place(shift, sub, r) <= UINT_MAX
           /\ 2^(shift + kSubBits) <= Place(shift, sub, r)
           /\ Place(shift, sub, r) < 2^(shift + kSubBits + 1)
           /\ sub * 2^shift + r \in Nat
<1> DEFINE s == 2^shift
           e == 2^(shift + kSubBits)
           K == kSubCount
           p == sub * s
<1>1. s \in Nat /\ s >= 1 /\ e \in Nat /\ e = K * s /\ K <= e /\ K \in Nat /\ K >= 1
  BY Powers, Sizes
<1>2. 2^(shift + kSubBits + 1) = 2 * e /\ 2 * e <= UINT_MAX + 1 /\ UINT_MAX \in Nat
  BY Powers, Sizes
<1>3. sub \in Nat /\ sub <= K - 1 /\ r \in Nat /\ r <= s - 1
  BY <1>1 DEF Subs
<1> HIDE DEF s, e, K
<1>4. p \in Nat /\ p <= (K - 1) * s /\ (K - 1) * s = e - s
  BY <1>1, <1>3
<1> HIDE DEF p
<1>5. Place(shift, sub, r) = e + p + r
  BY DEF Place, e, p, s
<1>6. QED
  BY <1>1, <1>2, <1>3, <1>4, <1>5 DEF e, p, s, K

\* Every value of at least kSubCount has a place.
LEMMA PlaceExists ==
    ASSUME NEW v \in Nat, kSubCount <= v, v <= UINT_MAX
    PROVE  \E shift \in Shifts, sub \in Subs : \E r \in 0..(2^shift - 1) : v = Place(shift, sub, r)
<1>1. v >= 1
  BY Sizes
<1>2. PICK n \in Nat : n < Width /\ 2^n <= v /\ v < 2^(n + 1)
  BY <1>1, HighestBit
<1>3. kSubBits <= n
  <2>1. ASSUME n < kSubBits PROVE FALSE
    <3> DEFINE m == n + 1
    <3>1. m \in Nat /\ m <= kSubBits /\ kSubBits \in Nat
      BY <2>1, Sizes
    <3>2. 2^m <= kSubCount /\ 2^m \in Nat
      BY <3>1, PowerGrows, PowerStep DEF kSubCount
    <3>3. v < 2^m /\ kSubCount \in Nat
      BY <1>2, Sizes
    <3> HIDE DEF m
    <3>4. QED
      BY <3>2, <3>3
  <2>2. QED
    BY <2>1, Sizes
<1> DEFINE shift == n - kSubBits
<1>4. shift \in Shifts /\ shift + kSubBits = n
  BY <1>2, <1>3, Sizes DEF Shifts
<1> HIDE DEF shift
<1> DEFINE s == 2^shift
           x == v - 2^n
<1>5. s \in Nat /\ s >= 1 /\ 2^n = kSubCount * s /\ 2^n \in Nat /\ 2^(n + 1) = 2 * 2^n
  BY <1>4, Powers
<1>6. x \in Nat /\ x < kSubCount * s
  BY <1>2, <1>5
<1> HIDE DEF s
<1>7. PICK sub \in Nat, r \in 0..(s - 1) : x = sub * s + r
  <2> HIDE DEF x
  <2>1. QED
    BY <1>5, <1>6, DivMod
<1>8. sub <= kSubCount - 1
  <2>1. ASSUME sub >= kSubCount PROVE FALSE
    <3>1. sub * s >= kSubCount * s
      BY <1>5, <2>1, Sizes
    <3> HIDE DEF x
    <3>2. QED
      BY <1>5, <1>6, <1>7, <3>1, Sizes
  <2>2. QED
    BY <2>1, Sizes
<1>9. sub \in Subs
  BY <1>8, Sizes DEF Subs
<1>10. v = 2^n + x
  BY <1>5
<1> HIDE DEF x
<1>11. sub * s \in Nat /\ r \in Nat
  BY <1>5
<1>12. \A a, b, c \in Nat : a + (b + c) = a + b + c
  OBVIOUS
<1>13. v = 2^n + sub * s + r
  BY <1>5, <1>7, <1>10, <1>11, <1>12
<1>14. v = Place(shift, sub, r)
  BY <1>4, <1>13 DEF Place, s
<1>15. r \in 0..(2^shift - 1)
  BY DEF s
<1>16. QED
  BY <1>4, <1>9, <1>14, <1>15

\* The number of a sub-bucket.
BucketAt(shift, sub) == kSubCount + shift * kSubCount + sub

\* The bucket that index_of() finds.
LEMMA IndexOfPlace ==
    ASSUME NEW shift \in Shifts, NEW sub \in Subs, NEW r \in 0..(2^shift - 1)
    PROVE  index_of(Place(shift, sub, r)) = BucketAt(shift, sub)
<1> DEFINE v == Place(shift, sub, r)
           n == shift + kSubBits
           s == 2^shift
<1>1. v \in Nat /\ kSubCount <= v /\ 2^n <= v /\ v < 2^(n + 1) /\ n \in Nat /\ n < Width /\ s \in Nat /\ s >= 1 /\ 2^n \in Nat
  BY PlaceBounds, Powers
<1>2. sub \in Nat /\ r \in Nat /\ r < s /\ sub * s \in Nat
  BY <1>1, Sizes DEF Subs
<1>3. v - 2^n = sub * s + r
  <2>1. v = 2^n + sub * s + r
    BY DEF Place
  <2> HIDE DEF v, n, s
  <2>2. \A a, b, c \in Nat : (a + b + c) - a = b + c
    OBVIOUS
  <2>3. QED
    BY <1>1, <1>2, <2>1, <2>2
<1> HIDE DEF v, n, s
<1>4. bit_width(v) = n + 1
  BY <1>1, BitWidthIs
<1>5. bit_width(v) - 1 = n /\ n - kSubBits = shift
  <2>1. shift \in Nat /\ kSubBits \in Nat
    BY Powers, Sizes
  <2>2. QED
    BY <1>1, <1>4, <2>1 DEF n
<1>6. (v - 2^n) \div s = sub
  <2>1. s \in Nat /\ s >= 1 /\ sub \in Nat /\ r \in Nat /\ r < s
    BY <1>1, <1>2
  <2>2. (sub * s + r) \div s = sub
    BY <2>1, DivIs, Zenon
  <2>3. QED
    BY <1>3, <2>2, Zenon
<1>7. ~(v < kSubCount)
  BY <1>1, Sizes
<1>8. index_of(v) = kSubCount + shift * kSubCount + sub
  BY <1>5, <1>6, <1>7 DEF index_of, s
<1>9. QED
  BY <1>8 DEF BucketAt, v

\* Its end: the value at the last place.
LEMMA UpperOfBucket ==
    ASSUME NEW shift \in Shifts, NEW sub \in Subs
    PROVE  bucket_upper(BucketAt(shift, sub)) = Place(shift, sub, 2^shift - 1)
<1> DEFINE K == kSubCount
           s == 2^shift
           e == 2^(shift + kSubBits)
           p == sub * s
           t == e + p + s
           i == BucketAt(shift, sub)
           x == shift * K + sub
<1>1. K \in Nat /\ K >= 1 /\ shift \in Nat /\ sub \in Nat /\ sub < K /\ x \in Nat
  BY Sizes, Powers DEF Subs
<1>2. s \in Nat /\ s >= 1 /\ e \in Nat /\ e = K * s
  BY Powers
<1>3. 2 * e <= UINT_MAX + 1 /\ UINT_MAX \in Nat /\ UINT_MAX + 1 = 2^Width
  BY Powers, Sizes
<1> HIDE DEF K, s, e
<1>4. p \in Nat /\ p <= (K - 1) * s /\ (K - 1) * s = e - s
  BY <1>1, <1>2
<1>5. (sub + 1) * s = p + s
  BY <1>1, <1>2
<1>6. i - K = x /\ ~(i < K)
  <2> DEFINE y == shift * K
  <2>1. y \in Nat
    BY <1>1
  <2>2. i = K + y + sub
    BY DEF BucketAt, K
  <2>3. x = y + sub
    OBVIOUS
  <2> HIDE DEF y, x, i
  <2>4. QED
    BY <1>1, <2>1, <2>2, <2>3
<1>7. x \div K = shift /\ x % K = sub
  BY <1>1, DivIs, Zenon
<1>8. bucket_upper(i) = Word(Word(e + (p + s)) - 1)
  <2>1. bucket_upper(i) = Word(Word(2^(((i - K) \div K) + kSubBits) + (((i - K) % K) + 1) * 2^((i - K) \div K)) - 1)
    BY <1>6 DEF bucket_upper, K
  <2>2. (i - K) \div K = shift /\ (i - K) % K = sub
    BY <1>6, <1>7, Zenon
  <2> HIDE DEF i, p
  <2>3. QED
    BY <1>5, <2>1, <2>2 DEF e, s
<1> HIDE DEF p, i, x
<1>9. e + (p + s) = t /\ t \in Nat /\ t >= 1 /\ t <= UINT_MAX + 1
  BY <1>2, <1>3, <1>4
<1>10. Place(shift, sub, s - 1) = t - 1
  <2>1. Place(shift, sub, s - 1) = e + p + (s - 1)
    BY DEF Place, e, p, s
  <2>2. QED
    BY <1>2, <1>4, <2>1
<1> HIDE DEF t
<1>11. Word(Word(t) - 1) = t - 1
  <2> DEFINE W == 2^Width
  <2>1. W \in Nat /\ W >= 1 /\ t <= W
    BY <1>3, <1>9
  <2>2. \A y \in 0..(W - 1) : Word(y) = y
    <3>1. \A y \in Int : Word(y) = y % W
      BY DEF Word
    <3> HIDE DEF W
    <3>2. QED
      BY <2>1, <3>1
  <2>3. Word(W) = 0 /\ Word(-1) = W - 1
    <3>1. W % W = 0 /\ (-1) % W = W - 1
      <4> HIDE DEF W
      <4>1. (1 * W + 0) % W = 0 /\ 1 * W + 0 = W
        BY <2>1, DivIs
      <4>2. (-1) % W = W - 1
        BY <2>1
      <4>3. QED
        BY <4>1, <4>2
    <3>2. QED
      BY <3>1 DEF Word
  <2> HIDE DEF W
  <2>4. CASE t = W
    <3>1. Word(Word(t) - 1) = Word(0 - 1)
      BY <2>3, <2>4
    <3>2. 0 - 1 = -1
      OBVIOUS
    <3>3. QED
      BY <2>3, <2>4, <3>1, <3>2
  <2>5. CASE t # W
    <3>1. t \in 0..(W - 1) /\ t - 1 \in 0..(W - 1)
      BY <1>9, <2>1, <2>5
    <3>2. QED
      BY <2>2, <3>1
  <2>6. QED
    BY <2>4, <2>5
<1>12. QED
  BY <1>8, <1>9, <1>10, <1>11 DEF i, s

\* Every value has a bucket.
LEMMA IndexType ==
    ASSUME NEW v \in 0..UINT_MAX
    PROVE  index_of(v) \in Buckets /\ index_of(v) \in Nat
<1>1. v \in Nat /\ v <= UINT_MAX
  BY Sizes
<1>2. CASE v < kSubCount
  <2>1. index_of(v) = v
    BY <1>2 DEF index_of
  <2>2. QED
    BY <1>1, <1>2, <2>1, Sizes DEF Buckets
<1>3. CASE kSubCount <= v
  <2>1. PICK shift \in Shifts, sub \in Subs : \E r \in 0..(2^shift - 1) : v = Place(shift, sub, r)
    BY <1>1, <1>3, PlaceExists
  <2>2. index_of(v) = BucketAt(shift, sub)
    BY <2>1, IndexOfPlace
  <2> DEFINE K == kSubCount
             d == Width - kSubBits
  <2>3. K \in Nat /\ K >= 1 /\ shift \in Nat /\ shift <= d - 1 /\ sub \in Nat /\ sub <= K - 1 /\ d \in Nat
    BY Sizes DEF Shifts, Subs
  <2>4. kBucketCount = K * (d + 1)
    BY DEF kBucketCount
  <2>5. BucketAt(shift, sub) = K + shift * K + sub
    BY DEF BucketAt
  <2> HIDE DEF K, d
  <2>6. shift * K \in Nat /\ shift * K <= (d - 1) * K
    BY <2>3
  <2>7. (d - 1) * K = d * K - K /\ K * (d + 1) = d * K + K /\ d * K \in Nat
    BY <2>3
  <2>8. BucketAt(shift, sub) \in 0..(kBucketCount - 1)
    BY <2>3, <2>4, <2>5, <2>6, <2>7
  <2>9. QED
    BY <2>2, <2>8 DEF Buckets
<1>4. QED
  BY <1>1, <1>2, <1>3, Sizes

\* A larger value has no smaller bucket.
LEMMA IndexGrows ==
    ASSUME NEW v \in 0..UINT_MAX, NEW w \in 0..UINT_MAX, v <= w
    PROVE  index_of(v) <= index_of(w)
<1>1. v \in Nat /\ v <= UINT_MAX /\ w \in Nat /\ w <= UINT_MAX
  BY Sizes
<1> DEFINE K == kSubCount
<1>2. CASE w < K
  <2>1. index_of(v) = v /\ index_of(w) = w
    BY <1>1, <1>2, Sizes DEF index_of
  <2>2. QED
    BY <2>1
<1>3. CASE K <= w
  <2>1. PICK shift \in Shifts, sub \in Subs : \E r \in 0..(2^shift - 1) : w = Place(shift, sub, r)
    BY <1>1, <1>3, PlaceExists
  <2>2. PICK r \in 0..(2^shift - 1) : w = Place(shift, sub, r)
    BY <2>1
  <2>3. index_of(w) = BucketAt(shift, sub) /\ shift \in Nat /\ sub \in Nat /\ K \in Nat /\ K >= 1
    BY <2>2, IndexOfPlace, Sizes DEF Shifts, Subs
  <2>4. CASE v < K
    <3>1. index_of(v) = v
      BY <2>4 DEF index_of
    <3>2. K + shift * K + sub = index_of(w)
      BY <2>3 DEF BucketAt
    <3> HIDE DEF K
    <3>3. shift * K \in Nat
      BY <2>3
    <3>4. QED
      BY <1>1, <2>3, <2>4, <3>1, <3>2, <3>3
  <2>5. CASE K <= v
    <3>1. PICK zhift \in Shifts, zub \in Subs : \E q \in 0..(2^zhift - 1) : v = Place(zhift, zub, q)
      BY <1>1, <2>5, PlaceExists
    <3>2. PICK q \in 0..(2^zhift - 1) : v = Place(zhift, zub, q)
      BY <3>1
    <3>3. index_of(v) = BucketAt(zhift, zub) /\ zhift \in Nat /\ zub \in Nat /\ zub < K /\ sub < K
      BY <3>2, IndexOfPlace, Sizes DEF Shifts, Subs
    <3>4. zhift <= shift
      <4>1. ASSUME shift + 1 <= zhift PROVE FALSE
        <5> DEFINE a == shift + kSubBits + 1
                   b == zhift + kSubBits
        <5>1. a \in Nat /\ b \in Nat /\ a <= b
          BY <2>3, <3>3, <4>1, Sizes
        <5>2. w < 2^a
          BY <2>2, PlaceBounds
        <5>3. 2^b <= v
          BY <3>2, PlaceBounds
        <5> HIDE DEF a, b
        <5>4. 2^a <= 2^b /\ 2^a \in Nat /\ 2^b \in Nat
          BY <5>1, PowerGrows, PowerStep
        <5>5. QED
          BY <1>1, <5>2, <5>3, <5>4
      <4>2. QED
        BY <2>3, <3>3, <4>1
    <3>5. CASE zhift = shift
      <4> DEFINE s == 2^shift
                 e == 2^(shift + kSubBits)
      <4>1. s \in Nat /\ e \in Nat /\ v = e + zub * s + q /\ w = e + sub * s + r /\ r \in Nat /\ r < s /\ q \in Nat
        BY <2>2, <3>2, <3>5, Powers DEF Place
      <4> HIDE DEF s, e
      <4>2. zub <= sub
        <5>1. ASSUME sub + 1 <= zub PROVE FALSE
          <6>1. (sub + 1) * s <= zub * s /\ (sub + 1) * s = sub * s + s /\ sub * s \in Nat /\ zub * s \in Nat
            BY <2>3, <3>3, <4>1, <5>1
          <6>2. \A c, d, a, b \in Nat : v = c + d + q /\ w = c + a + r /\ a + s <= d => v > w
            BY <4>1
          <6>3. QED
            BY <1>1, <4>1, <6>1, <6>2
        <5>2. QED
          BY <2>3, <3>3, <5>1
      <4>3. BucketAt(zhift, zub) = K + shift * K + zub /\ BucketAt(shift, sub) = K + shift * K + sub
        BY <3>5 DEF BucketAt
      <4> HIDE DEF K
      <4>4. K + shift * K \in Nat
        BY <2>3
      <4>5. QED
        BY <2>3, <3>3, <4>2, <4>3, <4>4
    <3>6. CASE zhift + 1 <= shift
      <4>1. BucketAt(zhift, zub) = K + zhift * K + zub /\ BucketAt(shift, sub) = K + shift * K + sub
        BY DEF BucketAt
      <4> HIDE DEF K
      <4>2. (zhift + 1) * K <= shift * K /\ (zhift + 1) * K = zhift * K + K /\ zhift * K \in Nat /\ shift * K \in Nat
        BY <2>3, <3>3, <3>6
      <4>3. QED
        BY <2>3, <3>3, <4>1, <4>2
    <3>7. QED
      BY <2>3, <3>3, <3>4, <3>5, <3>6
  <2>6. QED
    BY <1>1, <2>3, <2>4, <2>5
<1>4. QED
  BY <1>1, <1>2, <1>3, Sizes

\* The end of a value's bucket is in the same bucket, not below the value, and
\* above it by less than one part in kSubCount.
LEMMA UpperOfValue ==
    ASSUME NEW v \in 0..UINT_MAX, NEW u, u = bucket_upper(index_of(v))
    PROVE  /\ u \in 0..UINT_MAX /\ v <= u /\ index_of(u) = index_of(v)
           /\ u = v \/ (u - v) * kSubCount < v
<1>1. v \in Nat /\ v <= UINT_MAX
  BY Sizes
<1>2. CASE v < kSubCount
  <2>1. index_of(v) = v /\ u = v
    BY <1>2 DEF index_of, bucket_upper
  <2>2. QED
    BY <1>1, <2>1
<1>3. CASE kSubCount <= v
  <2>1. PICK shift \in Shifts, sub \in Subs : \E r \in 0..(2^shift - 1) : v = Place(shift, sub, r)
    BY <1>1, <1>3, PlaceExists
  <2>2. PICK r \in 0..(2^shift - 1) : v = Place(shift, sub, r)
    BY <2>1
  <2> DEFINE s == 2^shift
             l == s - 1
             e == 2^(shift + kSubBits)
             K == kSubCount
             p == sub * s
  <2>3. s \in Nat /\ s >= 1 /\ e \in Nat /\ e = K * s /\ K \in Nat /\ K >= 1
    BY Powers, Sizes
  <2>4. index_of(v) = BucketAt(shift, sub) /\ u = Place(shift, sub, l)
    BY <2>2, IndexOfPlace, UpperOfBucket
  <2>5. l \in 0..(2^shift - 1)
    BY <2>3
  <2>6. index_of(u) = index_of(v) /\ u \in Nat /\ u <= UINT_MAX
    BY <2>4, <2>5, IndexOfPlace, PlaceBounds
  <2>7. u = e + p + l /\ v = e + p + r
    BY <2>2, <2>4 DEF Place
  <2>8. sub \in Nat
    BY Sizes DEF Subs
  <2>9. r \in Nat /\ r <= l /\ l \in Nat /\ l < s
    BY <2>3
  <2> HIDE DEF l, e, K
  <2>10. p \in Nat
    BY <2>3, <2>8
  <2> HIDE DEF p, s
  <2>11. v <= u /\ u - v \in Nat /\ u - v <= l /\ e <= v
    BY <2>3, <2>7, <2>9, <2>10
  <2>12. (u - v) * K < v
    <3> DEFINE d == u - v
    <3>1. d \in Nat /\ d + 1 <= s
      BY <2>3, <2>9, <2>11
    <3> HIDE DEF d
    <3>2. (d + 1) * K <= s * K /\ (d + 1) * K = d * K + K /\ s * K = e
      BY <2>3, <3>1
    <3>3. d * K \in Nat
      BY <2>3, <3>1
    <3>4. d * K < v
      BY <1>1, <2>3, <2>11, <3>2, <3>3
    <3>5. QED
      BY <3>4 DEF d
  <2>13. QED
    BY <2>6, <2>11, <2>12, Sizes DEF K
<1>4. QED
  BY <1>1, <1>2, <1>3, Sizes

-----------------------------------------------------------------------------
(* Words, minima and maxima. *)

\* What overflowed may overflow again.
LEMMA WordAdd ==
    ASSUME NEW a \in Nat, NEW b \in Nat
    PROVE  /\ Word(a) \in Nat
           /\ Word(Word(a) + b) = Word(a + b)
           /\ Word(Word(a) + Word(b)) = Word(a + b)
<1> DEFINE W == 2^Width
<1>1. W \in Nat /\ W >= 1 /\ \A x \in Nat : Word(x) = x % W
  BY Sizes, PowerStep DEF Word
<1> HIDE DEF W
<1>2. ASSUME NEW x \in Nat, NEW y \in Nat
      PROVE  Word(x) \in Nat /\ Word(Word(x) + y) = Word(x + y)
  <2>1. PICK q \in Nat, r \in 0..(W - 1) : x = q * W + r
    BY <1>1, DivMod
  <2>2. r \in Nat /\ r < W /\ r + y \in Nat
    BY <1>1
  <2>3. (q * W + r) % W = r
    BY <1>1, <2>2, DivIs, Zenon
  <2>4. Word(x) = r
    BY <1>1, <2>1, <2>3, Zenon
  <2>5. PICK p \in Nat, t \in 0..(W - 1) : r + y = p * W + t
    BY <1>1, <2>2, DivMod
  <2>6. t \in Nat /\ t < W /\ q + p \in Nat
    BY <1>1
  <2>7. (p * W + t) % W = t /\ ((q + p) * W + t) % W = t
    BY <1>1, <2>6, DivIs, Zenon
  <2>8. x + y = (q + p) * W + t
    <3>1. (q + p) * W = q * W + p * W /\ q * W \in Nat /\ p * W \in Nat
      BY <1>1
    <3>2. \A c, d \in Nat : x = c + r /\ r + y = d + t => x + y = (c + d) + t
      BY <2>2, <2>6
    <3>3. QED
      BY <2>1, <2>5, <3>1, <3>2
  <2>9. Word(r + y) = t /\ Word(x + y) = t
    <3>1. x + y \in Nat
      OBVIOUS
    <3>2. QED
      BY <1>1, <2>2, <2>5, <2>7, <2>8, <3>1, Zenon
  <2>10. QED
    BY <2>2, <2>4, <2>9
<1>3. Word(a) \in Nat /\ Word(b) \in Nat
  BY <1>2
<1>4. Word(Word(a) + Word(b)) = Word(a + Word(b)) /\ a + Word(b) = Word(b) + a /\ a + b = b + a
  <2> DEFINE y == Word(b)
  <2>1. y \in Nat
    BY <1>3
  <2> HIDE DEF y
  <2>2. Word(Word(a) + y) = Word(a + y) /\ a + y = y + a /\ a + b = b + a
    BY <1>2, <2>1
  <2>3. QED
    BY <2>2 DEF y
<1>5. Word(Word(b) + a) = Word(b + a)
  BY <1>2
<1>6. QED
  BY <1>2, <1>4, <1>5

\* The least of two minima.
LEMMA MinUnion ==
    ASSUME NEW S, NEW T, S \subseteq Nat, T \subseteq Nat, S # {}, T # {}
    PROVE  Min({Min(S), Min(T)}) = Min(S \cup T)
<1> DEFINE a == Min(S)
           b == Min(T)
           U == {a, b}
<1>1. a \in S /\ b \in T /\ (\A y \in S : a <= y) /\ \A y \in T : b <= y
  BY MinOf
<1> HIDE DEF a, b
<1>2. U \subseteq Nat /\ U # {} /\ a \in U /\ b \in U
  BY <1>1
<1>3. Min(U) \in U /\ \A y \in U : Min(U) <= y
  <2> HIDE DEF U
  <2>1. QED
    BY <1>2, MinOf
<1> DEFINE m == Min(U)
<1>4. m <= a /\ m <= b /\ (m = a \/ m = b) /\ a \in Nat /\ b \in Nat
  BY <1>1, <1>2, <1>3
<1> HIDE DEF m
<1>5. m \in S \cup T /\ \A y \in S \cup T : m <= y
  BY <1>1, <1>4
<1>6. Min(S \cup T) = m
  <2>1. S \cup T \subseteq Int
    OBVIOUS
  <2>2. QED
    BY <1>5, <2>1, MinIs
<1>7. QED
  BY <1>6 DEF m, a, b

\* The greatest of two maxima.
LEMMA MaxUnion ==
    ASSUME NEW n \in Nat, NEW S, NEW T, S \subseteq 0..n, T \subseteq 0..n, S # {}, T # {}
    PROVE  Max({Max(S), Max(T)}) = Max(S \cup T)
<1> DEFINE a == Max(S)
           b == Max(T)
           U == {a, b}
<1>1. a \in S /\ b \in T /\ (\A y \in S : a >= y) /\ \A y \in T : b >= y
  BY MaxOf
<1> HIDE DEF a, b
<1>2. U \subseteq 0..n /\ U # {} /\ a \in U /\ b \in U
  BY <1>1
<1>3. Max(U) \in U /\ \A y \in U : Max(U) >= y
  <2> HIDE DEF U
  <2>1. QED
    BY <1>2, MaxOf
<1> DEFINE m == Max(U)
<1>4. m >= a /\ m >= b /\ (m = a \/ m = b) /\ a \in Nat /\ b \in Nat
  BY <1>1, <1>2, <1>3
<1> HIDE DEF m
<1>5. m \in S \cup T /\ \A y \in S \cup T : m >= y
  BY <1>1, <1>4
<1>6. Max(S \cup T) = m
  <2>1. S \cup T \subseteq Int
    OBVIOUS
  <2>2. QED
    BY <1>5, <2>1, MaxIs
<1>7. QED
  BY <1>6 DEF m, a, b

-----------------------------------------------------------------------------
(* A histogram and the samples it stands for. *)

HistogramType ==
    [counts : [Buckets -> Nat], count : Nat, sum : Nat, min : 0..UINT_MAX, max : 0..UINT_MAX]

HeldIn(l) == {v \in Samples : l[v] > 0}

\* h is what recording each v of Samples l[v] times makes.
StandsFor(h, l) ==
    /\ l \in [Samples -> Nat] /\ h \in HistogramType
    /\ \A i \in Buckets : h.counts[i] = SumFunctionOnSet(l, {v \in Samples : index_of(v) = i})
    /\ h.count = SumFunctionOnSet(l, Samples)
    /\ h.sum = Word(SumFunctionOnSet([v \in Samples |-> v * l[v]], Samples))
    /\ h.min = Min(HeldIn(l) \cup {UINT_MAX}) /\ h.max = Max(HeldIn(l) \cup {0})

\* The samples are finitely many words.
LEMMA SamplesFinite ==
    /\ IsFiniteSet(Samples) /\ Samples \subseteq 0..UINT_MAX /\ Samples \subseteq Nat
    /\ \A T : T \subseteq Samples => IsFiniteSet(T)
<1>1. Samples \subseteq 0..UINT_MAX /\ UINT_MAX \in Nat
  BY WidthAssumption, Sizes DEF UINT_MAX
<1>2. IsFiniteSet(0..UINT_MAX)
  BY <1>1, FS_Interval
<1>3. IsFiniteSet(Samples)
  BY <1>1, <1>2, FS_Subset
<1>4. \A T : T \subseteq Samples => IsFiniteSet(T)
  BY <1>3, FS_Subset
<1>5. QED
  BY <1>1, <1>3, <1>4

\* What holds nothing adds up to nothing.
LEMMA SumZero ==
    ASSUME NEW T, IsFiniteSet(T), NEW f, \A x \in T : f[x] = 0
    PROVE  SumFunctionOnSet(f, T) = 0
<1>1. \A x \in T : f[x] \in Nat
  OBVIOUS
<1>2. SumFunctionOnSet(f, {}) = SumFunctionOnSet(f, T)
  <2>1. {} \subseteq T /\ \A x \in T \ {} : f[x] = 0
    OBVIOUS
  <2>2. QED
    BY <1>1, <2>1, SumSubset
<1>3. QED
  BY <1>2, SumEmpty

\* The extremes are words.
LEMMA ExtremesType ==
    ASSUME NEW H, H \subseteq Samples
    PROVE  /\ H \cup {UINT_MAX} \subseteq Nat /\ Min(H \cup {UINT_MAX}) \in 0..UINT_MAX
           /\ H \cup {0} \subseteq 0..UINT_MAX /\ Max(H \cup {0}) \in 0..UINT_MAX
<1>1. UINT_MAX \in Nat /\ H \subseteq 0..UINT_MAX
  BY SamplesFinite, Sizes
<1> DEFINE S == H \cup {UINT_MAX}
           T == H \cup {0}
<1>2. S \subseteq 0..UINT_MAX /\ S # {} /\ T \subseteq 0..UINT_MAX /\ T # {} /\ S \subseteq Nat
  BY <1>1
<1> HIDE DEF S, T
<1>3. Min(S) \in S /\ Max(T) \in T
  BY <1>1, <1>2, MinOf, MaxOf
<1>4. Min(S) \in 0..UINT_MAX /\ Max(T) \in 0..UINT_MAX
  BY <1>2, <1>3
<1>5. QED
  BY <1>2, <1>4 DEF S, T

\* An empty histogram stands for no samples.
LEMMA EmptyStands == StandsFor(Empty, NoSamples)
<1> DEFINE l == NoSamples
           f == [v \in Samples |-> v * l[v]]
<1>1. l \in [Samples -> Nat] /\ \A v \in Samples : l[v] = 0
  BY DEF NoSamples
<1>2. HeldIn(l) = {}
  BY <1>1 DEF HeldIn
<1>3. \A v \in Samples : f[v] = 0
  BY <1>1, SamplesFinite
<1>4. Word(0) = 0
  <2> DEFINE W == 2^Width
  <2>1. W \in Nat /\ W >= 1 /\ Word(0) = 0 % W
    BY Sizes, PowerStep DEF Word
  <2> HIDE DEF W
  <2>2. QED
    BY <2>1
<1> HIDE DEF l, f
<1>5. \A T : T \subseteq Samples => SumFunctionOnSet(l, T) = 0
  <2>1. ASSUME NEW T, T \subseteq Samples
        PROVE  SumFunctionOnSet(l, T) = 0
    <3>1. IsFiniteSet(T) /\ \A x \in T : l[x] = 0
      BY <1>1, <2>1, SamplesFinite
    <3>2. QED
      BY <3>1, SumZero
  <2>2. QED
    BY <2>1
<1>6. SumFunctionOnSet(f, Samples) = 0
  BY <1>3, SamplesFinite, SumZero
<1>7. \A i \in Buckets : SumFunctionOnSet(l, {v \in Samples : index_of(v) = i}) = 0
  BY <1>5
<1>8. Min({} \cup {UINT_MAX}) = UINT_MAX /\ Max({} \cup {0}) = 0 /\ UINT_MAX \in Nat
  <2>1. UINT_MAX \in Nat
    BY Sizes
  <2>2. {} \cup {UINT_MAX} \subseteq Int /\ UINT_MAX \in {} \cup {UINT_MAX} /\ \A y \in {} \cup {UINT_MAX} : UINT_MAX <= y
    BY <2>1
  <2>3. {} \cup {0} \subseteq Int /\ 0 \in {} \cup {0} /\ \A y \in {} \cup {0} : 0 >= y
    OBVIOUS
  <2>4. QED
    BY <2>1, <2>2, <2>3, MinIs, MaxIs
<1>9. Empty \in HistogramType
  BY <1>8 DEF Empty, HistogramType
<1>10. /\ Empty.counts = [i \in Buckets |-> 0] /\ Empty.count = 0 /\ Empty.sum = 0
       /\ Empty.min = UINT_MAX /\ Empty.max = 0
  BY DEF Empty
<1>11. \A i \in Buckets : Empty.counts[i] = SumFunctionOnSet(l, {v \in Samples : index_of(v) = i})
  BY <1>7, <1>10
<1>12. Empty.count = SumFunctionOnSet(l, Samples)
  BY <1>5, <1>10
<1>13. Empty.sum = Word(SumFunctionOnSet([v \in Samples |-> v * l[v]], Samples))
  BY <1>4, <1>6, <1>10 DEF f
<1>14. Empty.min = Min(HeldIn(l) \cup {UINT_MAX}) /\ Empty.max = Max(HeldIn(l) \cup {0})
  BY <1>2, <1>8, <1>10
<1>15. QED
  BY <1>1, <1>9, <1>11, <1>12, <1>13, <1>14 DEF StandsFor, l

\* record() keeps to what the histogram stands for.
LEMMA RecordStands ==
    ASSUME NEW h, NEW l, StandsFor(h, l), NEW v \in Samples
    PROVE  StandsFor(Record(h, v), [l EXCEPT ![v] = l[v] + 1])
<1> DEFINE g == Record(h, v)
           m == [l EXCEPT ![v] = l[v] + 1]
           f == [x \in Samples |-> x * l[x]]
           e == [x \in Samples |-> x * m[x]]
<1>1. l \in [Samples -> Nat] /\ h \in HistogramType
  BY DEF StandsFor
<1>2. m \in [Samples -> Nat] /\ m[v] = l[v] + 1 /\ \A x \in Samples \ {v} : m[x] = l[x]
  BY <1>1
<1>3. v \in Nat /\ v \in 0..UINT_MAX /\ index_of(v) \in Buckets /\ IsFiniteSet(Samples)
  BY SamplesFinite, IndexType
<1>4. /\ h.counts \in [Buckets -> Nat] /\ h.count \in Nat /\ h.sum \in Nat
      /\ h.min \in 0..UINT_MAX /\ h.max \in 0..UINT_MAX
  BY <1>1 DEF HistogramType
<1>5. /\ g.counts = [h.counts EXCEPT ![index_of(v)] = h.counts[index_of(v)] + 1]
      /\ g.count = h.count + 1 /\ g.sum = Word(h.sum + v)
      /\ g.min = Min({h.min, v}) /\ g.max = Max({h.max, v})
  BY DEF Record
<1> HIDE DEF m
<1>6. ASSUME NEW T, T \subseteq Samples, v \in T
      PROVE  SumFunctionOnSet(m, T) = SumFunctionOnSet(l, T) + 1
  <2>1. IsFiniteSet(T) /\ (\A y \in T : l[y] \in Nat /\ m[y] \in Nat) /\ \A y \in T \ {v} : m[y] = l[y]
    BY <1>1, <1>2, <1>6, SamplesFinite
  <2>2. SumFunctionOnSet(m, T) + l[v] = SumFunctionOnSet(l, T) + m[v]
    BY <1>6, <2>1, SumChange
  <2>3. SumFunctionOnSet(m, T) \in Nat /\ SumFunctionOnSet(l, T) \in Nat
    BY <2>1, SumType
  <2>4. l[v] \in Nat /\ m[v] = l[v] + 1
    BY <1>1, <1>2
  <2>5. \A a, b, c, d \in Nat : a + b = c + d /\ d = b + 1 => a = c + 1
    OBVIOUS
  <2>6. m[v] \in Nat
    BY <2>4
  <2>7. QED
    BY <2>2, <2>3, <2>4, <2>5, <2>6
<1>7. ASSUME NEW T, T \subseteq Samples, v \notin T
      PROVE  SumFunctionOnSet(m, T) = SumFunctionOnSet(l, T)
  <2>1. IsFiniteSet(T) /\ \A y \in T : l[y] \in Nat /\ m[y] = l[y]
    BY <1>1, <1>2, <1>7, SamplesFinite
  <2>2. QED
    BY <2>1, SumSame
<1>8. g.counts \in [Buckets -> Nat] /\ \A i \in Buckets : g.counts[i] = SumFunctionOnSet(m, {x \in Samples : index_of(x) = i})
  <2>1. ASSUME NEW i \in Buckets
        PROVE  /\ g.counts[i] \in Nat
               /\ g.counts[i] = SumFunctionOnSet(m, {x \in Samples : index_of(x) = i})
    <3> DEFINE C == {x \in Samples : index_of(x) = i}
    <3>1. C \subseteq Samples /\ (v \in C <=> i = index_of(v))
      OBVIOUS
    <3>2. h.counts[i] = SumFunctionOnSet(l, C) /\ h.counts[i] \in Nat
      BY <1>4 DEF StandsFor
    <3>3. g.counts[i] = IF i = index_of(v) THEN h.counts[i] + 1 ELSE h.counts[i]
      BY <1>3, <1>4, <1>5
    <3> HIDE DEF C
    <3>4. CASE i = index_of(v)
      <4>1. SumFunctionOnSet(m, C) = SumFunctionOnSet(l, C) + 1
        BY <1>6, <3>1, <3>4
      <4>2. QED
        BY <3>2, <3>3, <3>4, <4>1 DEF C
    <3>5. CASE i # index_of(v)
      <4>1. SumFunctionOnSet(m, C) = SumFunctionOnSet(l, C)
        BY <1>7, <3>1, <3>5
      <4>2. QED
        BY <3>2, <3>3, <3>5, <4>1 DEF C
    <3>6. QED
      BY <3>4, <3>5
  <2>2. g.counts = [i \in Buckets |-> g.counts[i]]
    BY <1>4, <1>5
  <2> HIDE DEF g
  <2>3. QED
    BY <2>1, <2>2
<1>9. g.count = SumFunctionOnSet(m, Samples) /\ g.count \in Nat
  <2>1. h.count = SumFunctionOnSet(l, Samples)
    BY DEF StandsFor
  <2>2. SumFunctionOnSet(m, Samples) = SumFunctionOnSet(l, Samples) + 1
    BY <1>6
  <2> HIDE DEF g
  <2>3. QED
    BY <1>4, <1>5, <2>1, <2>2
<1>10. g.sum = Word(SumFunctionOnSet(e, Samples)) /\ g.sum \in Nat
  <2>1. \A y \in Samples : y \in Nat /\ l[y] \in Nat /\ m[y] \in Nat
    BY <1>1, <1>2, SamplesFinite
  <2>2. \A y \in Samples : f[y] = y * l[y] /\ e[y] = y * m[y] /\ f[y] \in Nat /\ e[y] \in Nat
    BY <2>1
  <2>3. h.sum = Word(SumFunctionOnSet(f, Samples))
    BY DEF StandsFor
  <2>4. e[v] = f[v] + v
    <3>1. \A a, b \in Nat : a * (b + 1) = a * b + a
      OBVIOUS
    <3>2. e[v] = v * (l[v] + 1)
      BY <1>2, <2>2
    <3>3. QED
      BY <2>1, <2>2, <3>1, <3>2
  <2> HIDE DEF f, e, g
  <2>5. SumFunctionOnSet(e, Samples) + f[v] = SumFunctionOnSet(f, Samples) + e[v]
    <3>1. \A y \in Samples \ {v} : e[y] = f[y]
      BY <1>2, <2>2
    <3>2. \A y \in Samples : f[y] \in Nat /\ e[y] \in Nat
      BY <2>2
    <3>3. QED
      <4>1. IsFiniteSet(Samples)
        BY <1>3
      <4>2. QED
        BY <3>1, <3>2, <4>1, SumChange
  <2>6. SumFunctionOnSet(e, Samples) \in Nat /\ SumFunctionOnSet(f, Samples) \in Nat
    BY <1>3, <2>2, SumType
  <2>7. SumFunctionOnSet(e, Samples) = SumFunctionOnSet(f, Samples) + v
    <3>1. \A a, b, c, d \in Nat : a + b = c + d /\ d = b + v => a = c + v
      BY <1>3
    <3>2. f[v] \in Nat /\ e[v] \in Nat
      BY <2>2
    <3>3. QED
      BY <2>4, <2>5, <2>6, <3>1, <3>2
  <2> DEFINE a == SumFunctionOnSet(f, Samples)
  <2>8. a \in Nat /\ h.sum = Word(a) /\ SumFunctionOnSet(e, Samples) = a + v
    BY <2>3, <2>6, <2>7
  <2> HIDE DEF a
  <2>9. a + v \in Nat
    BY <1>3, <2>8
  <2>10. Word(Word(a) + v) = Word(a + v) /\ Word(a + v) \in Nat
    <3>1. \A b \in Nat : Word(b) \in Nat
      BY WordAdd
    <3>2. QED
      BY <1>3, <2>8, <2>9, <3>1, WordAdd
  <2>11. QED
    BY <1>5, <2>8, <2>10
<1>11. HeldIn(m) = HeldIn(l) \cup {v} /\ HeldIn(l) \subseteq Samples
  <2>1. m[v] > 0
    BY <1>1, <1>2
  <2>2. QED
    BY <1>2, <2>1 DEF HeldIn
<1>12. g.min = Min(HeldIn(m) \cup {UINT_MAX})
  <2> DEFINE S == HeldIn(l) \cup {UINT_MAX}
             T == {v}
  <2>1. h.min = Min(S)
    BY DEF StandsFor
  <2>2. S \subseteq Nat /\ T \subseteq Nat /\ S # {} /\ T # {} /\ T \subseteq Int
    <3>1. T \subseteq Nat /\ T # {} /\ T \subseteq Int /\ S # {}
      BY <1>3
    <3>2. S \subseteq Nat
      BY <1>11, ExtremesType
    <3>3. QED
      BY <3>1, <3>2
  <2>3. Min(T) = v
    BY <1>3, <2>2, MinIs
  <2>4. HeldIn(m) \cup {UINT_MAX} = S \cup T
    BY <1>11
  <2> HIDE DEF S, T, g
  <2>5. Min({Min(S), Min(T)}) = Min(S \cup T)
    BY <2>2, MinUnion
  <2>6. QED
    BY <1>5, <2>1, <2>3, <2>4, <2>5
<1>13. g.max = Max(HeldIn(m) \cup {0})
  <2> DEFINE S == HeldIn(l) \cup {0}
             T == {v}
  <2>1. h.max = Max(S)
    BY DEF StandsFor
  <2>2. S \subseteq 0..UINT_MAX /\ T \subseteq 0..UINT_MAX /\ S # {} /\ T # {} /\ T \subseteq Int /\ UINT_MAX \in Nat
    <3>1. T \subseteq 0..UINT_MAX /\ T # {} /\ T \subseteq Int /\ S # {}
      BY <1>3
    <3>2. S \subseteq 0..UINT_MAX /\ UINT_MAX \in Nat
      BY <1>11, ExtremesType, Sizes
    <3>3. QED
      BY <3>1, <3>2
  <2>3. Max(T) = v
    BY <1>3, <2>2, MaxIs
  <2>4. HeldIn(m) \cup {0} = S \cup T
    BY <1>11
  <2> HIDE DEF S, T, g
  <2>5. Max({Max(S), Max(T)}) = Max(S \cup T)
    BY <2>2, MaxUnion, ZenonT(40)
  <2>6. QED
    BY <1>5, <2>1, <2>3, <2>4, <2>5
<1>14. g.min \in 0..UINT_MAX /\ g.max \in 0..UINT_MAX
  <2>1. HeldIn(m) \subseteq Samples
    BY DEF HeldIn
  <2> HIDE DEF g
  <2>2. QED
    BY <1>12, <1>13, <2>1, ExtremesType
<1>15. g \in HistogramType
  <2>1. g = [counts |-> g.counts, count |-> g.count, sum |-> g.sum, min |-> g.min, max |-> g.max]
    BY DEF Record
  <2> HIDE DEF g
  <2>2. QED
    BY <1>8, <1>9, <1>10, <1>14, <2>1 DEF HistogramType
<1> HIDE DEF g
<1>16. StandsFor(g, m)
  BY <1>2, <1>8, <1>9, <1>10, <1>12, <1>13, <1>15 DEF StandsFor
<1>17. QED
  BY <1>16 DEF g, m

\* merge() adds what the two histograms stand for.
LEMMA MergeStands ==
    ASSUME NEW h, NEW l, StandsFor(h, l), NEW o, NEW q, StandsFor(o, q)
    PROVE  StandsFor(Merge(h, o), [v \in Samples |-> l[v] + q[v]])
<1> DEFINE g == Merge(h, o)
           m == [v \in Samples |-> l[v] + q[v]]
           f == [x \in Samples |-> x * l[x]]
           d == [x \in Samples |-> x * q[x]]
           e == [x \in Samples |-> x * m[x]]
<1>1. l \in [Samples -> Nat] /\ h \in HistogramType /\ q \in [Samples -> Nat] /\ o \in HistogramType
  BY DEF StandsFor
<1>2. m \in [Samples -> Nat] /\ \A x \in Samples : m[x] = l[x] + q[x]
  BY <1>1
<1>3. IsFiniteSet(Samples)
  BY SamplesFinite
<1>4. /\ h.counts \in [Buckets -> Nat] /\ h.count \in Nat /\ h.sum \in Nat
      /\ o.counts \in [Buckets -> Nat] /\ o.count \in Nat /\ o.sum \in Nat
  BY <1>1 DEF HistogramType
<1>5. /\ g.counts = [i \in Buckets |-> h.counts[i] + o.counts[i]]
      /\ g.count = h.count + o.count /\ g.sum = Word(h.sum + o.sum)
      /\ g.min = Min({h.min, o.min}) /\ g.max = Max({h.max, o.max})
  BY DEF Merge
<1> HIDE DEF m
<1>6. ASSUME NEW T, T \subseteq Samples
      PROVE  SumFunctionOnSet(m, T) = SumFunctionOnSet(l, T) + SumFunctionOnSet(q, T)
  <2>1. IsFiniteSet(T) /\ \A y \in T : l[y] \in Nat /\ q[y] \in Nat /\ m[y] = l[y] + q[y]
    BY <1>1, <1>2, <1>6, SamplesFinite
  <2>2. QED
    BY <2>1, SumPlus
<1>7. g.counts \in [Buckets -> Nat] /\ \A i \in Buckets : g.counts[i] = SumFunctionOnSet(m, {x \in Samples : index_of(x) = i})
  <2>1. ASSUME NEW i \in Buckets
        PROVE  /\ g.counts[i] \in Nat
               /\ g.counts[i] = SumFunctionOnSet(m, {x \in Samples : index_of(x) = i})
    <3> DEFINE C == {x \in Samples : index_of(x) = i}
    <3>1. SumFunctionOnSet(m, C) = SumFunctionOnSet(l, C) + SumFunctionOnSet(q, C)
      BY <1>6
    <3>2. h.counts[i] = SumFunctionOnSet(l, C) /\ o.counts[i] = SumFunctionOnSet(q, C) /\ h.counts[i] \in Nat /\ o.counts[i] \in Nat
      BY <1>4 DEF StandsFor
    <3>3. g.counts[i] = h.counts[i] + o.counts[i]
      BY <1>5
    <3> HIDE DEF C, g
    <3>4. QED
      BY <3>1, <3>2, <3>3 DEF C
  <2>2. g.counts = [i \in Buckets |-> g.counts[i]]
    BY <1>4, <1>5
  <2> HIDE DEF g
  <2>3. QED
    BY <2>1, <2>2
<1>8. g.count = SumFunctionOnSet(m, Samples) /\ g.count \in Nat
  <2>1. h.count = SumFunctionOnSet(l, Samples) /\ o.count = SumFunctionOnSet(q, Samples)
    BY DEF StandsFor
  <2>2. SumFunctionOnSet(m, Samples) = SumFunctionOnSet(l, Samples) + SumFunctionOnSet(q, Samples)
    BY <1>6
  <2> HIDE DEF g
  <2>3. QED
    BY <1>4, <1>5, <2>1, <2>2
<1>9. g.sum = Word(SumFunctionOnSet(e, Samples)) /\ g.sum \in Nat
  <2>1. \A y \in Samples : y \in Nat /\ l[y] \in Nat /\ q[y] \in Nat
    BY <1>1, SamplesFinite
  <2>2. \A y \in Samples : f[y] = y * l[y] /\ d[y] = y * q[y] /\ f[y] \in Nat /\ d[y] \in Nat /\ e[y] = f[y] + d[y]
    <3>1. \A a, b, c \in Nat : a * (b + c) = a * b + a * c
      OBVIOUS
    <3>2. \A y \in Samples : e[y] = y * (l[y] + q[y])
      BY <1>2
    <3>3. QED
      BY <2>1, <3>1, <3>2
  <2>3. h.sum = Word(SumFunctionOnSet(f, Samples)) /\ o.sum = Word(SumFunctionOnSet(d, Samples))
    BY DEF StandsFor
  <2> HIDE DEF f, d, e, g
  <2> DEFINE a == SumFunctionOnSet(f, Samples)
             b == SumFunctionOnSet(d, Samples)
  <2>4. SumFunctionOnSet(e, Samples) = a + b /\ a \in Nat /\ b \in Nat
    BY <1>3, <2>2, SumPlus, SumType
  <2>5. h.sum = Word(a) /\ o.sum = Word(b)
    BY <2>3
  <2> HIDE DEF a, b
  <2>6. Word(Word(a) + Word(b)) = Word(a + b) /\ a + b \in Nat
    BY <2>4, WordAdd
  <2>7. \A c \in Nat : Word(c) \in Nat
    BY WordAdd
  <2>8. QED
    BY <1>5, <2>4, <2>5, <2>6, <2>7
<1>10. HeldIn(m) = HeldIn(l) \cup HeldIn(q) /\ HeldIn(l) \subseteq Samples /\ HeldIn(q) \subseteq Samples
  <2>1. \A x \in Samples : l[x] \in Nat /\ q[x] \in Nat
    BY <1>1
  <2>2. \A x \in Samples : m[x] > 0 <=> (l[x] > 0 \/ q[x] > 0)
    BY <1>2, <2>1
  <2>3. QED
    BY <2>2 DEF HeldIn
<1>11. g.min = Min(HeldIn(m) \cup {UINT_MAX})
  <2> DEFINE S == HeldIn(l) \cup {UINT_MAX}
             T == HeldIn(q) \cup {UINT_MAX}
  <2>1. h.min = Min(S) /\ o.min = Min(T)
    BY DEF StandsFor
  <2>2. S \subseteq Nat /\ T \subseteq Nat /\ S # {} /\ T # {}
    BY <1>10, ExtremesType
  <2>3. HeldIn(m) \cup {UINT_MAX} = S \cup T
    BY <1>10
  <2> HIDE DEF S, T, g
  <2>4. Min({Min(S), Min(T)}) = Min(S \cup T)
    BY <2>2, MinUnion
  <2>5. QED
    BY <1>5, <2>1, <2>3, <2>4
<1>12. g.max = Max(HeldIn(m) \cup {0})
  <2> DEFINE S == HeldIn(l) \cup {0}
             T == HeldIn(q) \cup {0}
  <2>1. h.max = Max(S) /\ o.max = Max(T)
    BY DEF StandsFor
  <2>2. S \subseteq 0..UINT_MAX /\ T \subseteq 0..UINT_MAX /\ S # {} /\ T # {} /\ UINT_MAX \in Nat
    BY <1>10, ExtremesType, Sizes
  <2>3. HeldIn(m) \cup {0} = S \cup T
    BY <1>10
  <2> HIDE DEF S, T, g
  <2>4. Max({Max(S), Max(T)}) = Max(S \cup T)
    BY <2>2, MaxUnion, ZenonT(40)
  <2>5. QED
    BY <1>5, <2>1, <2>3, <2>4
<1>13. g.min \in 0..UINT_MAX /\ g.max \in 0..UINT_MAX
  <2>1. HeldIn(m) \subseteq Samples
    BY DEF HeldIn
  <2> HIDE DEF g
  <2>2. QED
    BY <1>11, <1>12, <2>1, ExtremesType
<1>14. g \in HistogramType
  <2>1. g = [counts |-> g.counts, count |-> g.count, sum |-> g.sum, min |-> g.min, max |-> g.max]
    BY DEF Merge
  <2> HIDE DEF g
  <2>2. QED
    BY <1>7, <1>8, <1>9, <1>13, <2>1 DEF HistogramType
<1> HIDE DEF g
<1>15. StandsFor(g, m)
  BY <1>2, <1>7, <1>8, <1>9, <1>11, <1>12, <1>14 DEF StandsFor
<1>16. QED
  BY <1>15 DEF g, m

-----------------------------------------------------------------------------
(* The invariant. *)

\* Every histogram stands for the samples it was given.
HistogramInv ==
    /\ hist = [k \in Histograms |-> hist[k]]
    /\ log = [k \in Histograms |-> log[k]]
    /\ \A k \in Histograms : StandsFor(hist[k], log[k]) /\ hist[k].count <= MaxCount[k]

\* The invariant from what a step leaves in one histogram.
LEMMA OneChanges ==
    ASSUME HistogramInv, NEW k \in Histograms, NEW h, NEW l, StandsFor(h, l),
           h.count <= MaxCount[k],
           hist' = [hist EXCEPT ![k] = h], log' = [log EXCEPT ![k] = l]
    PROVE  HistogramInv'
<1>1. /\ hist' = [j \in Histograms |-> IF j = k THEN h ELSE hist[j]]
      /\ log' = [j \in Histograms |-> IF j = k THEN l ELSE log[j]]
  BY DEF HistogramInv
<1>2. ASSUME NEW j \in Histograms
      PROVE  StandsFor(hist'[j], log'[j]) /\ hist'[j].count <= MaxCount[j]
  <2>1. CASE j = k
    <3>1. hist'[j] = h /\ log'[j] = l
      BY <1>1, <2>1
    <3>2. QED
      BY <2>1, <3>1
  <2>2. CASE j # k
    <3>1. hist'[j] = hist[j] /\ log'[j] = log[j]
      BY <1>1, <2>2
    <3>2. QED
      BY <3>1 DEF HistogramInv
  <2>3. QED
    BY <2>1, <2>2
<1>3. hist' = [j \in Histograms |-> hist'[j]] /\ log' = [j \in Histograms |-> log'[j]]
  BY <1>1
<1>4. \A j \in Histograms : StandsFor(hist'[j], log'[j]) /\ hist'[j].count <= MaxCount[j]
  BY <1>2
<1>5. QED
  BY <1>3, <1>4 DEF HistogramInv

\* Every step keeps the invariant.
LEMMA HistogramStep ==
    ASSUME HistogramInv, [Next]_vars
    PROVE  HistogramInv'
<1>1. ASSUME NEW k \in Histograms, NEW v \in Samples, record(k, v)
      PROVE  HistogramInv'
  <2> DEFINE h == hist[k]
             l == log[k]
  <2>1. StandsFor(h, l)
    BY DEF HistogramInv
  <2>2. hist' = [hist EXCEPT ![k] = Record(h, v)] /\ log' = [log EXCEPT ![k] = [l EXCEPT ![v] = l[v] + 1]]
    BY <1>1 DEF record, HistogramInv
  <2> HIDE DEF h, l
  <2>3. StandsFor(Record(h, v), [l EXCEPT ![v] = l[v] + 1])
    BY <2>1, RecordStands
  <2>4. Record(h, v).count <= MaxCount[k]
    <3>1. Record(h, v).count = h.count + 1
      BY DEF Record
    <3>2. h.count < MaxCount[k]
      BY <1>1 DEF record, h
    <3>3. h.count \in Nat /\ MaxCount[k] \in Nat
      BY <2>1, PrecisionAssumption DEF StandsFor, HistogramType
    <3>4. QED
      BY <3>1, <3>2, <3>3
  <2>5. QED
    BY <2>2, <2>3, <2>4, OneChanges
<1>2. ASSUME NEW k \in Histograms, NEW other \in Histograms, merge(k, other)
      PROVE  HistogramInv'
  <2> DEFINE h == hist[k]
             l == log[k]
             o == hist[other]
             q == log[other]
  <2>1. StandsFor(h, l) /\ StandsFor(o, q)
    BY DEF HistogramInv
  <2>2. /\ hist' = [hist EXCEPT ![k] = Merge(h, o)]
        /\ log' = [log EXCEPT ![k] = [v \in Samples |-> l[v] + q[v]]]
    BY <1>2 DEF merge, HistogramInv
  <2> HIDE DEF h, l, o, q
  <2>3. StandsFor(Merge(h, o), [v \in Samples |-> l[v] + q[v]])
    BY <2>1, MergeStands
  <2>4. Merge(h, o).count <= MaxCount[k]
    BY <1>2 DEF merge, Merge, h, o
  <2>5. QED
    BY <2>2, <2>3, <2>4, OneChanges
<1>3. ASSUME NEW k \in Histograms, reset(k)
      PROVE  HistogramInv'
  <2>1. hist' = [hist EXCEPT ![k] = Empty] /\ log' = [log EXCEPT ![k] = NoSamples]
    BY <1>3 DEF reset
  <2>2. Empty.count <= MaxCount[k]
    BY PrecisionAssumption DEF Empty
  <2>3. QED
    BY <2>1, <2>2, EmptyStands, OneChanges
<1>4. CASE UNCHANGED vars
  BY <1>4 DEF vars, HistogramInv
<1>5. QED
  BY <1>1, <1>2, <1>3, <1>4, Zenon DEF Next

\* The invariant gives StandsForSamples.
LEMMA InvStands == HistogramInv => StandsForSamples
<1> SUFFICES ASSUME HistogramInv PROVE StandsForSamples
  OBVIOUS
<1>1. ASSUME NEW k \in Histograms
      PROVE  /\ \A i \in Buckets :
                  hist[k].counts[i] = SumFunctionOnSet(log[k], {v \in Samples : index_of(v) = i})
             /\ hist[k].count = UpTo(k, UINT_MAX)
             /\ hist[k].sum = Word(SumFunctionOnSet([v \in Samples |-> v * log[k][v]], Samples))
             /\ hist[k].min = Min(Held(k) \cup {UINT_MAX}) /\ hist[k].max = Max(Held(k) \cup {0})
  <2>1. StandsFor(hist[k], log[k])
    BY DEF HistogramInv
  <2>2. {u \in Samples : u <= UINT_MAX} = Samples
    <3>1. \A u \in Samples : u <= UINT_MAX
      BY SamplesFinite, Sizes
    <3>2. QED
      BY <3>1
  <2>3. UpTo(k, UINT_MAX) = SumFunctionOnSet(log[k], Samples)
    BY <2>2 DEF UpTo
  <2>4. Held(k) = HeldIn(log[k])
    BY DEF Held, HeldIn
  <2>5. QED
    BY <2>1, <2>3, <2>4 DEF StandsFor
<1>2. QED
  BY <1>1 DEF StandsForSamples

\* Whatever was recorded, merged (with itself too) and reset, a histogram is the
\* one that its samples recorded one by one would make: histogram.h's record(),
\* merge() and reset() keep all its members in step, also when sum_ overflows.
THEOREM AlwaysStandsForSamples == Spec => []StandsForSamples
<1>1. Init => HistogramInv
  <2>1. ASSUME Init PROVE HistogramInv
    <3>1. /\ hist = [k \in Histograms |-> Empty]
          /\ log = [k \in Histograms |-> NoSamples]
      BY <2>1 DEF Init
    <3>2. Empty.count = 0
      BY DEF Empty
    <3>3. QED
      BY <3>1, <3>2, EmptyStands, PrecisionAssumption DEF HistogramInv
  <2>2. QED
    BY <2>1
<1>2. HistogramInv /\ [Next]_vars => HistogramInv'
  BY HistogramStep
<1>3. QED
  BY <1>1, <1>2, InvStands, PTL DEF Spec

-----------------------------------------------------------------------------
(* Floating point. *)

\* The smallest mantissa, and twice as much.
Lowest == 2^(Precision - 1)
Beyond == 2^Precision

\* They are powers of two.
LEMMA Mantissas == Lowest \in Nat /\ Lowest >= 1 /\ Beyond = 2 * Lowest /\ Precision \in Nat /\ Precision >= 1
<1> DEFINE n == Precision - 1
<1>1. n \in Nat /\ Precision = n + 1
  BY PrecisionAssumption
<1> HIDE DEF n
<1>2. 2^n \in Nat /\ 2^n >= 1 /\ 2^(n + 1) = 2 * 2^n
  BY <1>1, PowerStep
<1>3. QED
  BY <1>1, <1>2 DEF Lowest, Beyond, n

\* What is rounded is off by half of a unit at most, and by nothing when it need
\* not be rounded.
LEMMA NearestIs ==
    ASSUME NEW n \in Nat, NEW d \in Nat, d >= 1
    PROVE  /\ Nearest(n, d) \in Nat
           /\ 2 * (Nearest(n, d) * d) <= 2 * n + d /\ 2 * n <= 2 * (Nearest(n, d) * d) + d
           /\ \A a \in Nat : n = a * d => Nearest(n, d) = a
<1>1. PICK a \in Nat, r \in 0..(d - 1) : n = a * d + r
  BY DivMod
<1>2. r \in Nat /\ r < d
  BY <1>1
<1>3. n \div d = a /\ n % d = r
  BY <1>1, <1>2, DivIs
<1> DEFINE up == 2 * r > d \/ (2 * r = d /\ a % 2 = 1)
           m == Nearest(n, d)
<1>4. m = IF up THEN a + 1 ELSE a
  BY <1>3, Zenon DEF Nearest
<1>5. (a + 1) * d = a * d + d /\ a * d \in Nat /\ (a + 1) * d \in Nat
  OBVIOUS
<1>6. CASE up
  <2>1. m = a + 1 /\ 2 * r >= d
    BY <1>2, <1>4, <1>6
  <2>2. m \in Nat /\ m * d = a * d + d
    BY <1>5, <2>1
  <2>3. \A b \in Nat : n # b * d
    <3>1. ASSUME NEW b \in Nat, n = b * d PROVE FALSE
      <4>1. (b * d + 0) % d = 0
        BY DivIs
      <4>2. b * d + 0 = n
        BY <3>1
      <4>3. r = 0
        BY <1>3, <4>1, <4>2
      <4>4. QED
        BY <2>1, <4>3
    <3>2. QED
      BY <3>1
  <2> HIDE DEF m, up
  <2> DEFINE x == a * d
             y == m * d
  <2>4. x \in Nat /\ y = x + d /\ n = x + r
    BY <1>1, <1>5, <2>2
  <2> HIDE DEF x, y
  <2>5. 2 * y <= 2 * n + d /\ 2 * n <= 2 * y + d
    BY <1>2, <2>1, <2>4
  <2>6. QED
    BY <2>2, <2>3, <2>5 DEF y, m
<1>7. CASE ~up
  <2>1. m = a /\ 2 * r <= d
    BY <1>2, <1>4, <1>7
  <2>2. \A b \in Nat : n = b * d => b = a
    <3>1. ASSUME NEW b \in Nat, n = b * d PROVE b = a
      <4>1. (b * d + 0) \div d = b
        BY DivIs
      <4>2. b * d + 0 = n
        BY <3>1
      <4>3. QED
        BY <1>3, <4>1, <4>2
    <3>2. QED
      BY <3>1
  <2> HIDE DEF m, up
  <2> DEFINE x == a * d
  <2>3. x \in Nat /\ m * d = x /\ n = x + r
    BY <1>1, <1>5, <2>1
  <2> HIDE DEF x
  <2>4. 2 * x <= 2 * n + d /\ 2 * n <= 2 * x + d
    BY <1>2, <2>1, <2>3
  <2>5. QED
    BY <2>1, <2>2, <2>3, <2>4 DEF m
<1>8. QED
  BY <1>6, <1>7

\* x / y lies between lo / u and hi / u.
Within(lo, hi, u, x, y) == lo * y <= u * x /\ u * x <= hi * y

\* Errors multiply.
LEMMA WithinChain ==
    ASSUME NEW lo \in Nat, NEW hi \in Nat, NEW u \in Nat,
           NEW lo2 \in Nat, NEW hi2 \in Nat, NEW u2 \in Nat,
           NEW x \in Nat, NEW y \in Nat, NEW z \in Nat,
           Within(lo, hi, u, x, y), Within(lo2, hi2, u2, y, z)
    PROVE  Within(lo * lo2, hi * hi2, u * u2, x, z)
<1>1. lo * y <= u * x /\ u * x <= hi * y /\ lo2 * z <= u2 * y /\ u2 * y <= hi2 * z
  BY DEF Within
<1>2. \A a, b, c \in Nat : a <= b => c * a <= c * b
  OBVIOUS
<1>3. lo * (lo2 * z) <= lo * (u2 * y) /\ hi * (u2 * y) <= hi * (hi2 * z)
  <2> DEFINE a == lo2 * z
             b == u2 * y
             c == hi2 * z
  <2>1. a \in Nat /\ b \in Nat /\ c \in Nat /\ a <= b /\ b <= c
    BY <1>1
  <2> HIDE DEF a, b, c
  <2>2. lo * a <= lo * b /\ hi * b <= hi * c
    BY <1>2, <2>1
  <2>3. QED
    BY <2>2 DEF a, b, c
<1>4. u2 * (lo * y) <= u2 * (u * x) /\ u2 * (u * x) <= u2 * (hi * y)
  <2> DEFINE a == lo * y
             b == u * x
             c == hi * y
  <2>1. a \in Nat /\ b \in Nat /\ c \in Nat /\ a <= b /\ b <= c
    BY <1>1
  <2> HIDE DEF a, b, c
  <2>2. u2 * a <= u2 * b /\ u2 * b <= u2 * c
    BY <1>2, <2>1
  <2>3. QED
    BY <2>2 DEF a, b, c
<1>5. \A a, b, c \in Nat : a * (b * c) = b * (a * c) /\ (a * b) * c = a * (b * c) /\ a * (b * c) \in Nat
  OBVIOUS
<1>6. /\ lo * (u2 * y) = u2 * (lo * y) /\ hi * (u2 * y) = u2 * (hi * y)
      /\ (lo * lo2) * z = lo * (lo2 * z) /\ (hi * hi2) * z = hi * (hi2 * z)
      /\ (u * u2) * x = u2 * (u * x)
      /\ lo * (lo2 * z) \in Nat /\ hi * (hi2 * z) \in Nat /\ u2 * (u * x) \in Nat
      /\ u2 * (lo * y) \in Nat /\ u2 * (hi * y) \in Nat
  BY <1>5
<1> DEFINE A == lo * (lo2 * z)
           B == u2 * (lo * y)
           C == u2 * (u * x)
           D == u2 * (hi * y)
           F == hi * (hi2 * z)
<1>7. /\ A \in Nat /\ B \in Nat /\ C \in Nat /\ D \in Nat /\ F \in Nat
      /\ A <= B /\ B <= C /\ C <= D /\ D <= F
      /\ (lo * lo2) * z = A /\ (hi * hi2) * z = F /\ (u * u2) * x = C
  BY <1>3, <1>4, <1>6
<1> HIDE DEF A, B, C, D, F
<1>8. A <= C /\ C <= F
  BY <1>7
<1>9. QED
  BY <1>7, <1>8 DEF Within

\* Both may be multiplied.
LEMMA WithinTimes ==
    ASSUME NEW lo \in Nat, NEW hi \in Nat, NEW u \in Nat, NEW x \in Nat, NEW y \in Nat,
           NEW s \in Nat, Within(lo, hi, u, x, y)
    PROVE  Within(lo, hi, u, x * s, y * s)
<1> DEFINE a == lo * y
           b == u * x
           c == hi * y
<1>1. a \in Nat /\ b \in Nat /\ c \in Nat /\ a <= b /\ b <= c
  BY DEF Within
<1>2. \A d, f, g \in Nat : d * (f * g) = (d * f) * g
  OBVIOUS
<1>3. lo * (y * s) = a * s /\ u * (x * s) = b * s /\ hi * (y * s) = c * s
  BY <1>2
<1> HIDE DEF a, b, c
<1>4. \A d, f, g \in Nat : d <= f => d * g <= f * g
  OBVIOUS
<1>5. a * s <= b * s /\ b * s <= c * s
  BY <1>1, <1>4
<1>6. QED
  BY <1>3, <1>5 DEF Within

\* And divided.
LEMMA WithinCancel ==
    ASSUME NEW lo \in Nat, NEW hi \in Nat, NEW u \in Nat, NEW x \in Nat, NEW y \in Nat,
           NEW s \in Nat, s >= 1, Within(lo, hi, u, x * s, y * s)
    PROVE  Within(lo, hi, u, x, y)
<1> DEFINE a == lo * y
           b == u * x
           c == hi * y
<1>2. \A d, f, g \in Nat : d * (f * g) = (d * f) * g
  OBVIOUS
<1>3. lo * (y * s) = a * s /\ u * (x * s) = b * s /\ hi * (y * s) = c * s
  BY <1>2
<1>1. a \in Nat /\ b \in Nat /\ c \in Nat
  OBVIOUS
<1>4. a * s <= b * s /\ b * s <= c * s
  BY <1>3 DEF Within
<1> HIDE DEF a, b, c
<1>5. \A d, f \in Nat : d * s <= f * s => d <= f
  <2>1. ASSUME NEW d \in Nat, NEW f \in Nat, d * s <= f * s, d >= f + 1 PROVE FALSE
    <3>1. d * s >= (f + 1) * s
      BY <2>1
    <3>2. (f + 1) * s = f * s + s /\ f * s \in Nat
      OBVIOUS
    <3>3. QED
      BY <2>1, <3>1, <3>2
  <2>2. QED
    BY <2>1
<1>6. a <= b /\ b <= c
  BY <1>1, <1>4, <1>5
<1>7. QED
  BY <1>6 DEF Within, a, b, c

\* A quotient of Precision bits or more is rounded by one part in Beyond at most.
LEMMA NearestWithin ==
    ASSUME NEW n \in Nat, NEW d \in Nat, d >= 1, Lowest * d <= n
    PROVE  Within(Beyond - 1, Beyond + 1, Beyond, Nearest(n, d) * d, n)
<1> DEFINE B == Lowest
           y == Nearest(n, d) * d
<1>1. B \in Nat /\ B >= 1 /\ Beyond = 2 * B
  BY Mantissas
<1>2. y \in Nat /\ 2 * y <= 2 * n + d /\ 2 * n <= 2 * y + d
  <2> DEFINE m == Nearest(n, d)
  <2>1. m \in Nat /\ 2 * (m * d) <= 2 * n + d /\ 2 * n <= 2 * (m * d) + d
    BY NearestIs, Zenon
  <2> HIDE DEF m
  <2>2. m * d \in Nat
    BY <2>1
  <2>3. QED
    BY <2>1, <2>2 DEF m
<1>3. B * d <= n /\ B * d \in Nat
  BY <1>1
<1> HIDE DEF B, y
<1>4. \A a, b \in Nat : a <= b => B * a <= B * b
  BY <1>1
<1>5. B * (2 * y) <= B * (2 * n + d) /\ B * (2 * n) <= B * (2 * y + d)
  <2>1. 2 * y \in Nat /\ 2 * n + d \in Nat /\ 2 * n \in Nat /\ 2 * y + d \in Nat
    BY <1>2
  <2>2. QED
    BY <1>2, <1>4, <2>1
<1>6. /\ B * (2 * y) = 2 * (B * y) /\ B * (2 * n) = 2 * (B * n)
      /\ B * (2 * n + d) = 2 * (B * n) + B * d /\ B * (2 * y + d) = 2 * (B * y) + B * d
      /\ (2 * B) * y = 2 * (B * y) /\ (2 * B + 1) * n = 2 * (B * n) + n
      /\ (2 * B - 1) * n = 2 * (B * n) - n
      /\ B * y \in Nat /\ B * n \in Nat
  BY <1>1, <1>2
<1>7. (2 * B - 1) * n <= (2 * B) * y /\ (2 * B) * y <= (2 * B + 1) * n
  BY <1>3, <1>5, <1>6
<1>8. QED
  BY <1>1, <1>7 DEF Within, y

\* Between x and what is large enough there is a scale.
LEMMA ScaleExists ==
    ASSUME NEW B \in Nat, NEW x \in Nat, NEW K \in Nat, x < 2 * B, B <= x * 2^K
    PROVE  \E k \in 0..K : B <= x * 2^k /\ x * 2^k < 2 * B
<1> DEFINE T == {k \in 0..K : B <= x * 2^k}
<1>1. PICK k \in T : \A j \in T : k <= j
  <2>1. T \subseteq Nat /\ K \in T
    OBVIOUS
  <2> HIDE DEF T
  <2>2. QED
    BY <2>1, LeastNat
<1>2. k \in 0..K /\ k \in Nat /\ B <= x * 2^k
  BY <1>1
<1>3. CASE k = 0
  <2>1. x * 2^k = x
    BY <1>3, PowerStep
  <2>2. QED
    BY <1>2, <2>1
<1>4. CASE k # 0
  <2> DEFINE j == k - 1
             w == 2^j
  <2>1. j \in Nat /\ j \in 0..K /\ k = j + 1 /\ j < k
    BY <1>2, <1>4
  <2>2. ~(B <= x * w)
    BY <1>1, <1>2, <2>1
  <2> HIDE DEF j
  <2>3. w \in Nat /\ 2^k = 2 * w
    BY <2>1, PowerStep
  <2> HIDE DEF w
  <2>4. x * (2 * w) = 2 * (x * w) /\ x * w \in Nat
    BY <2>3
  <2>5. x * 2^k < 2 * B
    BY <2>2, <2>3, <2>4
  <2>6. QED
    BY <1>2, <2>5
<1>5. QED
  BY <1>3, <1>4

\* Division by d: the mantissa is scaled to Precision bits and rounded.
LEMMA DividedIs ==
    ASSUME NEW a \in Nat, NEW e \in Nat, NEW d \in Nat,
           a < Beyond * d, Lowest * d <= a * 2^(Precision + 3)
    PROVE  \E k \in 0..(Precision + 3) :
             /\ Divided([m |-> a, e |-> e], d) = [m |-> Nearest(a * 2^k, d), e |-> e + k]
             /\ Lowest * d <= a * 2^k /\ a * 2^k < Beyond * d
<1> DEFINE P(k) == 2^(Precision - 1) * d <= a * 2^k /\ a * 2^k < 2^Precision * d
           c == CHOOSE k \in 0..(Precision + 3) : P(k)
           x == [m |-> a, e |-> e]
<1>1. \E k \in 0..(Precision + 3) : P(k)
  <2> DEFINE B == Lowest * d
             K == Precision + 3
  <2>1. B \in Nat /\ K \in Nat /\ Beyond * d = 2 * B
    BY Mantissas
  <2>2. a < 2 * B /\ B <= a * 2^K
    BY <2>1
  <2> HIDE DEF B, K
  <2>3. \E k \in 0..K : B <= a * 2^k /\ a * 2^k < 2 * B
    BY <2>1, <2>2, ScaleExists
  <2>4. QED
    BY <2>1, <2>3 DEF B, K, Lowest, Beyond
<1> HIDE DEF P
<1>2. c \in 0..(Precision + 3) /\ P(c)
  BY <1>1
<1>3. Divided(x, d) = [m |-> Nearest(a * 2^c, d), e |-> e + c]
  BY DEF Divided, P
<1> HIDE DEF c
<1>4. QED
  BY <1>2, <1>3 DEF P, Lowest, Beyond

\* Multiplication by n: bits beyond Precision are rounded away.
LEMMA MultipliedIs ==
    ASSUME NEW a \in Nat, NEW e \in Nat, NEW n \in Nat, a * n < Beyond * 2^e
    PROVE  \E k \in 0..e :
             /\ Multiplied([m |-> a, e |-> e], n) = [m |-> Nearest(a * n, 2^k), e |-> e - k]
             /\ k = 0 \/ Lowest * 2^k <= a * n
<1> DEFINE y == a * n
           P(k) == y < 2^(Precision + k) /\ (k = 0 \/ 2^(Precision + k - 1) <= y)
           c == CHOOSE k \in 0..e : P(k)
           x == [m |-> a, e |-> e]
<1>1. y \in Nat
  OBVIOUS
<1>2. \A k \in Nat : 2^(Precision + k) = Beyond * 2^k /\ 2^(Precision + k - 1) = Lowest * 2^k
  <2>1. ASSUME NEW k \in Nat
        PROVE  2^(Precision + k) = Beyond * 2^k /\ 2^(Precision + k - 1) = Lowest * 2^k
    <3> DEFINE q == Precision - 1
    <3>1. q \in Nat /\ Precision \in Nat /\ Precision + k - 1 = q + k
      BY Mantissas
    <3> HIDE DEF q
    <3>2. 2^(Precision + k) = 2^Precision * 2^k /\ 2^(q + k) = 2^q * 2^k
      BY <3>1, PowerAdd
    <3>3. QED
      BY <3>1, <3>2 DEF Lowest, Beyond, q
  <2>2. QED
    BY <2>1
<1> HIDE DEF y
<1>3. \E k \in 0..e : P(k)
  <2> DEFINE T == {k \in 0..e : y < 2^(Precision + k)}
  <2>1. T \subseteq Nat /\ e \in T
    BY <1>2 DEF y
  <2> HIDE DEF T
  <2>2. PICK k \in T : \A j \in T : k <= j
    BY <2>1, LeastNat
  <2>3. k \in 0..e /\ y < 2^(Precision + k)
    BY <2>2 DEF T
  <2>4. CASE k = 0
    BY <2>3, <2>4
  <2>5. CASE k # 0
    <3> DEFINE j == k - 1
    <3>1. j \in 0..e /\ j < k /\ Precision + k - 1 = Precision + j /\ j \in Nat
      BY <2>3, <2>5, Mantissas
    <3>2. ~(y < 2^(Precision + j))
      BY <2>2, <2>3, <3>1 DEF T
    <3> HIDE DEF j
    <3>3. 2^(Precision + j) \in Nat
      BY <3>1, PowerStep, Mantissas
    <3>4. 2^(Precision + k - 1) <= y
      BY <1>1, <3>1, <3>2, <3>3
    <3>5. QED
      BY <2>3, <3>4
  <2>6. QED
    BY <2>4, <2>5
<1>4. c \in 0..e /\ P(c)
  <2> HIDE DEF P
  <2>1. QED
    BY <1>3
<1>5. Multiplied(x, n) = [m |-> Nearest(y, 2^c), e |-> e - c]
  BY DEF Multiplied, y
<1> HIDE DEF c
<1>6. c = 0 \/ Lowest * 2^c <= y
  <2>1. c \in Nat
    BY <1>4
  <2>2. QED
    BY <1>2, <1>4, <2>1
<1>7. QED
  BY <1>4, <1>5, <1>6 DEF y

\* Three roundings move a number by less than E.
LEMMA ThreeRoundings ==
    ASSUME NEW U \in Nat, U >= 4, NEW X \in Nat, NEW Y \in Nat, NEW E \in Nat, 4 * Y < U * E,
           NEW L, L = U - 1, NEW H, H = U + 1,
           Within(L * (L * L), H * (H * H), U * (U * U), X, Y)
    PROVE  X < Y + E /\ Y < X + E
<1> DEFINE V == U * U
           W == U * V
<1>1. V \in Nat /\ W \in Nat /\ V >= 4 * U /\ V >= 1
  BY SMTT(20)
<1>2. H * (H * H) = W + 3 * V + 3 * U + 1 /\ L * (L * L) = W - 3 * V + 3 * U - 1
  BY SMTT(20)
<1>3. L \in Nat /\ H \in Nat /\ L * (L * L) \in Nat /\ H * (H * H) \in Nat
  OBVIOUS
<1> DEFINE lo == L * (L * L)
           hi == H * (H * H)
<1>4. lo \in Nat /\ hi \in Nat /\ hi <= W + 4 * V /\ W <= lo + 4 * V
  BY <1>1, <1>2, <1>3
<1>5. lo * Y <= W * X /\ W * X <= hi * Y
  BY DEF Within
<1>6. W * X = V * (U * X) /\ W * Y = V * (U * Y)
  BY SMTT(20)
<1> HIDE DEF lo, hi, W
<1>7. hi * Y <= (W + 4 * V) * Y /\ W * Y <= (lo + 4 * V) * Y
  BY <1>1, <1>4
<1> HIDE DEF V
<1>8. /\ (W + 4 * V) * Y = W * Y + V * (4 * Y) /\ (lo + 4 * V) * Y = lo * Y + V * (4 * Y)
      /\ W * Y \in Nat /\ lo * Y \in Nat /\ hi * Y \in Nat /\ W * X \in Nat /\ V * (4 * Y) \in Nat
  BY <1>1, <1>4
<1>9. V * (U * X) <= V * (U * Y) + V * (4 * Y) /\ V * (U * Y) <= V * (U * X) + V * (4 * Y)
  BY <1>5, <1>6, <1>7, <1>8
<1> DEFINE a == U * X
           b == U * Y
           c == 4 * Y
           d == U * E
<1>10. a \in Nat /\ b \in Nat /\ c \in Nat /\ d \in Nat /\ c < d
  OBVIOUS
<1>11. V * a <= V * b + V * c /\ V * b <= V * a + V * c
  BY <1>9
<1>12. b + d = U * (Y + E) /\ a + d = U * (X + E)
  OBVIOUS
<1> HIDE DEF a, b, c, d
<1>13. \A x, y \in Nat : V * x <= V * y => x <= y
  <2>1. ASSUME NEW x \in Nat, NEW y \in Nat, V * x <= V * y, x >= y + 1 PROVE FALSE
    <3>1. V * x >= V * (y + 1)
      BY <1>1, <2>1
    <3>2. V * (y + 1) = V * y + V /\ V * y \in Nat
      BY <1>1
    <3>3. QED
      BY <1>1, <2>1, <3>1, <3>2
  <2>2. QED
    BY <2>1
<1>14. V * (b + c) = V * b + V * c /\ V * (a + c) = V * a + V * c
  BY <1>1, <1>10
<1>15. a <= b + c /\ b <= a + c
  <2>1. b + c \in Nat /\ a + c \in Nat /\ V * a <= V * (b + c) /\ V * b <= V * (a + c)
    BY <1>10, <1>11, <1>14
  <2>2. QED
    BY <1>10, <1>13, <2>1
<1>16. a < b + d /\ b < a + d
  BY <1>10, <1>15
<1>17. \A x, y \in Nat : U * x < U * y => x < y
  OBVIOUS
<1>18. U * X < U * (Y + E) /\ U * Y < U * (X + E)
  BY <1>12, <1>16 DEF a, b
<1>19. QED
  BY <1>17, <1>18

\* A share, in tenths of a percent, and the samples it is taken of.
IsShare(q, c) == q \in 1..1000 /\ c \in Nat /\ c >= 1 /\ 4000 * c < Beyond

\* The target of percentile() is less than one part in a thousand away from the
\* number of samples that the share stands for, and for eighths it is that number.
LEMMA TargetNear ==
    ASSUME NEW q, NEW c, IsShare(q, c), NEW goal, goal = target(q, c)
    PROVE  /\ goal.m \in Nat /\ goal.e \in Nat
           /\ 1000 * goal.m < q * c * 2^goal.e + 2^goal.e
           /\ q * c * 2^goal.e < 1000 * goal.m + 2^goal.e
           /\ q % 125 = 0 => 1000 * goal.m = q * c * 2^goal.e
<1> DEFINE U == Beyond
           B == Lowest
           L == U - 1
           H == U + 1
           top == 2^(Precision + 3)
<1>0. q \in 1..1000 /\ q \in Nat /\ c \in Nat /\ c >= 1 /\ 4000 * c < Beyond
  BY DEF IsShare
<1>28. goal = Multiplied(Divided(Divided([m |-> q, e |-> 0], 10), 100), c)
  <2>1. Min({q, 1000}) = q
    <3>1. {q, 1000} \subseteq Int /\ q \in {q, 1000} /\ \A y \in {q, 1000} : q <= y
      BY <1>0
    <3>2. QED
      BY <3>1, MinIs
  <2>2. Max({0, q}) = q
    <3>1. {0, q} \subseteq Int /\ q \in {0, q} /\ \A y \in {0, q} : q >= y
      BY <1>0
    <3>2. QED
      BY <3>1, MaxIs
  <2>3. q # 0
    BY <1>0
  <2>4. QED
    BY <2>1, <2>2, <2>3 DEF target
<1>1. B \in Nat /\ U = 2 * B /\ U \in Nat /\ U > 4000 /\ L \in Nat /\ H \in Nat /\ Precision + 3 \in Nat
  BY <1>0, Mantissas
<1>2. top = 8 * U
  <2>1. 2^(Precision + 3) = 2^Precision * 2^3
    <3>1. \A n \in Nat : 2^(Precision + n) = 2^Precision * 2^n
      BY Mantissas, PowerAdd, Zenon
    <3>2. QED
      BY <3>1
  <2>2. 2^3 = 8
    BY PowerStep
  <2>3. QED
    BY <1>1, <2>1, <2>2 DEF Beyond
<1> HIDE DEF U, B, L, H, top
<1>3. PICK k1 \in 0..(Precision + 3) :
        /\ Divided([m |-> q, e |-> 0], 10) = [m |-> Nearest(q * 2^k1, 10), e |-> 0 + k1]
        /\ Lowest * 10 <= q * 2^k1 /\ q * 2^k1 < Beyond * 10
  <2>1. q < U * 10 /\ B * 10 <= q * top
    BY <1>0, <1>1, <1>2
  <2> DEFINE d == 10
             Q(k) == /\ Divided([m |-> q, e |-> 0], d) = [m |-> Nearest(q * 2^k, d), e |-> 0 + k]
                     /\ Lowest * d <= q * 2^k /\ q * 2^k < Beyond * d
  <2>2. /\ q \in Nat /\ 0 \in Nat /\ d \in Nat
        /\ q < Beyond * d /\ Lowest * d <= q * 2^(Precision + 3)
    BY <1>0, <2>1 DEF U, B, top
  <2> HIDE DEF d
  <2>3. \E k \in 0..(Precision + 3) : Q(k)
    BY <2>2, DividedIs, Zenon
  <2>4. QED
    BY <2>3 DEF d
<1> DEFINE E1 == 2^k1
           n1 == q * E1
           m1 == Nearest(n1, 10)
<1>4. k1 \in Nat /\ E1 \in Nat /\ E1 >= 1 /\ n1 \in Nat /\ n1 >= 1 /\ B * 10 <= n1 /\ n1 < U * 10
  <2>1. k1 \in Nat
    BY <1>1, <1>3
  <2>2. E1 \in Nat /\ E1 >= 1
    BY <2>1, PowerStep
  <2>3. B * 10 <= n1 /\ n1 < U * 10
    BY <1>3 DEF U, B
  <2> HIDE DEF E1
  <2>4. n1 \in Nat /\ n1 >= 1
    BY <1>0, <2>2
  <2>5. QED
    BY <2>1, <2>2, <2>3, <2>4
<1> HIDE DEF E1
<1>5. /\ m1 \in Nat /\ 2 * (m1 * 10) <= 2 * n1 + 10 /\ 2 * n1 <= 2 * (m1 * 10) + 10
      /\ \A a \in Nat : n1 = a * 10 => m1 = a
  <2> HIDE DEF n1
  <2>1. QED
    BY <1>4, NearestIs
<1>6. Within(L, H, U, m1 * 10, n1)
  <2> HIDE DEF n1
  <2>1. QED
    BY <1>4, NearestWithin DEF B, L, H, U
<1>7. Divided([m |-> q, e |-> 0], 10) = [m |-> m1, e |-> k1]
  BY <1>3, <1>4 DEF E1
<1> HIDE DEF n1, m1
<1>8. m1 >= B /\ m1 <= U
  BY <1>1, <1>4, <1>5
<1>9. PICK k2 \in 0..(Precision + 3) :
        /\ Divided([m |-> m1, e |-> k1], 100) = [m |-> Nearest(m1 * 2^k2, 100), e |-> k1 + k2]
        /\ Lowest * 100 <= m1 * 2^k2 /\ m1 * 2^k2 < Beyond * 100
  <2>1. m1 < U * 100
    BY <1>1, <1>5, <1>8
  <2>2. B * 100 <= m1 * top
    <3>1. top >= 100 /\ top \in Nat
      BY <1>1, <1>2
    <3>2. \A a, b \in Nat : a >= 100 => b * 100 <= b * a
      OBVIOUS
    <3>3. m1 * 100 <= m1 * top
      BY <1>5, <3>1, <3>2
    <3>4. m1 * top \in Nat
      BY <1>5, <3>1
    <3>5. QED
      BY <1>1, <1>5, <1>8, <3>3, <3>4
  <2> DEFINE d == 100
             Q(k) == /\ Divided([m |-> m1, e |-> k1], d) = [m |-> Nearest(m1 * 2^k, d), e |-> k1 + k]
                     /\ Lowest * d <= m1 * 2^k /\ m1 * 2^k < Beyond * d
  <2>3. /\ m1 \in Nat /\ k1 \in Nat /\ d \in Nat
        /\ m1 < Beyond * d /\ Lowest * d <= m1 * 2^(Precision + 3)
    BY <1>4, <1>5, <2>1, <2>2 DEF U, B, top
  <2> HIDE DEF d
  <2>4. \E k \in 0..(Precision + 3) : Q(k)
    BY <2>3, DividedIs, Zenon
  <2>5. QED
    BY <2>4 DEF d
<1> DEFINE K2 == 2^k2
           n2 == m1 * K2
           m2 == Nearest(n2, 100)
           e2 == k1 + k2
           E2 == 2^e2
<1>10. /\ k2 \in Nat /\ e2 \in Nat /\ K2 \in Nat /\ K2 >= 1 /\ n2 \in Nat /\ B * 100 <= n2
       /\ E2 \in Nat /\ E2 >= 1 /\ E2 = E1 * K2
  <2>1. k2 \in Nat /\ e2 \in Nat
    BY <1>1, <1>4, <1>9
  <2>2. K2 \in Nat /\ K2 >= 1 /\ E2 \in Nat /\ E2 >= 1
    BY <2>1, PowerStep
  <2>3. B * 100 <= n2
    BY <1>9 DEF B
  <2>4. E2 = E1 * K2
    BY <1>4, <2>1, PowerAdd DEF E1
  <2> HIDE DEF K2
  <2>5. n2 \in Nat
    BY <1>5, <2>2
  <2>6. QED
    BY <2>1, <2>2, <2>3, <2>4, <2>5
<1> HIDE DEF K2, E2
<1>11. m2 \in Nat /\ \A a \in Nat : n2 = a * 100 => m2 = a
  <2> HIDE DEF n2
  <2>1. QED
    BY <1>10, NearestIs
<1>12. Within(L, H, U, m2 * 100, n2)
  <2> HIDE DEF n2
  <2>1. QED
    BY <1>10, NearestWithin DEF B, L, H, U
<1>13. Divided([m |-> m1, e |-> k1], 100) = [m |-> m2, e |-> e2]
  BY <1>9 DEF K2
<1> HIDE DEF m2, e2
<1>14. Within(L * L, H * H, U * U, m2 * 1000, q * E2)
  <2>1. Within(L, H, U, (m1 * 10) * K2, n1 * K2)
    <3> DEFINE a == m1 * 10
    <3>1. /\ a \in Nat /\ n1 \in Nat /\ K2 \in Nat /\ L \in Nat /\ H \in Nat /\ U \in Nat
          /\ Within(L, H, U, a, n1)
      BY <1>1, <1>4, <1>5, <1>6, <1>10
    <3> HIDE DEF a
    <3>2. Within(L, H, U, a * K2, n1 * K2)
      BY <3>1, WithinTimes, Zenon
    <3>3. QED
      BY <3>2 DEF a
  <2>2. Within(L, H, U, (m2 * 100) * 10, n2 * 10)
    <3> DEFINE a == m2 * 100
               t == 10
    <3>1. /\ a \in Nat /\ n2 \in Nat /\ t \in Nat /\ L \in Nat /\ H \in Nat /\ U \in Nat
          /\ Within(L, H, U, a, n2)
      BY <1>1, <1>10, <1>11, <1>12
    <3> HIDE DEF a, n2, t
    <3>2. Within(L, H, U, a * t, n2 * t)
      BY <3>1, WithinTimes, Zenon
    <3>3. QED
      BY <3>2 DEF a, t
  <2>3. (m2 * 100) * 10 = m2 * 1000 /\ m2 * 1000 \in Nat
    BY <1>11
  <2>4. n2 * 10 = (m1 * 10) * K2 /\ n2 * 10 \in Nat
    BY <1>5, <1>10 DEF n2
  <2>5. n1 * K2 = q * E2 /\ q * E2 \in Nat
    BY <1>0, <1>4, <1>10 DEF n1
  <2> DEFINE x == m2 * 1000
             y == n2 * 10
             z == q * E2
  <2>6. /\ x \in Nat /\ y \in Nat /\ z \in Nat /\ L \in Nat /\ H \in Nat /\ U \in Nat
        /\ Within(L, H, U, x, y) /\ Within(L, H, U, y, z)
    BY <1>1, <2>1, <2>2, <2>3, <2>4, <2>5
  <2> HIDE DEF x, y, z
  <2>7. Within(L * L, H * H, U * U, x, z)
    BY <2>6, WithinChain, Zenon
  <2>8. QED
    BY <2>7 DEF x, z
<1>15. m2 * c < U * E2
  <2> DEFINE V == U * U
             z == q * E2
  <2>1. V * (m2 * 1000) <= (H * H) * z
    BY <1>14 DEF Within
  <2>2. H * H <= 2 * V /\ V \in Nat /\ V >= 1 /\ H * H \in Nat
    BY <1>1, SMTT(20) DEF H
  <2>3. z \in Nat /\ z <= 1000 * E2
    BY <1>0, <1>10
  <2> HIDE DEF V, z
  <2> DEFINE G == H * H
  <2>4. G \in Nat /\ G <= 2 * V
    BY <2>2
  <2> HIDE DEF G
  <2>5. G * z <= (2 * V) * (1000 * E2)
    <3>1. G * z <= (2 * V) * z
      BY <2>2, <2>3, <2>4
    <3>2. (2 * V) * z <= (2 * V) * (1000 * E2)
      <4> DEFINE a == 2 * V
                 b == 1000 * E2
      <4>1. a \in Nat /\ b \in Nat /\ z <= b
        BY <1>10, <2>2, <2>3
      <4> HIDE DEF a, b
      <4>2. a * z <= a * b
        BY <2>3, <4>1
      <4>3. QED
        BY <4>2 DEF a, b
    <3>3. G * z \in Nat /\ (2 * V) * z \in Nat /\ (2 * V) * (1000 * E2) \in Nat
      BY <1>10, <2>2, <2>3, <2>4
    <3>4. QED
      BY <3>1, <3>2, <3>3
  <2>6. (2 * V) * (1000 * E2) = V * (2000 * E2) /\ V * (m2 * 1000) \in Nat /\ V * (2000 * E2) \in Nat /\ G * z \in Nat
    BY <1>10, <1>11, <2>2, <2>3, <2>4
  <2>7. V * (m2 * 1000) <= V * (2000 * E2)
    BY <2>1, <2>5, <2>6 DEF G
  <2>8. \A x, y \in Nat : V * x <= V * y => x <= y
    <3>1. ASSUME NEW x \in Nat, NEW y \in Nat, V * x <= V * y, x >= y + 1 PROVE FALSE
      <4>1. V * x >= V * (y + 1)
        BY <2>2, <3>1
      <4>2. V * (y + 1) = V * y + V /\ V * y \in Nat
        BY <2>2
      <4>3. QED
        BY <2>2, <3>1, <4>1, <4>2
    <3>2. QED
      BY <3>1
  <2>9. m2 * 1000 <= 2000 * E2
    <3> DEFINE x == m2 * 1000
               y == 2000 * E2
    <3>1. x \in Nat /\ y \in Nat /\ V * x <= V * y
      BY <1>10, <1>11, <2>7
    <3> HIDE DEF x, y
    <3>2. x <= y
      BY <2>8, <3>1
    <3>3. QED
      BY <3>2 DEF x, y
  <2>10. m2 <= 2 * E2
    BY <1>10, <1>11, <2>9
  <2>11. m2 * c <= (2 * E2) * c /\ (2 * E2) * c = (2 * c) * E2 /\ m2 * c \in Nat /\ (2 * c) * E2 \in Nat
    BY <1>0, <1>10, <1>11, <2>10
  <2>12. (2 * c) * E2 < U * E2
    <3> DEFINE a == 2 * c
    <3>1. a \in Nat /\ a < U
      BY <1>0, <1>1 DEF U
    <3> HIDE DEF a
    <3>2. a * E2 < U * E2
      BY <1>1, <1>10, <3>1
    <3>3. QED
      BY <3>2 DEF a
  <2>13. U * E2 \in Nat
    BY <1>1, <1>10
  <2>14. QED
    BY <2>11, <2>12, <2>13
<1>16. PICK k \in 0..e2 :
         /\ Multiplied([m |-> m2, e |-> e2], c) = [m |-> Nearest(m2 * c, 2^k), e |-> e2 - k]
         /\ k = 0 \/ Lowest * 2^k <= m2 * c
  BY <1>0, <1>10, <1>11, <1>15, MultipliedIs DEF U, E2
<1> DEFINE K3 == 2^k
           e3 == e2 - k
           E3 == 2^e3
           n3 == m2 * c
           m3 == Nearest(n3, K3)
<1>17. goal = [m |-> m3, e |-> e3]
  BY <1>7, <1>13, <1>16, <1>28
<1>18. /\ k \in Nat /\ e3 \in Nat /\ K3 \in Nat /\ K3 >= 1 /\ E3 \in Nat /\ E3 >= 1
       /\ E2 = E3 * K3 /\ n3 \in Nat
  <2>1. k \in Nat /\ e3 \in Nat /\ e2 = e3 + k
    BY <1>10, <1>16
  <2>2. K3 \in Nat /\ K3 >= 1 /\ E3 \in Nat /\ E3 >= 1
    BY <2>1, PowerStep
  <2> HIDE DEF e3
  <2>3. 2^(e3 + k) = 2^e3 * 2^k
    BY <2>1, PowerAdd
  <2>4. E2 = E3 * K3
    BY <2>1, <2>3 DEF E2
  <2>5. n3 \in Nat
    BY <1>0, <1>11
  <2>6. QED
    BY <2>1, <2>2, <2>4, <2>5 DEF e3
<1>19. m3 \in Nat /\ \A a \in Nat : n3 = a * K3 => m3 = a
  <2>1. n3 \in Nat /\ K3 \in Nat /\ K3 >= 1
    BY <1>18
  <2> HIDE DEF n3, K3
  <2>2. QED
    BY <2>1, NearestIs, Zenon
<1>20. Within(L, H, U, m3 * K3, n3)
  <2>1. CASE k = 0
    <3>1. K3 = 1
      BY <2>1, PowerStep
    <3> HIDE DEF n3, K3
    <3>2. n3 = n3 * K3
      BY <1>18, <3>1
    <3>3. m3 = n3
      BY <1>18, <1>19, <3>2
    <3> HIDE DEF m3
    <3>4. m3 * K3 = n3
      BY <1>18, <3>1, <3>3
    <3>5. (U - 1) * n3 = U * n3 - n3 /\ (U + 1) * n3 = U * n3 + n3 /\ U * n3 \in Nat
      BY <1>1, <1>18
    <3>6. QED
      BY <1>18, <3>4, <3>5 DEF Within, L, H
  <2>2. CASE Lowest * 2^k <= m2 * c
    <3>1. Lowest * K3 <= n3
      BY <2>2
    <3> HIDE DEF n3, K3
    <3>2. QED
      BY <1>18, <3>1, NearestWithin DEF L, H, U
  <2>3. QED
    BY <1>16, <2>1, <2>2
<1> HIDE DEF K3, e3, E3, n3, m3
<1> DEFINE X == 1000 * m3
           Y == q * c * E3
<1>21. X \in Nat /\ Y \in Nat
  BY <1>0, <1>18, <1>19
<1>22. Within(L * (L * L), H * (H * H), U * (U * U), X, Y)
  <2>1. Within(L * L, H * H, U * U, (m2 * 1000) * c, (q * E2) * c)
    <3> DEFINE a == m2 * 1000
               b == q * E2
               l == L * L
               h == H * H
               u == U * U
    <3>1. a \in Nat /\ b \in Nat /\ c \in Nat /\ l \in Nat /\ h \in Nat /\ u \in Nat /\ Within(l, h, u, a, b)
      BY <1>0, <1>1, <1>10, <1>11, <1>14
    <3> HIDE DEF a, b, l, h, u
    <3>2. Within(l, h, u, a * c, b * c)
      BY <3>1, WithinTimes, Zenon
    <3>3. QED
      BY <3>2 DEF a, b, l, h, u
  <2>2. Within(L, H, U, (m3 * K3) * 1000, n3 * 1000)
    <3> DEFINE a == m3 * K3
               t == 1000
    <3>1. /\ a \in Nat /\ n3 \in Nat /\ t \in Nat /\ L \in Nat /\ H \in Nat /\ U \in Nat
          /\ Within(L, H, U, a, n3)
      BY <1>1, <1>18, <1>19, <1>20
    <3> HIDE DEF a, t
    <3>2. Within(L, H, U, a * t, n3 * t)
      BY <3>1, WithinTimes, Zenon
    <3>3. QED
      BY <3>2 DEF a, t
  <2>3. (m3 * K3) * 1000 = X * K3
    BY <1>18, <1>19
  <2>4. (m2 * 1000) * c = n3 * 1000
    BY <1>0, <1>11 DEF n3
  <2>5. (q * E2) * c = Y * K3
    <3>1. \A a, b, d, f \in Nat : (a * (d * f)) * b = (a * b * d) * f
      OBVIOUS
    <3>2. (q * (E3 * K3)) * c = (q * c * E3) * K3
      BY <1>0, <1>18, <3>1
    <3>3. QED
      BY <1>18, <3>2
  <2>6. X * K3 \in Nat /\ n3 * 1000 \in Nat /\ Y * K3 \in Nat
    BY <1>18, <1>21
  <2> HIDE DEF X, Y
  <2> DEFINE x == X * K3
             y == n3 * 1000
             z == Y * K3
             l == L * L
             h == H * H
             u == U * U
  <2>7. /\ x \in Nat /\ y \in Nat /\ z \in Nat /\ l \in Nat /\ h \in Nat /\ u \in Nat
        /\ L \in Nat /\ H \in Nat /\ U \in Nat
        /\ Within(L, H, U, x, y) /\ Within(l, h, u, y, z)
    BY <1>1, <2>1, <2>2, <2>3, <2>4, <2>5, <2>6
  <2> HIDE DEF x, y, z, l, h, u
  <2>8. Within(L * l, H * h, U * u, x, z)
    BY <2>7, WithinChain, Zenon
  <2> DEFINE ll == L * l
             hh == H * h
             uu == U * u
  <2>9. ll \in Nat /\ hh \in Nat /\ uu \in Nat
    BY <1>1, <2>7
  <2>10. Within(ll, hh, uu, X * K3, Y * K3)
    BY <2>8 DEF x, z
  <2> HIDE DEF ll, hh, uu
  <2>11. Within(ll, hh, uu, X, Y)
    <3>1. X \in Nat /\ Y \in Nat /\ K3 \in Nat /\ K3 >= 1
      BY <1>18, <1>21
    <3>2. QED
      BY <2>9, <2>10, <3>1, WithinCancel, Zenon
  <2>12. QED
    BY <2>11 DEF ll, hh, uu, l, h, u
<1>23. 4 * Y < U * E3
  <2>1. \A a, b, d \in Nat : a <= 1000 => 4 * (a * b * d) <= (4000 * b) * d
    <3>1. ASSUME NEW a \in Nat, NEW b \in Nat, NEW d \in Nat, a <= 1000
          PROVE  4 * (a * b * d) <= (4000 * b) * d
      <4> DEFINE f == b * d
      <4>1. f \in Nat /\ a * b * d = a * f /\ (4000 * b) * d = 4000 * f
        OBVIOUS
      <4> HIDE DEF f
      <4>2. a * f <= 1000 * f /\ a * f \in Nat
        BY <3>1, <4>1
      <4>3. QED
        BY <4>1, <4>2
    <3>2. QED
      BY <3>1
  <2>2. 4 * Y <= (4000 * c) * E3
    BY <1>0, <1>18, <2>1
  <2> DEFINE a == 4000 * c
  <2>3. a \in Nat /\ a < U
    BY <1>0 DEF U
  <2> HIDE DEF a
  <2>4. a * E3 < U * E3 /\ a * E3 \in Nat /\ U * E3 \in Nat
    BY <1>1, <1>18, <2>3
  <2>5. 4 * Y <= a * E3
    BY <2>2 DEF a
  <2> HIDE DEF Y
  <2>6. QED
    BY <1>21, <2>4, <2>5
<1>24. X < Y + E3 /\ Y < X + E3
  <2> HIDE DEF X, Y
  <2>1. /\ U \in Nat /\ U >= 4 /\ L = U - 1 /\ H = U + 1
        /\ X \in Nat /\ Y \in Nat /\ E3 \in Nat
    BY <1>1, <1>18, <1>21 DEF L, H
  <2>2. QED
    BY <1>22, <1>23, <2>1, ThreeRoundings, Zenon
\* An eighth of the samples: nothing is rounded.
<1>25. ASSUME q % 125 = 0 PROVE X = Y
  <2>1. \E j \in Nat : q = 125 * j /\ j <= 8
    BY <1>0, <1>25
  <2>2. PICK j \in Nat : q = 125 * j /\ j <= 8
    BY <2>1
  <2>3. q = 125 * j /\ j <= 8
    BY <2>2
  <2>4. k1 >= 3
    <3>1. ASSUME k1 <= 3 PROVE FALSE
      <4>1. 2^k1 <= 2^3
        <5>1. \A n \in Nat : k1 <= n => 2^k1 <= 2^n
          BY <1>4, PowerGrows, Zenon
        <5>2. QED
          BY <3>1, <5>1
      <4>5. 2^3 = 8
        BY PowerStep
      <4>2. E1 <= 8
        BY <4>1, <4>5 DEF E1
      <4>3. n1 <= 8000
        BY <1>0, <1>4, <4>2 DEF n1
      <4>4. QED
        BY <1>1, <1>4, <4>3
    <3>2. QED
      BY <1>4, <3>1
  <2> DEFINE f1 == k1 - 3
             F1 == 2^f1
  <2>5. f1 \in Nat /\ k1 = f1 + 3
    BY <1>4, <2>4
  <2>6. F1 \in Nat /\ F1 >= 1 /\ E1 = 8 * F1
    <3> HIDE DEF f1
    <3>1. 2^(f1 + 3) = 2^f1 * 2^3 /\ 2^3 = 8 /\ 2^f1 \in Nat /\ 2^f1 >= 1
      BY <2>5, PowerAdd, PowerStep
    <3>2. QED
      BY <2>5, <3>1 DEF E1
  <2> HIDE DEF F1
  <2>7. m1 = (100 * j) * F1
    <3>1. n1 = ((100 * j) * F1) * 10
      BY <2>3, <2>6 DEF n1
    <3>2. (100 * j) * F1 \in Nat
      BY <2>6
    <3>3. QED
      BY <1>5, <3>1, <3>2
  <2> DEFINE f == f1 + k2
             F == 2^f
  <2>8. f \in Nat /\ e2 = f + 3
    BY <1>10, <2>5 DEF e2
  <2>9. F \in Nat /\ F >= 1 /\ F = F1 * K2
    <3>1. F = F1 * K2
      BY <1>10, <2>5, PowerAdd DEF F1, K2
    <3>2. QED
      BY <2>8, <3>1, PowerStep
  <2> HIDE DEF f1, f, F
  <2>10. m2 = j * F
    <3>1. n2 = (j * F) * 100
      <4>1. \A a, b, d \in Nat : ((100 * a) * b) * d = (a * (b * d)) * 100
        OBVIOUS
      <4>2. n2 = ((100 * j) * F1) * K2
        BY <2>7 DEF n2
      <4>3. QED
        BY <1>10, <2>6, <2>9, <4>1, <4>2
    <3>2. j * F \in Nat
      BY <2>9
    <3>3. QED
      BY <1>11, <3>1, <3>2
  <2>11. n3 = (j * c) * F
    BY <1>0, <2>9, <2>10 DEF n3
  <2>12. k <= f
    <3>1. ASSUME k > f PROVE FALSE
      <4>1. Lowest * K3 <= n3
        BY <1>16, <2>8, <3>1 DEF K3, n3
      <4>2. F <= K3
        BY <1>18, <2>8, <3>1, PowerGrows DEF F, K3
      <4>3. B * F <= B * K3
        BY <1>1, <1>18, <2>9, <4>2
      <4>4. j * c <= 8 * c /\ j * c \in Nat
        BY <1>0, <2>3
      <4>5. j * c < B
        BY <1>0, <1>1, <4>4 DEF U
      <4> DEFINE a == j * c
      <4>6. a * F < B * F
        <5>1. a \in Nat /\ a < B
          BY <4>4, <4>5
        <5> HIDE DEF a
        <5>2. QED
          BY <1>1, <2>9, <5>1
      <4>7. B * K3 <= a * F
        BY <2>11, <4>1 DEF B
      <4>8. a * F \in Nat /\ B * F \in Nat /\ B * K3 \in Nat
        BY <1>1, <1>18, <2>9, <4>4
      <4> HIDE DEF a
      <4>9. QED
        BY <4>3, <4>6, <4>7, <4>8
    <3>2. QED
      BY <1>18, <2>8, <3>1
  <2> DEFINE g == f - k
             G == 2^g
  <2>13. g \in Nat /\ f = g + k /\ e3 = g + 3
    BY <1>10, <1>18, <2>8, <2>12 DEF e3
  <2>14. G \in Nat /\ F = G * K3 /\ E3 = 8 * G
    <3> HIDE DEF g
    <3>1. 2^(g + k) = 2^g * 2^k /\ 2^(g + 3) = 2^g * 2^3 /\ 2^3 = 8 /\ 2^g \in Nat
      BY <1>18, <2>13, PowerAdd, PowerStep
    <3>2. QED
      BY <2>13, <3>1 DEF F, K3, E3
  <2> HIDE DEF G
  <2>15. m3 = (j * c) * G
    <3>1. (j * c) * G \in Nat
      BY <1>0, <2>14
    <3>2. \A a, b, d \in Nat : a * (b * d) = (a * b) * d
      OBVIOUS
    <3>3. n3 = ((j * c) * G) * K3
      <4> DEFINE a == j * c
      <4>1. a \in Nat
        BY <1>0
      <4> HIDE DEF a
      <4>2. a * (G * K3) = (a * G) * K3
        BY <1>18, <2>14, <3>2, <4>1
      <4>3. QED
        BY <2>11, <2>14, <4>2 DEF a
    <3>4. QED
      BY <1>19, <3>1, <3>3
  <2>16. \A a, b, d \in Nat : 1000 * ((a * b) * d) = (125 * a) * b * (8 * d)
    OBVIOUS
  <2>17. QED
    BY <1>0, <2>3, <2>14, <2>15, <2>16
<1>26. goal.m = m3 /\ goal.e = e3
  BY <1>17
<1>27. QED
  BY <1>18, <1>19, <1>24, <1>25, <1>26 DEF E3

-----------------------------------------------------------------------------
(* Percentiles. *)

\* What percentile() has seen up to bucket i are the samples in those buckets.
LEMMA SeenIs ==
    ASSUME NEW h, NEW l, StandsFor(h, l), NEW i \in Buckets
    PROVE  Seen(h, i) = SumFunctionOnSet(l, {u \in Samples : index_of(u) <= i})
<1> DEFINE class == [u \in Samples |-> index_of(u)]
           n == kBucketCount - 1
           c == h.counts
<1>1. IsFiniteSet(Samples) /\ (\A x \in Samples : l[x] \in Nat) /\ n \in Nat /\ i \in 0..n /\ Buckets = 0..n
  BY SamplesFinite, Sizes DEF StandsFor, Buckets
<1>2. class \in [Samples -> Nat]
  BY SamplesFinite, IndexType
<1>3. \A j : Class(Samples, class, j) = {u \in Samples : index_of(u) = j}
  BY DEF Class
<1>4. \A j \in 0..n : c[j] = SumFunctionOnSet(l, Class(Samples, class, j))
  <2>1. ASSUME NEW j \in 0..n
        PROVE  c[j] = SumFunctionOnSet(l, Class(Samples, class, j))
    <3>1. c[j] = SumFunctionOnSet(l, {u \in Samples : index_of(u) = j})
      BY <1>1 DEF StandsFor
    <3>2. QED
      BY <1>3, <3>1
  <2>2. QED
    BY <2>1
<1>5. ClassUpTo(Samples, class, i) = {u \in Samples : index_of(u) <= i}
  BY DEF ClassUpTo
<1> HIDE DEF class, n, c
<1>6. SumFunctionOnSet(c, 0..i) = SumFunctionOnSet(l, ClassUpTo(Samples, class, i))
  BY <1>1, <1>2, <1>4, SumClasses
<1>7. QED
  BY <1>5, <1>6 DEF Seen, c

UpIn(l, v) == SumFunctionOnSet(l, {u \in Samples : u <= v})

Reached(l, share) == {v \in HeldIn(l) : UpIn(l, v) * 1000 >= share}

\* n samples make up a share, given in thousands of samples.
Meets(n, share) == n * 1000 >= share

\* The share of some of c samples.
PartOf(share, c) == share \in Nat /\ share >= 1 /\ share <= 1000 * c

\* A share is at most all.
Capped(p) == Min({p, 1000})

\* The percentile of a histogram that holds samples, from the samples that reach
\* the target.
LEMMA PercentileIs ==
    ASSUME NEW h, NEW l, StandsFor(h, l), h.count > 0, NEW p, NEW share, PartOf(share, h.count),
           \A n \in Nat : Reaches(n, target(p, h.count)) <=> Meets(n, share),
           NEW exact, exact = Min(Reached(l, share))
    PROVE  exact \in 0..UINT_MAX /\ percentile(h, p) = bucket_upper(index_of(exact))
<1> DEFINE Up(v) == UpIn(l, v)
           E == Reached(l, share)
           enough == {i \in Buckets : Seen(h, i) * 1000 >= share}
           H == HeldIn(l)
<1>2. l \in [Samples -> Nat] /\ h.count = SumFunctionOnSet(l, Samples) /\ h.count \in Nat
  BY DEF StandsFor, HistogramType
<1>3. share \in Nat /\ share >= 1 /\ share <= 1000 * h.count
  BY DEF PartOf
<1>5. H \subseteq Samples /\ H \subseteq Nat /\ H \subseteq 0..UINT_MAX /\ UINT_MAX \in Nat
  BY SamplesFinite, Sizes DEF HeldIn
<1>6. \A v \in Samples : v \in Nat /\ v \in 0..UINT_MAX
  BY SamplesFinite
<1>7. \A v \in Samples \ H : l[v] = 0
  BY <1>2 DEF HeldIn
<1>8. \A T : T \subseteq Samples => SumFunctionOnSet(l, T) \in Nat
  <2>1. ASSUME NEW T, T \subseteq Samples
        PROVE  SumFunctionOnSet(l, T) \in Nat
    <3>1. IsFiniteSet(T) /\ \A x \in T : l[x] \in Nat
      BY <1>2, <2>1, SamplesFinite
    <3>2. QED
      BY <3>1, SumType
  <2>2. QED
    BY <2>1
<1>9. \A T, U : T \subseteq U /\ U \subseteq Samples => SumFunctionOnSet(l, T) <= SumFunctionOnSet(l, U)
  <2>1. ASSUME NEW T, NEW U, T \subseteq U, U \subseteq Samples
        PROVE  SumFunctionOnSet(l, T) <= SumFunctionOnSet(l, U)
    <3>1. IsFiniteSet(U) /\ \A x \in U : l[x] \in Nat
      BY <1>2, <2>1, SamplesFinite
    <3>2. QED
      BY <2>1, <3>1, SumSubset
  <2>2. QED
    BY <2>1
\* Any share that some set of samples reaches is reached up to its largest held one.
<1>10. ASSUME NEW T, T \subseteq Samples, SumFunctionOnSet(l, T) * 1000 >= share
       PROVE  \E w \in E : w \in T
  <2> DEFINE G == T \cap H
             a == SumFunctionOnSet(l, T)
  <2>1. IsFiniteSet(T) /\ (\A x \in T : l[x] \in Nat) /\ G \subseteq T /\ \A x \in T \ G : l[x] = 0
    <3>1. IsFiniteSet(T)
      BY <1>10, SamplesFinite, ZenonT(40)
    <3>2. \A x \in T : l[x] \in Nat
      BY <1>2, <1>10
    <3>3. \A x \in T \ G : x \in Samples \ H
      BY <1>10
    <3> HIDE DEF H, G
    <3>4. \A x \in T \ G : l[x] = 0
      BY <1>7, <3>3
    <3>5. G \subseteq T
      BY DEF G
    <3>6. QED
      BY <3>1, <3>2, <3>4, <3>5
  <2>2. SumFunctionOnSet(l, G) = a
    <3> HIDE DEF G
    <3>1. QED
      BY <2>1, SumSubset
  <2>3. a \in Nat /\ a * 1000 >= share
    BY <1>8, <1>10
  <2>4. G # {}
    <3>1. ASSUME G = {} PROVE FALSE
      <4>1. a = 0
        BY <2>2, <3>1, SumEmpty
      <4> HIDE DEF a
      <4>2. QED
        BY <1>3, <2>3, <4>1
    <3>2. QED
      BY <3>1
  <2>5. G \subseteq 0..UINT_MAX /\ G \subseteq H /\ G \subseteq Samples
    BY <1>5
  <2> DEFINE w == Max(G)
  <2>6. w \in G /\ \A y \in G : w >= y
    <3> HIDE DEF G
    <3>1. QED
      BY <1>5, <2>4, <2>5, MaxOf
  <2> HIDE DEF w
  <2>7. G \subseteq {u \in Samples : u <= w}
    <3>1. \A y \in G : y \in Samples /\ y \in Nat /\ w \in Nat /\ w >= y
      BY <1>6, <2>5, <2>6
    <3>2. \A y \in G : y <= w
      BY <3>1
    <3>3. QED
      BY <3>1, <3>2
  <2>8. a <= Up(w)
    <3>1. {u \in Samples : u <= w} \subseteq Samples
      OBVIOUS
    <3> HIDE DEF G
    <3>2. SumFunctionOnSet(l, G) <= Up(w)
      BY <1>9, <2>7, <3>1 DEF UpIn
    <3>3. QED
      BY <2>2, <3>2
  <2>9. Up(w) \in Nat
    <3>1. {u \in Samples : u <= w} \subseteq Samples
      OBVIOUS
    <3>2. QED
      BY <1>8, <3>1 DEF UpIn
  <2> HIDE DEF a
  <2>10. Up(w) * 1000 >= share
    BY <1>3, <2>3, <2>8, <2>9
  <2>11. w \in HeldIn(l) /\ w \in T
    BY <2>6
  <2>12. w \in E
    BY <2>10, <2>11 DEF Reached
  <2>13. QED
    BY <2>11, <2>12
<1>11. E # {}
  <2>1. SumFunctionOnSet(l, Samples) * 1000 >= share
    <3> DEFINE n == h.count
    <3>1. n \in Nat /\ share <= 1000 * n /\ n = SumFunctionOnSet(l, Samples)
      BY <1>2, <1>3
    <3> HIDE DEF n
    <3>2. n * 1000 >= share
      BY <1>3, <3>1
    <3>3. QED
      BY <3>1, <3>2
  <2>2. \E w \in E : w \in Samples
    BY <1>10, <2>1
  <2>3. QED
    BY <2>2
<1>12. exact \in E /\ \A y \in E : exact <= y
  <2>1. exact = Min(E) /\ E \subseteq Nat /\ E # {}
    BY <1>5, <1>11 DEF Reached
  <2> HIDE DEF E
  <2>2. QED
    BY <2>1, MinOf, Zenon
<1>13. exact \in Samples /\ exact \in 0..UINT_MAX /\ exact \in Nat /\ Up(exact) * 1000 >= share
  <2>1. exact \in HeldIn(l) /\ Up(exact) * 1000 >= share
    BY <1>12 DEF Reached
  <2>2. QED
    BY <1>5, <1>6, <2>1
<1> DEFINE i0 == index_of(exact)
<1>14. i0 \in Buckets /\ i0 \in Nat
  BY <1>13, IndexType
<1>15. i0 \in enough
  <2> DEFINE T == {u \in Samples : u <= exact}
             U == {u \in Samples : index_of(u) <= i0}
  <2>1. T \subseteq U
    BY <1>6, <1>13, IndexGrows, ZenonT(40)
  <2>2. T \subseteq Samples /\ U \subseteq Samples
    OBVIOUS
  <2>3. Seen(h, i0) = SumFunctionOnSet(l, U)
    BY <1>14, SeenIs
  <2>4. Up(exact) = SumFunctionOnSet(l, T)
    BY DEF UpIn
  <2> HIDE DEF T, U
  <2>5. Up(exact) <= Seen(h, i0) /\ Up(exact) \in Nat /\ Seen(h, i0) \in Nat
    BY <1>8, <1>9, <2>1, <2>2, <2>3, <2>4
  <2>6. \A a, b \in Nat : a <= b /\ a * 1000 >= share => b * 1000 >= share
    BY <1>3
  <2>7. Seen(h, i0) * 1000 >= share
    BY <1>13, <2>5, <2>6
  <2>8. QED
    BY <1>14, <2>7
<1>16. \A i \in enough : i0 <= i
  <2>1. ASSUME NEW i \in enough
        PROVE  i0 <= i
    <3> DEFINE U == {u \in Samples : index_of(u) <= i}
    <3>1. i \in Buckets /\ Seen(h, i) * 1000 >= share
      BY <2>1
    <3>2. Seen(h, i) = SumFunctionOnSet(l, U)
      BY <3>1, SeenIs
    <3>3. SumFunctionOnSet(l, U) * 1000 >= share /\ U \subseteq Samples
      BY <3>1, <3>2
    <3>4. PICK w \in E : w \in U
      <4> HIDE DEF U, E
      <4>1. QED
        BY <1>10, <3>3
    <3>5. w \in Samples /\ index_of(w) <= i /\ exact <= w
      <4>1. w \in Samples /\ index_of(w) <= i
        BY <3>4
      <4>2. exact <= w
        BY <1>12, <3>4
      <4>3. QED
        BY <4>1, <4>2
    <3>6. w \in 0..UINT_MAX
      BY <1>6, <3>5
    <3>7. i0 <= index_of(w) /\ index_of(w) \in Nat
      BY <1>13, <3>5, <3>6, IndexGrows, IndexType
    <3>8. i \in Nat
      BY <3>1, Sizes DEF Buckets
    <3> HIDE DEF i0
    <3>9. QED
      BY <1>14, <3>5, <3>7, <3>8
  <2>2. QED
    BY <2>1
<1>17. Min(enough) = i0
  <2>1. enough \subseteq Int
    BY DEF Buckets
  <2> HIDE DEF enough, i0
  <2>2. QED
    BY <1>15, <1>16, <2>1, MinIs
<1>18. percentile(h, p) = IF h.count = 0 THEN 0 ELSE IF enough = {} THEN h.max ELSE bucket_upper(Min(enough))
  <2>1. \A i \in Buckets : Seen(h, i) \in Nat
    <3>1. ASSUME NEW i \in Buckets PROVE Seen(h, i) \in Nat
      <4> DEFINE T == {u \in Samples : index_of(u) <= i}
      <4>1. Seen(h, i) = SumFunctionOnSet(l, T) /\ T \subseteq Samples
        BY SeenIs
      <4> HIDE DEF T
      <4>2. QED
        BY <1>8, <4>1
    <3>2. QED
      BY <3>1
  <2>2. \A i \in Buckets : Reaches(Seen(h, i), target(p, h.count)) <=> Seen(h, i) * 1000 >= share
    BY <2>1 DEF Meets
  <2>3. {i \in Buckets : Reaches(Seen(h, i), target(p, h.count))} = enough
    BY <2>2
  <2> HIDE DEF enough
  <2>4. QED
    BY <2>3, ZenonT(40) DEF percentile
<1>19. enough # {} /\ h.count # 0
  <2> HIDE DEF enough
  <2>1. QED
    BY <1>2, <1>15
<1>20. percentile(h, p) = bucket_upper(i0)
  <2> HIDE DEF enough, i0
  <2>1. QED
    BY <1>17, <1>18, <1>19
<1>21. QED
  BY <1>13, <1>20

\* What reaches the target: the samples that make up the share, or what is more.
LEMMA TargetReached ==
    ASSUME NEW q, NEW c, IsShare(q, c), NEW p \in Int, q = Capped(p), p > 0
    PROVE  \/ \A n \in Nat : Reaches(n, target(p, c)) <=> Meets(n, q * c)
           \/ /\ q % 125 # 0
              /\ \A n \in Nat : Reaches(n, target(p, c)) <=> Meets(n, q * c + 1)
<1> DEFINE goal == target(q, c)
           m == goal.m
           E == 2^goal.e
           s == q * c
<1>0. q \in 1..1000 /\ q \in Nat /\ c \in Nat
  BY DEF IsShare
<1>1. target(p, c) = goal
  <2>1. Min({q, 1000}) = q
    <3>1. {q, 1000} \subseteq Int /\ q \in {q, 1000} /\ \A y \in {q, 1000} : q <= y
      BY <1>0
    <3>2. QED
      BY <3>1, MinIs
  <2>2. QED
    BY <2>1 DEF target, Capped
<1>2. /\ m \in Nat /\ goal.e \in Nat /\ 1000 * m < s * E + E /\ s * E < 1000 * m + E
      /\ q % 125 = 0 => 1000 * m = s * E
  <2> HIDE DEF goal
  <2>1. goal = target(q, c)
    BY DEF goal
  <2>2. QED
    BY <2>1, TargetNear
<1>3. E \in Nat /\ E >= 1 /\ s \in Nat
  BY <1>0, <1>2, PowerStep
<1>4. \A n : Reaches(n, target(p, c)) <=> n * E >= m
  BY <1>1 DEF Reaches
<1> HIDE DEF goal, m, E, s
<1>5. \A n \in Nat : n * 1000 >= s + 1 => n * E >= m
  <2>1. ASSUME NEW n \in Nat, n * 1000 >= s + 1 PROVE n * E >= m
    <3>1. (n * 1000) * E >= (s + 1) * E /\ (s + 1) * E = s * E + E /\ (n * 1000) * E = 1000 * (n * E)
      BY <1>3, <2>1
    <3>2. n * E \in Nat /\ s * E \in Nat
      BY <1>3
    <3>3. QED
      BY <1>2, <1>3, <3>1, <3>2
  <2>2. QED
    BY <2>1
<1>6. \A n \in Nat : n * 1000 < s => ~(n * E >= m)
  <2>1. ASSUME NEW n \in Nat, n * 1000 < s PROVE ~(n * E >= m)
    <3>1. n * 1000 + 1 <= s /\ n * 1000 + 1 \in Nat
      BY <1>3, <2>1
    <3>2. (n * 1000 + 1) * E <= s * E /\ (n * 1000 + 1) * E = 1000 * (n * E) + E
      BY <1>3, <3>1
    <3>3. n * E \in Nat /\ s * E \in Nat
      BY <1>3
    <3>4. QED
      BY <1>2, <1>3, <3>2, <3>3
  <2>2. QED
    BY <2>1
<1>7. CASE \A n \in Nat : n * 1000 = s => n * E >= m
  <2>1. ASSUME NEW n \in Nat PROVE n * E >= m <=> n * 1000 >= s
    <3>1. n * 1000 < s \/ n * 1000 = s \/ n * 1000 >= s + 1
      BY <1>3
    <3>2. QED
      BY <1>3, <1>5, <1>6, <1>7, <3>1
  <2>2. QED
    BY <1>4, <2>1 DEF s, Meets
<1>8. CASE \E n \in Nat : n * 1000 = s /\ ~(n * E >= m)
  <2>1. PICK k \in Nat : k * 1000 = s /\ ~(k * E >= m)
    BY <1>8
  <2>2. q % 125 # 0
    <3>1. ASSUME q % 125 = 0 PROVE FALSE
      <4>1. 1000 * m = s * E
        BY <1>2, <3>1
      <4>2. s * E = 1000 * (k * E) /\ k * E \in Nat
        BY <1>3, <2>1
      <4>3. QED
        BY <1>2, <2>1, <4>1, <4>2
    <3>2. QED
      BY <3>1
  <2>3. ASSUME NEW n \in Nat PROVE n * E >= m <=> n * 1000 >= s + 1
    <3>1. n * 1000 < s \/ n * 1000 = s \/ n * 1000 >= s + 1
      BY <1>3
    <3>2. n * 1000 = s => n = k
      BY <2>1
    <3>3. QED
      BY <1>3, <1>5, <1>6, <2>1, <3>1, <3>2
  <2>4. QED
    BY <1>4, <2>2, <2>3 DEF s, Meets
<1>9. QED
  BY <1>7, <1>8

\* A value of a bucket, and the upper bound of the bucket.
Close(v, got) == /\ got >= v /\ index_of(got) = index_of(v)
                 /\ got = v \/ (got - v) * kSubCount < v

\* The upper bound of the bucket of a sample is close to it.
LEMMA UpperIsClose ==
    ASSUME NEW v \in 0..UINT_MAX
    PROVE  Close(v, bucket_upper(index_of(v)))
<1> DEFINE got == bucket_upper(index_of(v))
<1>1. /\ got \in 0..UINT_MAX /\ v <= got /\ index_of(got) = index_of(v)
      /\ got = v \/ (got - v) * kSubCount < v
  BY UpperOfValue
<1> HIDE DEF got
<1>2. got >= v
  BY <1>1, Sizes
<1>3. QED
  BY <1>1, <1>2 DEF Close, got

\* The invariant gives PercentileConservative.
LEMMA InvPercentile == HistogramInv => PercentileConservative
<1> DEFINE ShareOf(k, p) == Capped(p) * hist[k].count
           Exact(k, p) == Min({v \in Held(k) : UpTo(k, v) * 1000 >= ShareOf(k, p)})
           More(k, p) == Min({v \in Held(k) : UpTo(k, v) * 1000 > ShareOf(k, p)})
           Goal(k, p) == \E v \in IF Capped(p) % 125 = 0 THEN {Exact(k, p)}
                                  ELSE {Exact(k, p), More(k, p)} :
                           Close(v, percentile(hist[k], p))
<1>0. ASSUME \A k \in Histograms, p \in Percentages : hist[k].count > 0 /\ p > 0 => Goal(k, p)
      PROVE  PercentileConservative
  BY <1>0, Zenon DEF PercentileConservative, Close, Capped
<1> HIDE DEF Goal
<1> SUFFICES ASSUME HistogramInv, NEW k \in Histograms, NEW p \in Percentages,
                    hist[k].count > 0, p > 0
             PROVE  Goal(k, p)
  BY <1>0, Zenon
<1> HIDE DEF ShareOf, Exact, More
<1> DEFINE h == hist[k]
           l == log[k]
           q == Capped(p)
           c == h.count
           share == ShareOf(k, p)
           exact == Exact(k, p)
           more == More(k, p)
           got == percentile(hist[k], p)
<1>1. StandsFor(h, l) /\ c > 0 /\ c \in Nat /\ p \in Int /\ c <= MaxCount[k]
  BY WidthAssumption DEF HistogramInv, StandsFor, HistogramType
<1>2. q \in Nat /\ q >= 1 /\ q <= 1000 /\ q = Capped(p)
  <2>1. CASE p <= 1000
    <3>1. {p, 1000} \subseteq Int /\ p \in {p, 1000} /\ \A y \in {p, 1000} : p <= y
      BY <1>1, <2>1
    <3>2. Min({p, 1000}) = p
      BY <3>1, MinIs
    <3>3. QED
      BY <1>1, <2>1, <3>2 DEF Capped
  <2>2. CASE p > 1000
    <3>1. {p, 1000} \subseteq Int /\ 1000 \in {p, 1000} /\ \A y \in {p, 1000} : 1000 <= y
      BY <1>1, <2>2
    <3>2. Min({p, 1000}) = 1000
      BY <3>1, MinIs
    <3>3. QED
      BY <3>2 DEF Capped
  <2>3. QED
    BY <1>1, <2>1, <2>2
<1>3. IsShare(q, c)
  <2>1. MaxCount[k] \in Nat /\ 4000 * MaxCount[k] < Beyond /\ Beyond \in Nat
    BY PrecisionAssumption, Mantissas DEF Beyond
  <2>2. QED
    BY <1>1, <1>2, <2>1 DEF IsShare
<1>4. share = q * c /\ exact = Min(Reached(l, share))
  BY DEF ShareOf, Exact, Held, HeldIn, UpTo, UpIn, Reached
<1>5. got = percentile(h, p)
  OBVIOUS
<1>6. more = Min({v \in HeldIn(l) : UpIn(l, v) * 1000 > share})
  BY DEF More, Held, HeldIn, UpTo, UpIn
<1>7. \A v \in HeldIn(l) : UpIn(l, v) \in Nat
  <2>1. l \in [Samples -> Nat]
    BY <1>1 DEF StandsFor
  <2>2. ASSUME NEW v \in HeldIn(l) PROVE UpIn(l, v) \in Nat
    <3> DEFINE T == {u \in Samples : u <= v}
    <3>1. IsFiniteSet(T) /\ \A x \in T : l[x] \in Nat
      <4>1. T \subseteq Samples
        OBVIOUS
      <4>2. IsFiniteSet(Samples)
        BY SamplesFinite
      <4>3. IsFiniteSet(T)
        BY <4>1, <4>2, FS_Subset
      <4>4. QED
        BY <2>1, <4>1, <4>3
    <3> HIDE DEF T
    <3>2. SumFunctionOnSet(l, T) \in Nat
      BY <3>1, SumType
    <3>3. QED
      BY <3>2 DEF UpIn, T
  <2>3. QED
    BY <2>2
<1>8. Goal(k, p) <=> \E v \in IF q % 125 = 0 THEN {exact} ELSE {exact, more} : Close(v, got)
  BY DEF Goal
<1> HIDE DEF h, l, q, c, share, exact, more, got
<1>9. share \in Nat /\ share >= 1 /\ share <= 1000 * c
  BY <1>1, <1>2, <1>4
<1>10. CASE \A n \in Nat : Reaches(n, target(p, c)) <=> Meets(n, q * c)
  <2>1. exact \in 0..UINT_MAX /\ got = bucket_upper(index_of(exact))
    <3>1. \A n \in Nat : Reaches(n, target(p, h.count)) <=> Meets(n, share)
      BY <1>4, <1>10 DEF c
    <3>2. h.count > 0 /\ PartOf(share, h.count)
      BY <1>1, <1>9 DEF c, PartOf
    <3>3. QED
      BY <1>1, <1>4, <1>5, <3>1, <3>2, PercentileIs
  <2>2. Close(exact, got)
    BY <2>1, UpperIsClose
  <2>3. exact \in IF q % 125 = 0 THEN {exact} ELSE {exact, more}
    OBVIOUS
  <2>4. QED
    BY <1>8, <2>2, <2>3, Zenon
<1>11. CASE /\ q % 125 # 0
            /\ \A n \in Nat : Reaches(n, target(p, c)) <=> Meets(n, q * c + 1)
  <2> DEFINE above == share + 1
  <2>1. above \in Nat /\ above >= 1 /\ above <= 1000 * c
    <3>1. q <= 999
      BY <1>2, <1>11
    <3>2. q * c <= 999 * c
      BY <1>1, <1>2, <3>1
    <3>3. QED
      BY <1>1, <1>4, <1>9, <3>2
  <2>2. more = Min(Reached(l, above))
    <3>1. \A v \in HeldIn(l) : UpIn(l, v) * 1000 > share <=> UpIn(l, v) * 1000 >= above
      BY <1>7, <1>9
    <3>2. {v \in HeldIn(l) : UpIn(l, v) * 1000 > share} = Reached(l, above)
      <4> HIDE DEF above
      <4>1. QED
        BY <3>1 DEF Reached
    <3>3. QED
      BY <1>6, <3>2
  <2>3. \A n \in Nat : Reaches(n, target(p, h.count)) <=> Meets(n, above)
    BY <1>4, <1>11 DEF c
  <2>4. h.count > 0 /\ PartOf(above, h.count)
    BY <1>1, <2>1 DEF c, PartOf
  <2> HIDE DEF above
  <2>5. more \in 0..UINT_MAX /\ got = bucket_upper(index_of(more))
    BY <1>1, <1>5, <2>2, <2>3, <2>4, PercentileIs
  <2>6. Close(more, got)
    BY <2>5, UpperIsClose
  <2>7. QED
    BY <1>8, <1>11, <2>6
<1>12. p \in Int /\ p > 0 /\ q = Capped(p)
  BY <1>1, <1>2
<1>13. QED
  BY <1>3, <1>10, <1>11, <1>12, TargetReached, Zenon

\* percentile() is conservative and close, whatever was recorded and merged: it
\* returns the upper bound of the bucket in which the exact order statistic lies,
\* also in the last bucket, where bucket_upper() of histogram.h overflows.  The
\* three roundings of its target move it by one sample at most, and only when the
\* share is a whole number of samples and not a number of eighths.
THEOREM AlwaysConservative == Spec => []PercentileConservative
<1>1. Init => HistogramInv
  BY EmptyStands, PrecisionAssumption DEF Init, HistogramInv, Empty
<1>2. HistogramInv /\ [Next]_vars => HistogramInv'
  BY HistogramStep
<1>3. QED
  BY <1>1, <1>2, InvPercentile, PTL DEF Spec

\* Every bucket number is that of a sub-bucket.
LEMMA BucketIs ==
    ASSUME NEW i \in Buckets, kSubCount <= i
    PROVE  \E shift \in Shifts, sub \in Subs : i = BucketAt(shift, sub)
<1> DEFINE K == kSubCount
           x == i - K
           d == Width - kSubBits
<1>1. K \in Nat /\ K >= 1 /\ i \in Nat /\ x \in Nat /\ d \in Nat /\ d >= 1 /\ i < K * (d + 1)
  BY Sizes DEF Buckets, kBucketCount
<1> HIDE DEF x
<1>2. PICK shift \in Nat, sub \in 0..(K - 1) : x = shift * K + sub
  BY <1>1, DivMod
<1>3. shift <= d - 1
  <2>1. ASSUME shift >= d PROVE FALSE
    <3> HIDE DEF K, d
    <3>1. shift * K >= d * K /\ K * (d + 1) = d * K + K /\ d * K \in Nat /\ shift * K \in Nat
      BY <1>1, <2>1
    <3>2. i = x + K /\ sub \in Nat
      BY <1>1 DEF x
    <3>3. QED
      BY <1>1, <1>2, <3>1, <3>2
  <2>2. QED
    BY <1>1, <2>1
<1>4. shift \in Shifts /\ sub \in Subs
  BY <1>1, <1>2, <1>3 DEF Shifts, Subs
<1>5. i = BucketAt(shift, sub)
  <2>1. i = x + K /\ sub \in Nat
    BY <1>1 DEF x
  <2> HIDE DEF K
  <2>2. shift * K \in Nat
    BY <1>1
  <2>3. i = K + shift * K + sub
    BY <1>1, <1>2, <2>1, <2>2
  <2>4. QED
    BY <2>3 DEF BucketAt, K
<1>6. QED
  BY <1>4, <1>5

\* The end of a bucket lies in it, and no value of the bucket above.
LEMMA BucketEnd ==
    ASSUME NEW i \in Buckets
    PROVE  /\ bucket_upper(i) \in 0..UINT_MAX /\ index_of(bucket_upper(i)) = i
           /\ \A w \in 0..UINT_MAX : index_of(w) = i => w <= bucket_upper(i)
<1>0. i \in Nat /\ kSubCount \in Nat
  BY Sizes DEF Buckets
<1>1. \E v \in 0..UINT_MAX : index_of(v) = i
  <2>1. CASE i < kSubCount
    <3>1. index_of(i) = i
      BY <2>1 DEF index_of
    <3>2. i \in 0..UINT_MAX
      <4>1. kSubCount <= 2^Width
        BY PowerGrows, Sizes DEF kSubCount
      <4>2. QED
        BY <1>0, <2>1, <4>1, Sizes
    <3>3. QED
      BY <3>1, <3>2
  <2>2. CASE kSubCount <= i
    <3>1. PICK shift \in Shifts, sub \in Subs : i = BucketAt(shift, sub)
      BY <2>2, BucketIs
    <3>2. 0 \in 0..(2^shift - 1)
      BY Powers
    <3>3. index_of(Place(shift, sub, 0)) = i /\ Place(shift, sub, 0) \in 0..UINT_MAX
      BY <3>1, <3>2, IndexOfPlace, PlaceBounds, Sizes
    <3>4. QED
      BY <3>3
  <2>3. QED
    BY <1>0, <2>1, <2>2
<1>2. QED
  BY <1>1, UpperOfValue

\* The buckets tile the range of the word, for every width and every number of
\* sub-buckets: each ends, in bucket_upper(), where index_of() goes on to the next,
\* and the last with the largest word, where bucket_upper() overflows.
THEOREM BucketsAlwaysTile ==
    /\ \A i \in 0..(kBucketCount - 1) : index_of(bucket_upper(i)) = i
    /\ \A i \in 1..(kBucketCount - 1) : index_of(bucket_upper(i - 1) + 1) = i
    /\ bucket_upper(kBucketCount - 1) = UINT_MAX
<1>1. \A i \in 0..(kBucketCount - 1) : index_of(bucket_upper(i)) = i
  BY BucketEnd DEF Buckets
<1>2. ASSUME NEW i \in 1..(kBucketCount - 1)
      PROVE  index_of(bucket_upper(i - 1) + 1) = i
  <2> DEFINE j == i - 1
             u == bucket_upper(j)
             t == bucket_upper(i)
             n == u + 1
  <2>1. i \in Buckets /\ j \in Buckets /\ i \in Nat /\ j \in Nat /\ j + 1 = i
    BY Sizes DEF Buckets
  <2>2. /\ u \in 0..UINT_MAX /\ index_of(u) = j /\ t \in 0..UINT_MAX /\ index_of(t) = i
        /\ \A w \in 0..UINT_MAX : index_of(w) = j => w <= u
    BY <2>1, BucketEnd
  <2> HIDE DEF j, u, t
  <2>3. u < t
    <3>1. ASSUME t <= u PROVE FALSE
      <4>1. index_of(t) <= index_of(u)
        BY <2>2, <3>1, IndexGrows
      <4>2. QED
        BY <2>1, <2>2, <4>1
    <3>2. QED
      BY <2>2, <3>1, Sizes
  <2>4. n \in 0..UINT_MAX /\ u <= n /\ n <= t /\ ~(n <= u)
    BY <2>2, <2>3, Sizes
  <2> HIDE DEF n
  <2>5. index_of(u) <= index_of(n) /\ index_of(n) <= index_of(t) /\ index_of(n) \in Nat
    BY <2>2, <2>4, IndexGrows, IndexType
  <2>6. index_of(n) # j
    BY <2>2, <2>4
  <2>7. index_of(n) = i
    BY <2>1, <2>2, <2>5, <2>6
  <2>8. QED
    BY <2>7 DEF n, u, j
<1>3. bucket_upper(kBucketCount - 1) = UINT_MAX
  <2> DEFINE i == kBucketCount - 1
             u == bucket_upper(i)
             x == index_of(UINT_MAX)
  <2>1. i \in Buckets /\ i \in Nat /\ UINT_MAX \in 0..UINT_MAX /\ UINT_MAX \in Nat /\ Buckets = 0..i
    BY Sizes DEF Buckets
  <2>2. u \in 0..UINT_MAX /\ index_of(u) = i /\ \A w \in 0..UINT_MAX : index_of(w) = i => w <= u
    BY <2>1, BucketEnd
  <2>3. x \in Buckets /\ x \in Nat
    BY <2>1, IndexType
  <2> HIDE DEF i, u
  <2>4. i <= x
    <3>1. u <= UINT_MAX
      BY <2>1, <2>2
    <3>2. index_of(u) <= index_of(UINT_MAX)
      BY <2>1, <2>2, <3>1, IndexGrows
    <3>3. QED
      BY <2>2, <3>2
  <2>5. x = i
    <3> HIDE DEF x
    <3>1. QED
      BY <2>1, <2>3, <2>4
  <2>6. UINT_MAX <= u
    BY <2>1, <2>2, <2>5
  <2>7. u = UINT_MAX
    BY <2>1, <2>2, <2>6
  <2>8. QED
    BY <2>7 DEF u, i
<1>4. QED
  BY <1>1, <1>2, <1>3
=============================================================================
