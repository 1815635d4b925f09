--------------------------- MODULE SpscRingProofs ---------------------------
(***************************************************************************)
(* Theorems about SpscRing, for every width of the indices and every       *)
(* capacity: also where the indices wrap around.                           *)
(***************************************************************************)
EXTENDS SpscRing, SequenceTheorems, TLAPS

-----------------------------------------------------------------------------
(* Arithmetic modulo Wrap and modulo the capacity. *)

\* A remainder is one, and that of a number in range is the number.
LEMMA Remainder ==
    ASSUME NEW n \in Nat \ {0}, NEW x \in Int
    PROVE  x % n \in 0..(n - 1) /\ (x \in 0..(n - 1) => x % n = x)
OBVIOUS

\* A remainder does not see multiples of the modulus.
LEMMA RemainderShift ==
    ASSUME NEW n \in Nat \ {0}, NEW x \in Int, NEW k \in Int
    PROVE  (x + k * n) % n = x % n
<1> DEFINE y == x + k * n
<1>1. y \in Int
  OBVIOUS
<1>2. /\ x = (x \div n) * n + (x % n) /\ x \div n \in Int /\ x % n \in 0..(n - 1)
      /\ y = (y \div n) * n + (y % n) /\ y \div n \in Int /\ y % n \in 0..(n - 1)
  BY <1>1
<1> DEFINE q == x \div n
           r == x % n
           p == y \div n
           s == y % n
<1>3. p * n + s = (q + k) * n + r
  <2>1. x = q * n + r /\ y = p * n + s /\ y = x + k * n
    BY <1>2
  <2>2. q \in Int /\ r \in Int /\ p \in Int /\ s \in Int
    BY <1>2
  <2> HIDE DEF q, r, p, s, y
  <2>3. QED
    BY <2>1, <2>2
<1> HIDE DEF q, r, p, s, y
<1>4. p \in Int /\ q \in Int /\ r \in 0..(n - 1) /\ s \in 0..(n - 1)
  BY <1>2 DEF p, q, r, s
<1>5. ((p - q) - k) * n = r - s
  BY <1>3, <1>4
<1>6. (p - q) - k = 0
  <2> DEFINE d == (p - q) - k
             e == r - s
  <2>1. d \in Int /\ e \in Int /\ d * n = e /\ e < n /\ e > -n
    BY <1>4, <1>5
  <2> HIDE DEF d, e
  <2>2. d = 0
    BY <2>1
  <2>3. QED
    BY <2>2 DEF d
<1>7. r = s
  BY <1>4, <1>5, <1>6
<1>8. QED
  BY <1>7 DEF r, s, y

\* Numbers less than the modulus apart have different remainders.
LEMMA RemainderApart ==
    ASSUME NEW n \in Nat \ {0}, NEW x \in Int, NEW d \in 1..(n - 1)
    PROVE  (x + d) % n # x % n
<1> SUFFICES ASSUME (x + d) % n = x % n PROVE FALSE
  OBVIOUS
<1> DEFINE y == x + d
           q == x \div n
           p == y \div n
           r == x % n
<1>1. y \in Int /\ y % n = r
  OBVIOUS
<1>2. x = q * n + r /\ y = p * n + r /\ q \in Int /\ p \in Int /\ r \in 0..(n - 1)
  BY <1>1
<1>3. y = x + d
  OBVIOUS
<1> HIDE DEF y, q, p, r
<1>4. (p - q) * n = d /\ p - q \in Int
  BY <1>2, <1>3
<1> DEFINE m == p - q
<1> HIDE DEF m
<1>5. m * n = d /\ m \in Int
  BY <1>4 DEF m
<1>6. m = 0
  BY <1>5
<1>7. QED
  BY <1>5, <1>6

\* What is assumed of a capacity.
LEMMA CapacityFacts ==
    ASSUME NEW c \in Capacities
    PROVE  /\ c \in Nat \ {0} /\ c >= 2 /\ Wrap \in Nat \ {0} /\ 2 * c <= Wrap
           /\ \E k \in Int : Wrap = k * c
<1>1. PICK k \in 2..Wrap : Wrap = k * c
  BY RingAssumption
<1>2. c \in Nat /\ c >= 2 /\ Wrap \in Nat
  BY RingAssumption
<1>3. k * c >= 2 * c
  BY <1>1, <1>2
<1>4. QED
  BY <1>1, <1>2, <1>3

\* The difference of two indices, around the wrap.
LEMMA MinusCases ==
    ASSUME Wrap \in Nat \ {0}, NEW a \in Indices, NEW b \in Indices
    PROVE  Minus(a, b) = IF a >= b THEN a - b ELSE a - b + Wrap
<1> DEFINE x == a - b
<1>1. x \in Int /\ x < Wrap /\ x > -Wrap /\ (a >= b <=> x >= 0)
  BY DEF Indices
<1>2. Minus(a, b) = x % Wrap
  BY DEF Minus
<1> HIDE DEF x
<1>3. CASE x >= 0
  <2>1. x \in 0..(Wrap - 1)
    BY <1>1, <1>3
  <2>2. QED
    BY <1>1, <1>2, <1>3, <2>1, Remainder DEF x
<1>4. CASE x < 0
  <2> DEFINE y == x + 1 * Wrap
  <2>1. y % Wrap = x % Wrap
    <3>1. 1 \in Int
      OBVIOUS
    <3>2. QED
      BY <1>1, <3>1, RemainderShift, Zenon
  <2>2. y \in 0..(Wrap - 1) /\ y = x + Wrap /\ ~(x >= 0)
    BY <1>1, <1>4
  <2> HIDE DEF y
  <2>3. y % Wrap = y
    BY <2>2, Remainder
  <2>4. QED
    BY <1>1, <1>2, <2>1, <2>2, <2>3 DEF x
<1>5. QED
  BY <1>1, <1>3, <1>4

\* An index moved on by less than the range, around the wrap.
LEMMA Reduced ==
    ASSUME Wrap \in Nat \ {0}, NEW x \in Nat, x < 2 * Wrap
    PROVE  x % Wrap \in Indices /\ x % Wrap = IF x < Wrap THEN x ELSE x - Wrap
<1>1. x % Wrap \in Indices
  BY Remainder DEF Indices
<1>2. ASSUME x < Wrap PROVE x % Wrap = x
  BY <1>2, Remainder
<1>3. ASSUME x >= Wrap PROVE x % Wrap = x - Wrap
  <2> DEFINE y == x + (-1) * Wrap
  <2>1. y % Wrap = x % Wrap
    <3>1. -1 \in Int /\ x \in Int
      OBVIOUS
    <3>2. QED
      BY <3>1, RemainderShift, Zenon
  <2>2. y \in Int /\ y \in 0..(Wrap - 1) /\ y = x - Wrap
    BY <1>3
  <2> HIDE DEF y
  <2>3. y % Wrap = y
    BY <2>2, Remainder, Zenon
  <2>4. QED
    BY <2>1, <2>2, <2>3
<1>4. QED
  BY <1>1, <1>2, <1>3

\* A load returns an index between the last one seen and the current one.
LEMMA LoadBetween ==
    ASSUME Wrap \in Nat \ {0}, NEW seen \in Indices, NEW current \in Indices,
           NEW x \in Load(seen, current)
    PROVE  x \in Indices /\ Minus(x, seen) + Minus(current, x) = Minus(current, seen)
<1>1. PICK d \in 0..Minus(current, seen) : x = (seen + d) % Wrap
  BY DEF Load
<1>2. Minus(current, seen) = IF current >= seen THEN current - seen ELSE current - seen + Wrap
  BY MinusCases
<1>3. d \in Indices /\ d <= Minus(current, seen)
  BY <1>1, <1>2 DEF Indices
<1>4. x \in Indices /\ x = IF seen + d < Wrap THEN seen + d ELSE seen + d - Wrap
  <2> DEFINE y == seen + d
  <2>1. y \in Nat /\ y < 2 * Wrap /\ x = y % Wrap
    BY <1>1, <1>3 DEF Indices
  <2> HIDE DEF y
  <2>2. x \in Indices /\ x = IF y < Wrap THEN y ELSE y - Wrap
    BY <2>1, Reduced
  <2>3. QED
    BY <2>2 DEF y
<1>5. /\ Minus(x, seen) = IF x >= seen THEN x - seen ELSE x - seen + Wrap
      /\ Minus(current, x) = IF current >= x THEN current - x ELSE current - x + Wrap
  BY <1>4, MinusCases
<1>6. QED
  BY <1>2, <1>3, <1>4, <1>5 DEF Indices

-----------------------------------------------------------------------------
(* The inductive invariant. *)

\* Each side's copy of the other's index is an index the other side has had, and
\* none so old that a slot would be taken for free or for filled.
CachesLag ==
    /\ Minus(write, read_cache) = Minus(read, read_cache) + Len(inflight)
    /\ Minus(write, read_cache) <= cap
    /\ Len(inflight) = Minus(write_cache, read) + Minus(write, write_cache)

\* What push() and pop() know when they touch a slot.
Progress ==
    /\ ppc # "idle" => pval \in Values
    /\ ppc \in {"fill", "publish"} => Minus(write, read_cache) < cap
    /\ ppc = "publish" => slots[Slot(write)] = pval
    /\ cpc \in {"take", "release"} => read # write_cache

RingInv == RingHoldsInFlight /\ CachesLag /\ Progress

-----------------------------------------------------------------------------
(* Indices and slots. *)

\* An index moved on by one is one further from those behind it, and one closer
\* to those in front of it.
LEMMA IndexStep ==
    ASSUME Wrap \in Nat \ {0}, NEW a \in Indices, NEW b \in Indices
    PROVE  LET c == (a + 1) % Wrap IN
           /\ c \in Indices
           /\ Minus(a, b) \in Nat /\ (Minus(a, b) = 0 <=> a = b)
           /\ Minus(a, b) < Wrap - 1 => Minus(c, b) = Minus(a, b) + 1
           /\ Minus(b, a) > 0 => Minus(b, c) = Minus(b, a) - 1
<1> DEFINE x == a + 1
           c == x % Wrap
<1>1. x \in Nat /\ x = a + 1 /\ x < 2 * Wrap
  BY DEF Indices
<1> HIDE DEF x
<1>2. c \in Indices /\ c = IF x < Wrap THEN x ELSE x - Wrap
  BY <1>1, Reduced
<1> HIDE DEF c
<1>3. /\ Minus(a, b) = IF a >= b THEN a - b ELSE a - b + Wrap
      /\ Minus(b, a) = IF b >= a THEN b - a ELSE b - a + Wrap
      /\ Minus(c, b) = IF c >= b THEN c - b ELSE c - b + Wrap
      /\ Minus(b, c) = IF b >= c THEN b - c ELSE b - c + Wrap
  BY <1>2, MinusCases
<1>4. /\ c \in Indices
      /\ Minus(a, b) \in Nat /\ (Minus(a, b) = 0 <=> a = b)
      /\ Minus(a, b) < Wrap - 1 => Minus(c, b) = Minus(a, b) + 1
      /\ Minus(b, a) > 0 => Minus(b, c) = Minus(b, a) - 1
  BY <1>1, <1>2, <1>3 DEF Indices
<1>5. QED
  BY <1>4 DEF c, x

\* index & mask_ is a slot, the same after a wrap, and another one for an index
\* less than a capacity away.
LEMMA SlotFacts ==
    ASSUME cap \in Capacities, NEW x \in Int
    PROVE  /\ Slot(x) \in 0..(cap - 1)
           /\ Slot(x + Wrap) = Slot(x)
           /\ \A d \in 1..(cap - 1) : Slot(x + d) # Slot(x)
<1>1. cap \in Nat \ {0} /\ Wrap \in Nat /\ \E k \in Int : Wrap = k * cap
  BY CapacityFacts
<1>2. Slot(x) \in 0..(cap - 1)
  BY <1>1, Remainder DEF Slot
<1>3. Slot(x + Wrap) = Slot(x)
  <2>1. PICK k \in Int : Wrap = k * cap
    BY <1>1
  <2>2. (x + k * cap) % cap = x % cap
    BY <1>1, RemainderShift, Zenon
  <2>3. QED
    BY <2>1, <2>2, Zenon DEF Slot
<1>4. \A d \in 1..(cap - 1) : Slot(x + d) # Slot(x)
  BY <1>1, RemainderApart, Zenon DEF Slot
<1>5. QED
  BY <1>2, <1>3, <1>4

\* The types that the invariant gives, with the size of the ring.
LEMMA RingFacts ==
    ASSUME RingInv
    PROVE  /\ cap \in Capacities /\ cap \in Nat /\ cap >= 2 /\ 2 * cap <= Wrap
           /\ Wrap \in Nat \ {0} /\ None \notin Values
           /\ write \in Indices /\ read \in Indices
           /\ read_cache \in Indices /\ write_cache \in Indices
           /\ write \in Int /\ read \in Int
           /\ inflight \in Seq(Values) /\ Len(inflight) \in Nat /\ Len(inflight) <= cap
           /\ DOMAIN inflight = 1..Len(inflight)
<1>1. cap \in Capacities /\ {write, read, read_cache, write_cache} \subseteq Indices
      /\ inflight \in Seq(Values) /\ Len(inflight) <= cap
  BY DEF RingInv, RingHoldsInFlight, TypeOK
<1>2. /\ cap \in Nat /\ cap >= 2 /\ 2 * cap <= Wrap /\ Wrap \in Nat \ {0}
  BY <1>1, CapacityFacts
<1>3. None \notin Values
  BY RingAssumption
<1>4. QED
  BY <1>1, <1>2, <1>3 DEF Indices

\* write_ is where the next value after those in flight goes.
LEMMA WriteSlot ==
    ASSUME RingInv
    PROVE  Slot(write) = Slot(read + Len(inflight))
<1> DEFINE n == Len(inflight)
<1>1. /\ cap \in Capacities /\ Wrap \in Nat \ {0} /\ write \in Indices /\ read \in Indices
      /\ n \in Nat /\ write \in Int /\ read \in Int
  BY RingFacts
<1>2. n = IF write >= read THEN write - read ELSE write - read + Wrap
  <2>1. n = Minus(write, read)
    BY DEF RingInv, RingHoldsInFlight, TypeOK
  <2>2. QED
    BY <1>1, <2>1, MinusCases
<1> HIDE DEF n
<1>3. read + n = write \/ read + n = write + Wrap
  BY <1>1, <1>2
<1>4. Slot(write + Wrap) = Slot(write)
  BY <1>1, SlotFacts
<1>5. Slot(read + n) = Slot(write)
  BY <1>3, <1>4
<1>6. QED
  BY <1>5 DEF n

\* The slots of the ring from read_ on are different ones.
LEMMA SlotsApart ==
    ASSUME RingInv, NEW i \in Nat, NEW j \in Nat, i < j, j - i < cap
    PROVE  Slot(read + i) # Slot(read + j)
<1> DEFINE x == read + i
           d == j - i
<1>1. x \in Int /\ d \in 1..(cap - 1) /\ x + d = read + j /\ cap \in Capacities
  BY RingFacts, SMTT(40)
<1> HIDE DEF x, d
<1>2. Slot(x + d) # Slot(x)
  BY <1>1, SlotFacts
<1>3. QED
  BY <1>1, <1>2 DEF x

-----------------------------------------------------------------------------
(* Induction. *)

\* A fresh ring.
LEMMA RingInit == Init => RingInv
<1> SUFFICES ASSUME Init PROVE RingInv
  OBVIOUS
<1>1. cap \in Capacities /\ cap \in Nat /\ cap >= 2 /\ Wrap \in Nat \ {0}
  BY CapacityFacts DEF Init
<1>2. 0 \in Indices
  BY <1>1 DEF Indices
<1>3. Minus(0, 0) = 0
  BY <1>1, <1>2, MinusCases
<1>4. inflight = <<>> /\ Len(inflight) = 0 /\ inflight \in Seq(Values)
  BY DEF Init
<1>5. TypeOK
  BY <1>1, <1>2, <1>3, <1>4 DEF Init, TypeOK
<1>6. RingHoldsInFlight
  BY <1>4, <1>5 DEF RingHoldsInFlight
<1>7. CachesLag
  BY <1>1, <1>3, <1>4 DEF Init, CachesLag
<1>8. Progress
  BY DEF Init, Progress
<1>9. QED
  BY <1>6, <1>7, <1>8 DEF RingInv

\* push() looks at its copy of read_.
LEMMA PushStep ==
    ASSUME RingInv, NEW v \in Values, push(v)
    PROVE  RingInv'
<1>1. /\ UNCHANGED <<cap, slots, write, read_cache, read, write_cache, cpc, out, inflight>>
      /\ pval' = v /\ ppc' = IF IsFull(read_cache) THEN "reload" ELSE "fill"
  BY DEF push, consumerVars
<1>2. RingHoldsInFlight'
  BY <1>1 DEF RingInv, RingHoldsInFlight, TypeOK, Slot
<1>3. CachesLag'
  BY <1>1 DEF RingInv, CachesLag
<1>4. ppc' = "fill" => Minus(write, read_cache) < cap
  <2>1. Minus(write, read_cache) \in Nat /\ cap \in Nat
    BY RingFacts, IndexStep
  <2>2. QED
    BY <1>1, <2>1 DEF RingInv, CachesLag, IsFull
<1>5. Progress'
  BY <1>1, <1>4 DEF RingInv, Progress
<1>6. QED
  BY <1>2, <1>3, <1>5 DEF RingInv

\* push() loads read_: whatever value it gets is between its copy and read_.
LEMMA PushReloadStep ==
    ASSUME RingInv, push_reload
    PROVE  RingInv'
<1>1. /\ UNCHANGED <<cap, slots, write, read, write_cache, cpc, out, inflight>>
      /\ ppc = "reload" /\ read_cache' \in Load(read_cache, read)
      /\ \/ IsFull(read_cache') /\ ppc' = "idle" /\ pval' = None
         \/ ~IsFull(read_cache') /\ ppc' = "fill" /\ pval' = pval
  BY DEF push_reload, consumerVars
<1> DEFINE new == read_cache'
<1>2. new \in Indices /\ Minus(new, read_cache) + Minus(read, new) = Minus(read, read_cache)
  BY <1>1, RingFacts, LoadBetween
<1> HIDE DEF new
<1>3. Minus(write, new) = Minus(read, new) + Len(inflight) /\ Minus(write, new) <= cap
  <2>1. /\ Minus(write, new) = IF write >= new THEN write - new ELSE write - new + Wrap
        /\ Minus(read, new) = IF read >= new THEN read - new ELSE read - new + Wrap
        /\ Minus(new, read_cache) = IF new >= read_cache THEN new - read_cache ELSE new - read_cache + Wrap
    BY <1>2, RingFacts, MinusCases
  <2>2. /\ Minus(write, read_cache) = IF write >= read_cache THEN write - read_cache ELSE write - read_cache + Wrap
        /\ Minus(read, read_cache) = IF read >= read_cache THEN read - read_cache ELSE read - read_cache + Wrap
    BY RingFacts, MinusCases
  <2>3. /\ Minus(write, read_cache) = Minus(read, read_cache) + Len(inflight)
        /\ Minus(write, read_cache) <= cap
    BY DEF RingInv, CachesLag
  <2>4. /\ write \in Indices /\ read \in Indices /\ read_cache \in Indices
        /\ Len(inflight) \in Nat /\ Wrap \in Nat \ {0} /\ cap \in Nat
    BY RingFacts
  <2>5. QED
    BY <1>2, <2>1, <2>2, <2>3, <2>4, SMTT(40) DEF Indices
<1>4. RingHoldsInFlight'
  BY <1>1, <1>2 DEF RingInv, RingHoldsInFlight, TypeOK, Slot, new
<1>5. CachesLag'
  BY <1>1, <1>3 DEF RingInv, CachesLag, new
<1>6. ppc' = "fill" => Minus(write, new) < cap
  <2>1. Minus(write, new) \in Nat /\ cap \in Nat
    BY <1>2, RingFacts, IndexStep
  <2>2. QED
    BY <1>1, <1>3, <2>1 DEF IsFull, new
<1>7. Progress'
  BY <1>1, <1>6 DEF RingInv, Progress, new
<1>8. QED
  BY <1>4, <1>5, <1>7 DEF RingInv

\* push() fills a slot that holds nothing in flight.
LEMMA PushFillStep ==
    ASSUME RingInv, push_fill
    PROVE  RingInv'
<1> DEFINE n == Len(inflight)
           s == Slot(write)
<1>1. /\ UNCHANGED <<cap, write, read_cache, pval, read, write_cache, cpc, out, inflight>>
      /\ ppc = "fill" /\ ppc' = "publish" /\ slots' = [slots EXCEPT ![s] = pval]
  BY DEF push_fill, consumerVars
<1>2. /\ n \in Nat /\ n < cap /\ cap \in Capacities /\ cap \in Nat /\ read \in Int /\ write \in Int
      /\ DOMAIN inflight = 1..n
  <2>1. Minus(write, read_cache) < cap /\ Minus(write, read_cache) = Minus(read, read_cache) + n
    BY <1>1 DEF RingInv, Progress, CachesLag
  <2>2. Minus(read, read_cache) \in Nat /\ n \in Nat /\ cap \in Nat
    BY RingFacts, IndexStep
  <2>3. QED
    BY <2>1, <2>2, RingFacts
<1>3. s \in 0..(cap - 1) /\ slots \in [0..(cap - 1) -> Values \cup {None}]
  BY <1>2, SlotFacts DEF RingInv, RingHoldsInFlight, TypeOK
<1>4. pval \in Values
  BY <1>1 DEF RingInv, Progress
<1>5. ASSUME NEW i \in 1..n
      PROVE  slots'[Slot(read + i - 1)] = slots[Slot(read + i - 1)]
  <2> DEFINE k == i - 1
  <2>2. k \in Nat /\ k < n /\ n - k < cap /\ read + i - 1 = read + k
    BY <1>2
  <2> HIDE DEF k
  <2>3. Slot(read + k) # s
    BY <1>2, <2>2, SlotsApart, WriteSlot
  <2>4. Slot(read + k) \in 0..(cap - 1)
    <3>1. read + k \in Int
      BY <1>2, <2>2
    <3>2. QED
      BY <1>2, <3>1, SlotFacts
  <2> HIDE DEF s
  <2>5. slots'[Slot(read + k)] = slots[Slot(read + k)]
    BY <1>1, <1>3, <2>3, <2>4
  <2>6. QED
    BY <2>2, <2>5
<1>6. slots' \in [0..(cap - 1) -> Values \cup {None}] /\ slots'[s] = pval
  BY <1>1, <1>3, <1>4
<1>7. TypeOK'
  BY <1>1, <1>6 DEF RingInv, RingHoldsInFlight, TypeOK
<1>8. Slot(write)' = s /\ \A i \in 1..n : Slot(read + i - 1)' = Slot(read + i - 1)
  BY <1>1 DEF Slot
<1>9. RingHoldsInFlight'
  BY <1>1, <1>2, <1>5, <1>7, <1>8 DEF RingInv, RingHoldsInFlight
<1>10. CachesLag' /\ Progress'
  BY <1>1, <1>6, <1>8 DEF RingInv, CachesLag, Progress
<1>11. QED
  BY <1>9, <1>10 DEF RingInv

\* The release store of write_ puts the filled slot in flight.
LEMMA PushPublishStep ==
    ASSUME RingInv, push_publish
    PROVE  /\ RingInv'
           /\ Len(inflight) < cap /\ pval \in Values /\ inflight' = Append(inflight, pval)
<1> DEFINE n == Len(inflight)
           w == (write + 1) % Wrap
<1>1. /\ UNCHANGED <<cap, slots, read_cache, read, write_cache, cpc, out>>
      /\ ppc = "publish" /\ ppc' = "idle" /\ pval' = None
      /\ write' = w /\ inflight' = Append(inflight, pval)
  BY DEF push_publish, consumerVars
<1>2. /\ Minus(write, read_cache) < cap /\ Minus(write, read_cache) = Minus(read, read_cache) + n
      /\ n = Minus(write_cache, read) + Minus(write, write_cache) /\ n = Minus(write, read)
      /\ pval \in Values /\ slots[Slot(write)] = pval
  BY <1>1 DEF RingInv, Progress, CachesLag, RingHoldsInFlight, TypeOK
<1>3. /\ cap \in Nat /\ 2 * cap <= Wrap /\ Wrap \in Nat \ {0} /\ cap >= 2
      /\ n \in Nat /\ DOMAIN inflight = 1..n /\ inflight \in Seq(Values)
  BY RingFacts
<1>4. /\ Minus(read, read_cache) \in Nat /\ Minus(write_cache, read) \in Nat
      /\ Minus(write, write_cache) \in Nat /\ Minus(write, read) \in Nat
      /\ Minus(write, read_cache) \in Nat
  BY RingFacts, IndexStep
<1>5. /\ Minus(write, read_cache) < Wrap - 1 /\ Minus(write, read) < Wrap - 1
      /\ Minus(write, write_cache) < Wrap - 1 /\ n < cap
  BY <1>2, <1>3, <1>4
<1>6. /\ w \in Indices
      /\ Minus(w, read_cache) = Minus(write, read_cache) + 1
      /\ Minus(w, read) = Minus(write, read) + 1
      /\ Minus(w, write_cache) = Minus(write, write_cache) + 1
  BY <1>5, RingFacts, IndexStep
<1> HIDE DEF w
<1>7. /\ inflight' \in Seq(Values) /\ Len(inflight') = n + 1 /\ DOMAIN inflight' = 1..(n + 1)
      /\ \A i \in 1..n : inflight'[i] = inflight[i]
      /\ inflight'[n + 1] = pval
  BY <1>1, <1>2, <1>3
<1>8. TypeOK'
  <2>1. n + 1 <= cap
    BY <1>3, <1>5
  <2>2. Len(inflight') = Minus(w, read) /\ Len(inflight') <= cap
    BY <1>2, <1>6, <1>7, <2>1
  <2>3. {w, read, read_cache, write_cache} \subseteq Indices
    BY <1>6, RingFacts
  <2>4. QED
    BY <1>1, <1>7, <2>2, <2>3 DEF RingInv, RingHoldsInFlight, TypeOK
<1>9. CachesLag'
  <2>1. /\ Minus(w, read_cache) = Minus(read, read_cache) + (n + 1)
        /\ Minus(w, read_cache) <= cap
        /\ n + 1 = Minus(write_cache, read) + Minus(w, write_cache)
    BY <1>2, <1>3, <1>4, <1>6
  <2>2. QED
    BY <1>1, <1>7, <2>1 DEF CachesLag
<1>10. ASSUME NEW i \in 1..(n + 1)
       PROVE  IF i = 1 /\ cpc = "release" THEN out = inflight'[1]
              ELSE slots[Slot(read + i - 1)] = inflight'[i]
  <2>1. CASE i <= n
    <3>1. i \in 1..n /\ 1 \in 1..n
      BY <1>3, <2>1
    <3>2. IF i = 1 /\ cpc = "release" THEN out = inflight[1]
          ELSE slots[Slot(read + i - 1)] = inflight[i]
      BY <1>3, <3>1 DEF RingInv, RingHoldsInFlight
    <3>3. QED
      BY <1>7, <3>1, <3>2
  <2>2. CASE i = n + 1
    <3>1. read + i - 1 = read + n
      BY <1>3, <2>2, RingFacts
    <3>2. slots[Slot(read + i - 1)] = pval
      BY <1>2, <3>1, WriteSlot
    <3>3. cpc = "release" => n >= 1
      <4>1. cpc = "release" => read # write_cache
        BY DEF RingInv, Progress
      <4>2. Minus(write_cache, read) = 0 <=> write_cache = read
        BY RingFacts, IndexStep
      <4>3. QED
        BY <1>2, <1>3, <1>4, <4>1, <4>2
    <3>4. ~(i = 1 /\ cpc = "release")
      BY <1>3, <2>2, <3>3
    <3>5. QED
      BY <1>7, <2>2, <3>2, <3>4
  <2>3. QED
    BY <1>3, <2>1, <2>2
<1>11. RingHoldsInFlight'
  <2>1. \A i \in 1..(n + 1) : Slot(read + i - 1)' = Slot(read + i - 1)
    BY <1>1 DEF Slot
  <2>2. QED
    BY <1>1, <1>7, <1>8, <1>10, <2>1 DEF RingHoldsInFlight
<1>12. Progress'
  BY <1>1 DEF RingInv, Progress
<1>13. QED
  BY <1>1, <1>2, <1>5, <1>9, <1>11, <1>12 DEF RingInv

\* pop() looks at its copy of write_.
LEMMA PopStep ==
    ASSUME RingInv, pop
    PROVE  RingInv'
<1>1. /\ UNCHANGED <<cap, slots, write, read_cache, ppc, pval, read, write_cache, out, inflight>>
      /\ cpc = "idle" /\ cpc' = IF read = write_cache THEN "reload" ELSE "take"
  BY DEF pop, producerVars
<1>2. RingHoldsInFlight'
  BY <1>1 DEF RingInv, RingHoldsInFlight, TypeOK, Slot
<1>3. CachesLag'
  BY <1>1 DEF RingInv, CachesLag
<1>4. Progress'
  BY <1>1 DEF RingInv, Progress, Slot
<1>5. QED
  BY <1>2, <1>3, <1>4 DEF RingInv

\* pop() loads write_: whatever value it gets is between its copy and write_.
LEMMA PopReloadStep ==
    ASSUME RingInv, pop_reload
    PROVE  RingInv'
<1>1. /\ UNCHANGED <<cap, slots, write, read_cache, ppc, pval, read, out, inflight>>
      /\ cpc = "reload" /\ write_cache' \in Load(write_cache, write)
      /\ cpc' = IF read = write_cache' THEN "idle" ELSE "take"
  BY DEF pop_reload, producerVars
<1> DEFINE new == write_cache'
<1>2. new \in Indices /\ Minus(new, write_cache) + Minus(write, new) = Minus(write, write_cache)
  BY <1>1, RingFacts, LoadBetween
<1> HIDE DEF new
<1>3. Len(inflight) = Minus(new, read) + Minus(write, new)
  <2>1. /\ Minus(write, new) = IF write >= new THEN write - new ELSE write - new + Wrap
        /\ Minus(new, read) = IF new >= read THEN new - read ELSE new - read + Wrap
        /\ Minus(new, write_cache) = IF new >= write_cache THEN new - write_cache ELSE new - write_cache + Wrap
    BY <1>2, RingFacts, MinusCases
  <2>2. /\ Minus(write, write_cache) = IF write >= write_cache THEN write - write_cache ELSE write - write_cache + Wrap
        /\ Minus(write_cache, read) = IF write_cache >= read THEN write_cache - read ELSE write_cache - read + Wrap
        /\ Minus(write, read) = IF write >= read THEN write - read ELSE write - read + Wrap
    BY RingFacts, MinusCases
  <2>3. /\ Len(inflight) = Minus(write_cache, read) + Minus(write, write_cache)
        /\ Len(inflight) = Minus(write, read)
    BY DEF RingInv, CachesLag, RingHoldsInFlight, TypeOK
  <2>4. /\ write \in Indices /\ read \in Indices /\ write_cache \in Indices
        /\ Len(inflight) \in Nat /\ Wrap \in Nat \ {0}
    BY RingFacts
  <2>5. QED
    BY <1>2, <2>1, <2>2, <2>3, <2>4 DEF Indices
<1>4. RingHoldsInFlight'
  BY <1>1, <1>2 DEF RingInv, RingHoldsInFlight, TypeOK, Slot, new
<1>5. CachesLag'
  BY <1>1, <1>3 DEF RingInv, CachesLag, new
<1>6. Progress'
  BY <1>1 DEF RingInv, Progress, Slot
<1>7. QED
  BY <1>4, <1>5, <1>6 DEF RingInv

\* pop() moves the oldest value out; no other slot that matters is that one.
LEMMA PopTakeStep ==
    ASSUME RingInv, pop_take
    PROVE  RingInv'
<1> DEFINE n == Len(inflight)
           s == Slot(read)
<1>1. /\ UNCHANGED <<cap, write, read_cache, ppc, pval, read, write_cache, inflight>>
      /\ cpc = "take" /\ cpc' = "release" /\ out' = slots[s]
      /\ slots' = [slots EXCEPT ![s] = None]
  BY DEF pop_take, producerVars
<1>2. /\ n \in Nat /\ n >= 1 /\ n <= cap /\ cap \in Capacities /\ cap \in Nat
      /\ read \in Int /\ DOMAIN inflight = 1..n
  <2>1. read # write_cache /\ n = Minus(write_cache, read) + Minus(write, write_cache)
    BY <1>1 DEF RingInv, Progress, CachesLag
  <2>2. /\ Minus(write_cache, read) \in Nat /\ Minus(write, write_cache) \in Nat
        /\ (Minus(write_cache, read) = 0 <=> write_cache = read)
    BY RingFacts, IndexStep
  <2>3. QED
    BY <2>1, <2>2, RingFacts
<1>3. s \in 0..(cap - 1) /\ slots \in [0..(cap - 1) -> Values \cup {None}]
  BY <1>2, SlotFacts DEF RingInv, RingHoldsInFlight, TypeOK
<1>4. out' = inflight[1]
  <2>1. 1 \in DOMAIN inflight /\ read + 1 - 1 = read /\ cpc # "release"
    BY <1>1, <1>2
  <2>2. slots[Slot(read + 1 - 1)] = inflight[1]
    BY <2>1 DEF RingInv, RingHoldsInFlight
  <2>3. QED
    BY <1>1, <2>1, <2>2
<1>5. ASSUME NEW k \in Nat, k > 0, k < cap
      PROVE  slots'[Slot(read + k)] = slots[Slot(read + k)]
  <2>1. Slot(read + k) # Slot(read + 0) /\ read + 0 = read
    BY <1>2, <1>5, SlotsApart
  <2>2. Slot(read + k) \in 0..(cap - 1)
    <3>1. read + k \in Int
      BY <1>2
    <3>2. QED
      BY <1>2, <3>1, SlotFacts
  <2>3. Slot(read + k) # s
    BY <2>1
  <2> HIDE DEF s
  <2>4. QED
    BY <1>1, <1>3, <2>2, <2>3
<1>6. ASSUME NEW i \in 2..n
      PROVE  slots'[Slot(read + i - 1)] = inflight[i]
  <2> DEFINE k == i - 1
  <2>1. k \in Nat /\ k > 0 /\ k < cap /\ read + i - 1 = read + k /\ i \in DOMAIN inflight /\ i # 1
    BY <1>2
  <2>2. slots[Slot(read + i - 1)] = inflight[i]
    BY <1>1, <2>1 DEF RingInv, RingHoldsInFlight
  <2> HIDE DEF k
  <2>3. slots'[Slot(read + k)] = slots[Slot(read + k)]
    BY <1>5, <2>1
  <2>4. QED
    BY <2>1, <2>2, <2>3
<1>7. ppc = "publish" => slots'[Slot(write)] = slots[Slot(write)]
  <2> SUFFICES ASSUME ppc = "publish" PROVE slots'[Slot(write)] = slots[Slot(write)]
    OBVIOUS
  <2>1. Minus(write, read_cache) < cap /\ Minus(write, read_cache) = Minus(read, read_cache) + n
    BY DEF RingInv, Progress, CachesLag
  <2>2. Minus(read, read_cache) \in Nat
    BY RingFacts, IndexStep
  <2>3. n > 0 /\ n < cap
    BY <1>2, <2>1, <2>2
  <2>4. slots'[Slot(read + n)] = slots[Slot(read + n)]
    BY <1>2, <1>5, <2>3
  <2>5. QED
    BY <2>4, WriteSlot
<1>8. TypeOK'
  <2>1. slots' \in [0..(cap - 1) -> Values \cup {None}] /\ out' \in Values \cup {None}
    BY <1>1, <1>3
  <2>2. QED
    BY <1>1, <2>1 DEF RingInv, RingHoldsInFlight, TypeOK
<1>9. Slot(write)' = Slot(write) /\ \A i \in 1..n : Slot(read + i - 1)' = Slot(read + i - 1)
  BY <1>1 DEF Slot
<1>10. RingHoldsInFlight'
  <2>1. \A i \in 1..n : i = 1 \/ i \in 2..n
    BY <1>2
  <2>2. QED
    BY <1>1, <1>2, <1>4, <1>6, <1>8, <1>9, <2>1 DEF RingHoldsInFlight
<1>11. CachesLag' /\ Progress'
  BY <1>1, <1>7, <1>9 DEF RingInv, CachesLag, Progress
<1>12. QED
  BY <1>10, <1>11 DEF RingInv

\* The release store of read_ gives the emptied slot back.
LEMMA PopReleaseStep ==
    ASSUME RingInv, pop_release
    PROVE  RingInv' /\ inflight # <<>> /\ inflight' = Tail(inflight)
<1> DEFINE n == Len(inflight)
           r == (read + 1) % Wrap
<1>1. /\ UNCHANGED <<cap, slots, write, read_cache, ppc, pval, write_cache>>
      /\ cpc = "release" /\ cpc' = "idle" /\ out' = None
      /\ read' = r /\ inflight' = Tail(inflight)
  BY DEF pop_release, producerVars
<1>2. /\ Minus(write, read_cache) <= cap /\ Minus(write, read_cache) = Minus(read, read_cache) + n
      /\ n = Minus(write_cache, read) + Minus(write, write_cache) /\ n = Minus(write, read)
      /\ read # write_cache
  BY <1>1 DEF RingInv, Progress, CachesLag, RingHoldsInFlight, TypeOK
<1>3. /\ cap \in Nat /\ 2 * cap <= Wrap /\ Wrap \in Nat \ {0} /\ cap >= 2 /\ cap \in Capacities
      /\ n \in Nat /\ DOMAIN inflight = 1..n /\ inflight \in Seq(Values) /\ n <= cap
      /\ read \in Indices /\ read \in Int
  BY RingFacts
<1>4. /\ Minus(read, read_cache) \in Nat /\ Minus(write_cache, read) \in Nat
      /\ Minus(write, write_cache) \in Nat
      /\ (Minus(write_cache, read) = 0 <=> write_cache = read)
  BY RingFacts, IndexStep
<1>5. /\ Minus(read, read_cache) < Wrap - 1 /\ Minus(write, read) > 0
      /\ Minus(write_cache, read) > 0 /\ n >= 1
  BY <1>2, <1>3, <1>4
<1>6. /\ r \in Indices
      /\ Minus(r, read_cache) = Minus(read, read_cache) + 1
      /\ Minus(write, r) = Minus(write, read) - 1
      /\ Minus(write_cache, r) = Minus(write_cache, read) - 1
  BY <1>5, RingFacts, IndexStep
<1>7. r = read + 1 \/ r + Wrap = read + 1
  <2> DEFINE x == read + 1
  <2>1. x \in Nat /\ x < 2 * Wrap
    BY <1>3 DEF Indices
  <2> HIDE DEF x
  <2>2. x % Wrap = IF x < Wrap THEN x ELSE x - Wrap
    BY <1>3, <2>1, Reduced
  <2>3. x % Wrap = x \/ (x % Wrap) + Wrap = x
    BY <1>3, <2>1, <2>2
  <2>4. QED
    BY <2>3 DEF x
<1> HIDE DEF r
<1>8. /\ inflight' \in Seq(Values) /\ Len(inflight') = n - 1 /\ DOMAIN inflight' = 1..(n - 1)
      /\ \A i \in 1..(n - 1) : inflight'[i] = inflight[i + 1]
      /\ inflight # <<>>
  BY <1>1, <1>3, <1>5
<1>9. TypeOK'
  <2>1. Len(inflight') = Minus(write, r) /\ Len(inflight') <= cap
    BY <1>2, <1>3, <1>6, <1>8
  <2>2. {write, r, read_cache, write_cache} \subseteq Indices
    BY <1>6, RingFacts
  <2>3. QED
    BY <1>1, <1>8, <2>1, <2>2 DEF RingInv, RingHoldsInFlight, TypeOK
<1>10. CachesLag'
  <2>1. /\ Minus(write, read_cache) = Minus(r, read_cache) + (n - 1)
        /\ n - 1 = Minus(write_cache, r) + Minus(write, write_cache)
    <3> HIDE DEF n
    <3>1. Minus(write, read_cache) = Minus(r, read_cache) + (n - 1)
      BY <1>2, <1>3, <1>4, <1>6
    <3>2. n - 1 = Minus(write_cache, r) + Minus(write, write_cache)
      BY <1>2, <1>3, <1>4, <1>6
    <3>3. QED
      BY <3>1, <3>2
  <2>2. QED
    BY <1>1, <1>2, <1>8, <2>1 DEF CachesLag
<1>11. ASSUME NEW i \in 1..(n - 1)
       PROVE  slots[Slot(r + i - 1)] = inflight'[i]
  <2>1. i + 1 \in DOMAIN inflight /\ i + 1 # 1 /\ read + (i + 1) - 1 = read + i
    BY <1>3
  <2>2. slots[Slot(read + (i + 1) - 1)] = inflight[i + 1]
    BY <2>1 DEF RingInv, RingHoldsInFlight
  <2>3. Slot(r + i - 1) = Slot(read + i)
    <3> DEFINE x == r + i - 1
    <3>1. x \in Int /\ (x = read + i \/ x + Wrap = read + i)
      BY <1>3, <1>6, <1>7 DEF Indices
    <3> HIDE DEF x
    <3>2. Slot(x + Wrap) = Slot(x)
      BY <1>3, <3>1, SlotFacts
    <3>3. Slot(x) = Slot(read + i)
      BY <3>1, <3>2
    <3>4. QED
      BY <3>3 DEF x
  <2>4. QED
    BY <1>8, <2>1, <2>2, <2>3
<1>12. RingHoldsInFlight'
  <2>1. \A i \in 1..(n - 1) : Slot(read + i - 1)' = Slot(r + i - 1)
    BY <1>1 DEF Slot
  <2>2. QED
    BY <1>1, <1>8, <1>9, <1>11, <2>1 DEF RingHoldsInFlight
<1>13. Progress'
  BY <1>1 DEF RingInv, Progress, Slot
<1>14. QED
  BY <1>1, <1>8, <1>10, <1>12, <1>13 DEF RingInv

\* Every step preserves the invariant.
LEMMA RingNext == RingInv /\ [Next]_vars => RingInv'
<1> SUFFICES ASSUME RingInv, [Next]_vars PROVE RingInv'
  OBVIOUS
<1>1. CASE UNCHANGED vars
  BY <1>1 DEF vars, RingInv, RingHoldsInFlight, TypeOK, CachesLag, Progress, Slot
<1>2. QED
  BY <1>1, PushStep, PushReloadStep, PushFillStep, PushPublishStep,
     PopStep, PopReloadStep, PopTakeStep, PopReleaseStep DEF Next

\* The invariant holds in every reachable state.
LEMMA RingAlways == Spec => []RingInv
BY RingInit, RingNext, PTL DEF Spec

-----------------------------------------------------------------------------
(* The theorems. *)

\* The slots hold what is in flight, in order, although nothing locks them.
THEOREM HoldsInFlight == Spec => []RingHoldsInFlight
<1>1. RingInv => RingHoldsInFlight
  BY DEF RingInv
<1>2. QED
  BY <1>1, RingAlways, PTL

\* size() neither underflows nor exceeds the capacity for either side.
THEOREM SizeStaysInBounds == Spec => []SizeInBounds
<1>1. ASSUME RingInv PROVE SizeInBounds
  <2>1. /\ write \in Indices /\ read \in Indices /\ read_cache \in Indices /\ write_cache \in Indices
        /\ Len(inflight) \in Nat /\ Wrap \in Nat \ {0} /\ cap \in Nat
    BY <1>1, RingFacts
  <2>2. /\ Minus(write, read_cache) = Minus(read, read_cache) + Len(inflight)
        /\ Minus(write, read_cache) <= cap
        /\ Len(inflight) = Minus(write_cache, read) + Minus(write, write_cache)
        /\ Len(inflight) = Minus(write, read)
    BY <1>1 DEF RingInv, CachesLag, RingHoldsInFlight, TypeOK
  <2>3. /\ Minus(write, read_cache) = IF write >= read_cache THEN write - read_cache ELSE write - read_cache + Wrap
        /\ Minus(read, read_cache) = IF read >= read_cache THEN read - read_cache ELSE read - read_cache + Wrap
        /\ Minus(write, write_cache) = IF write >= write_cache THEN write - write_cache ELSE write - write_cache + Wrap
        /\ Minus(write_cache, read) = IF write_cache >= read THEN write_cache - read ELSE write_cache - read + Wrap
        /\ Minus(write, read) = IF write >= read THEN write - read ELSE write - read + Wrap
    BY <2>1, MinusCases
  <2>4. ASSUME NEW r \in Load(read_cache, read)
        PROVE  Len(inflight) <= Minus(write, r) /\ Minus(write, r) <= cap
    <3>1. r \in Indices /\ Minus(r, read_cache) + Minus(read, r) = Minus(read, read_cache)
      BY <2>1, LoadBetween
    <3>2. /\ Minus(write, r) = IF write >= r THEN write - r ELSE write - r + Wrap
          /\ Minus(read, r) = IF read >= r THEN read - r ELSE read - r + Wrap
          /\ Minus(r, read_cache) = IF r >= read_cache THEN r - read_cache ELSE r - read_cache + Wrap
      BY <2>1, <3>1, MinusCases
    <3>3. QED
      BY <2>1, <2>2, <2>3, <3>1, <3>2 DEF Indices
  <2>5. ASSUME NEW w \in Load(write_cache, write)
        PROVE  Minus(w, read) <= Len(inflight)
    <3>1. w \in Indices /\ Minus(w, write_cache) + Minus(write, w) = Minus(write, write_cache)
      BY <2>1, LoadBetween
    <3>2. /\ Minus(w, read) = IF w >= read THEN w - read ELSE w - read + Wrap
          /\ Minus(write, w) = IF write >= w THEN write - w ELSE write - w + Wrap
          /\ Minus(w, write_cache) = IF w >= write_cache THEN w - write_cache ELSE w - write_cache + Wrap
      BY <2>1, <3>1, MinusCases
    <3>3. QED
      BY <2>1, <2>2, <2>3, <3>1, <3>2 DEF Indices
  <2>6. QED
    BY <2>4, <2>5 DEF SizeInBounds, size_for_producer, size_for_consumer
<1>2. QED
  BY <1>1, RingAlways, PTL

\* push() and pop() never access one slot at the same time: there is no data race.
THEOREM NoSlotRace == Spec => []SlotsExclusive
<1>1. ASSUME RingInv, ppc = "fill", cpc = "take" PROVE Slot(write) # Slot(read)
  <2> DEFINE n == Len(inflight)
  <2>1. /\ Minus(write, read_cache) < cap /\ Minus(write, read_cache) = Minus(read, read_cache) + n
        /\ read # write_cache /\ n = Minus(write_cache, read) + Minus(write, write_cache)
    BY <1>1 DEF RingInv, Progress, CachesLag
  <2>2. /\ Minus(read, read_cache) \in Nat /\ Minus(write_cache, read) \in Nat
        /\ Minus(write, write_cache) \in Nat
        /\ (Minus(write_cache, read) = 0 <=> write_cache = read)
    BY <1>1, RingFacts, IndexStep
  <2>3. n \in Nat /\ cap \in Nat /\ read \in Int
    BY <1>1, RingFacts
  <2>4. 0 < n /\ n - 0 < cap /\ read + 0 = read
    BY <2>1, <2>2, <2>3
  <2>5. Slot(read + 0) # Slot(read + n)
    BY <1>1, <2>3, <2>4, SlotsApart
  <2>6. QED
    BY <1>1, <2>4, <2>5, WriteSlot
<1>2. RingInv => SlotsExclusive
  BY <1>1 DEF SlotsExclusive
<1>3. QED
  BY <1>2, RingAlways, PTL

\* The ring refines the atomic FIFO: the stores of write_ and of read_ are the
\* moments at which push() and pop() take effect, every other step is invisible.
THEOREM RingImplementsFifo == Spec => RingIsFifo
<1>1. Init => Fifo!FifoInit
  BY CapacityFacts DEF Init, Fifo!FifoInit
<1>2. ASSUME RingInv, [Next]_vars PROVE [Fifo!FifoNext]_Fifo!fifoVars
  <2>1. CASE push_publish
    <3>1. /\ Len(inflight) < cap /\ pval \in Values /\ inflight' = Append(inflight, pval)
          /\ cap' = cap
      BY <1>2, <2>1, PushPublishStep DEF push_publish
    <3>2. Fifo!Put(pval)
      BY <3>1 DEF Fifo!Put
    <3>3. QED
      BY <3>1, <3>2 DEF Fifo!FifoNext
  <2>2. CASE pop_release
    <3>1. inflight # <<>> /\ inflight' = Tail(inflight) /\ cap' = cap
      BY <1>2, <2>2, PopReleaseStep DEF pop_release
    <3>2. Fifo!Get
      BY <3>1 DEF Fifo!Get
    <3>3. QED
      BY <3>2 DEF Fifo!FifoNext
  <2>3. CASE \/ UNCHANGED vars
             \/ \E v \in Values : push(v)
             \/ push_reload \/ push_fill \/ pop \/ pop_reload \/ pop_take
    <3>1. UNCHANGED <<inflight, cap>>
      BY <2>3 DEF vars, push, push_reload, push_fill, pop, pop_reload, pop_take
    <3>2. QED
      BY <3>1 DEF Fifo!fifoVars
  <2>4. QED
    BY <1>2, <2>1, <2>2, <2>3 DEF Next
<1>3. QED
  BY <1>1, <1>2, RingAlways, PTL DEF Spec, RingIsFifo, Fifo!FifoSpec
=============================================================================
