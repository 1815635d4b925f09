------------------------ MODULE MessageStreamProofs ------------------------
(***************************************************************************)
(* Proofs about Framing, MessageHeader and MessageStream, for bytes of     *)
(* every size, all headers and payloads, and pieces of every length.       *)
(***************************************************************************)
EXTENDS MessageStream, DataLemmas

\* What a byte has room for.
LEMMA Room ==
    /\ Bits \in Nat /\ 2^Bits \in Nat /\ 2^Bits >= 1
    /\ \A n \in Nat : /\ Bits * n \in Nat /\ 2^(Bits * n) \in Nat /\ 2^(Bits * n) >= 1
                      /\ 2^(Bits * (n + 1)) = 2^(Bits * n) * 2^Bits
    /\ 2^(Bits * 0) = 1
<1>1. Bits \in Nat
  BY BitsAssumption
<1>2. ASSUME NEW n \in Nat
      PROVE  /\ Bits * n \in Nat /\ 2^(Bits * n) \in Nat /\ 2^(Bits * n) >= 1
             /\ 2^(Bits * (n + 1)) = 2^(Bits * n) * 2^Bits
  <2> DEFINE a == Bits * n
  <2>1. a \in Nat /\ Bits * (n + 1) = a + Bits
    BY <1>1
  <2> HIDE DEF a
  <2>2. 2^a \in Nat /\ 2^a >= 1 /\ 2^(a + Bits) = 2^a * 2^Bits
    BY <1>1, <2>1, PowerStep, PowerAdd
  <2>3. QED
    BY <2>1, <2>2 DEF a
<1>3. 2^(Bits * 0) = 1
  <2>1. Bits * 0 = 0 /\ 2^0 = 1
    BY <1>1, PowerStep
  <2>2. QED
    BY <2>1
<1>4. QED
  BY <1>1, <1>2, <1>3, PowerStep

\* put() makes n bytes.
LEMMA PutType ==
    ASSUME NEW v \in Nat, NEW n \in Nat
    PROVE  put(v, n) \in Seq(Byte) /\ Len(put(v, n)) = n
<1> DEFINE e(i) == (v \div 2^(Bits * (i - 1))) % 2^Bits
<1>1. \A i \in 1..n : e(i) \in Byte
  <2>1. ASSUME NEW i \in 1..n
        PROVE  e(i) \in Byte
    <3> DEFINE k == i - 1
               P == 2^(Bits * k)
               B == 2^Bits
               q == v \div P
    <3>1. k \in Nat
      OBVIOUS
    <3>2. P \in Nat /\ P >= 1 /\ B \in Nat /\ B >= 1
      <4> HIDE DEF k
      <4>1. QED
        BY <3>1, Room
    <3> HIDE DEF P, B
    <3>3. q \in Int
      BY <3>2
    <3> HIDE DEF q
    <3>4. q % B \in 0..(B - 1)
      BY <3>2, <3>3
    <3>5. QED
      BY <3>4 DEF q, P, B, k, Byte
  <2>2. QED
    BY <2>1
<1> HIDE DEF e
<1>2. put(v, n) = [i \in 1..n |-> e(i)]
  BY DEF put, e
<1>3. QED
  BY <1>1, <1>2

\* The digits of a number, one more at a time.
LEMMA ModSplit ==
    ASSUME NEW v \in Nat, NEW P \in Nat, P >= 1, NEW B \in Nat, B >= 1
    PROVE  /\ v % (P * B) = (v % P) + ((v \div P) % B) * P
           /\ v % P \in Nat /\ (v \div P) % B \in Nat
<1>1. PICK q \in Nat, r \in 0..(P - 1) : v = q * P + r
  BY DivMod
<1>2. PICK a \in Nat, d \in 0..(B - 1) : q = a * B + d
  BY DivMod
<1>3. r \in Nat /\ r < P /\ d \in Nat /\ d < B
  OBVIOUS
<1>4. (q * P + r) \div P = q /\ (q * P + r) % P = r
  BY <1>3, DivIs, Zenon
<1>5. (a * B + d) % B = d
  BY <1>3, DivIs, Zenon
<1>6. v \div P = q /\ v % P = r /\ (v \div P) % B = d
  BY <1>1, <1>2, <1>4, <1>5, Zenon
<1> DEFINE M == P * B
           t == d * P + r
<1>7. M \in Nat /\ M >= 1 /\ t \in Nat /\ t < M
  <2>1. M \in Nat /\ M >= 1
    OBVIOUS
  <2>2. d * P <= (B - 1) * P /\ (B - 1) * P = M - P /\ d * P \in Nat
    BY <1>3
  <2> HIDE DEF M
  <2>3. QED
    BY <1>3, <2>1, <2>2
<1>8. v = a * M + t
  <2>1. q * P = (a * B) * P + d * P /\ (a * B) * P = a * M
    BY <1>2, <1>3
  <2>2. a * M \in Nat /\ d * P \in Nat
    BY <1>3, <1>7
  <2> HIDE DEF M
  <2>3. \A x, y \in Nat : v = (x + y) + r => v = x + (y + r)
    BY <1>3
  <2>4. v = (a * M + d * P) + r
    BY <1>1, <2>1
  <2>5. QED
    BY <2>2, <2>3, <2>4
<1> HIDE DEF M, t
<1>9. (a * M + t) % M = t
  BY <1>7, DivIs, Zenon
<1>10. v % M = t
  BY <1>8, <1>9, Zenon
<1>11. \A x \in Nat : x + r = r + x
  BY <1>3
<1>12. d * P \in Nat
  BY <1>3
<1>13. QED
  BY <1>3, <1>6, <1>10, <1>11, <1>12 DEF M, t

\* The bytes b hold v behind the first x, in n bytes.
HoldsAt(b, x, v, n) == \A i \in 1..n : b[x + i] = put(v, n)[i]

\* The n bytes behind the first x of b and the first y of c are the same.
SameAt(b, x, c, y, n) == \A i \in 1..n : b[x + i] = c[y + i]

\* What stands at the start of a frame: its magic, its length, its payload.
FrameAt(b, x, p) ==
    /\ get(b, x, 4) = kFrameMagic /\ get(b, x + 4, 4) = Len(p)
    /\ \A i \in 1..Len(p) : b[x + (8 + i)] = p[i]

\* get() is the inverse of put(), for numbers that fit.
LEMMA GetPut ==
    ASSUME NEW n \in Nat, NEW v \in Nat, v < 2^(Bits * n), NEW bytes, NEW offset \in Nat,
           HoldsAt(bytes, offset, v, n)
    PROVE  get(bytes, offset, n) = v
<1> DEFINE R(k) == 2^(Bits * k)
           B == 2^Bits
           f == [i \in 0..(n - 1) |-> bytes[offset + i + 1] * R(i)]
           K == {k \in 0..n : SumFunctionOnSet(f, 0..(k - 1)) = v % R(k)}
<1>1. B \in Nat /\ B >= 1 /\ R(0) = 1 /\ \A k \in Nat : R(k) \in Nat /\ R(k) >= 1 /\ R(k + 1) = R(k) * B
  BY Room
<1>2. \A i \in 0..(n - 1) : bytes[offset + i + 1] = (v \div R(i)) % B
  <2>1. ASSUME NEW i \in 0..(n - 1)
        PROVE  bytes[offset + i + 1] = (v \div R(i)) % B
    <3> DEFINE j == i + 1
    <3>1. j \in 1..n /\ offset + j = offset + i + 1 /\ j - 1 = i
      OBVIOUS
    <3> HIDE DEF j
    <3>2. bytes[offset + j] = (v \div 2^(Bits * (j - 1))) % 2^Bits
      BY <3>1 DEF put, HoldsAt
    <3>3. QED
      BY <3>1, <3>2
  <2>2. QED
    BY <2>1
<1> HIDE DEF R, B
<1>3. \A i \in 0..(n - 1) : /\ v % (R(i) * B) = (v % R(i)) + ((v \div R(i)) % B) * R(i)
                            /\ v % R(i) \in Nat /\ (v \div R(i)) % B \in Nat
  <2>1. ASSUME NEW i \in 0..(n - 1)
        PROVE  /\ v % (R(i) * B) = (v % R(i)) + ((v \div R(i)) % B) * R(i)
               /\ v % R(i) \in Nat /\ (v \div R(i)) % B \in Nat
    <3> DEFINE P == R(i)
    <3>1. P \in Nat /\ P >= 1
      BY <1>1
    <3> HIDE DEF P
    <3>2. v % (P * B) = (v % P) + ((v \div P) % B) * P /\ v % P \in Nat /\ (v \div P) % B \in Nat
      BY <1>1, <3>1, ModSplit
    <3>3. QED
      BY <3>2 DEF P
  <2>2. QED
    BY <2>1
<1>4. \A i \in 0..(n - 1) : /\ f[i] = ((v \div R(i)) % B) * R(i) /\ f[i] \in Nat
                            /\ v % R(i + 1) = (v % R(i)) + f[i]
  <2>1. ASSUME NEW i \in 0..(n - 1)
        PROVE  f[i] = ((v \div R(i)) % B) * R(i) /\ f[i] \in Nat /\ v % R(i + 1) = (v % R(i)) + f[i]
    <3> DEFINE d == (v \div R(i)) % B
    <3>1. d \in Nat /\ R(i) \in Nat /\ R(i + 1) = R(i) * B
      BY <1>1, <1>3
    <3>2. f[i] = d * R(i)
      BY <1>2
    <3>3. v % (R(i) * B) = (v % R(i)) + d * R(i)
      BY <1>3
    <3> HIDE DEF d, f
    <3>4. d * R(i) \in Nat
      BY <3>1
    <3>5. QED
      BY <3>1, <3>2, <3>3, <3>4 DEF d
  <2>2. QED
    BY <2>1
<1>5. get(bytes, offset, n) = SumFunctionOnSet(f, 0..(n - 1))
  BY DEF get, R
<1> HIDE DEF f
<1>6. 0 \in K
  <2>1. 0..(0 - 1) = {}
    OBVIOUS
  <2>2. v % R(0) = 0
    <3>1. v % 1 = 0
      OBVIOUS
    <3>2. QED
      BY <1>1, <3>1
  <2>3. SumFunctionOnSet(f, {}) = 0
    BY SumEmpty
  <2>4. QED
    BY <2>1, <2>2, <2>3
<1>7. \A k \in 0..(n - 1) : k \in K => k + 1 \in K
  <2>1. ASSUME NEW k \in 0..(n - 1), k \in K
        PROVE  k + 1 \in K
    <3> DEFINE I == 0..(k - 1)
               m == k + 1
    <3>1. m \in 0..n /\ 0..(m - 1) = I \cup {k} /\ k \notin I /\ k \in Nat /\ I \cup {k} \subseteq 0..(n - 1)
      OBVIOUS
    <3>2. IsFiniteSet(I)
      BY FS_Interval
    <3>3. SumFunctionOnSet(f, I) = v % R(k)
      BY <2>1
    <3>4. v % R(m) = (v % R(k)) + f[k]
      BY <1>4
    <3> HIDE DEF I, m
    <3>5. \A x \in I \cup {k} : f[x] \in Nat
      BY <1>4, <3>1
    <3>6. SumFunctionOnSet(f, I \cup {k}) = SumFunctionOnSet(f, I) + f[k]
      BY <3>1, <3>2, <3>5, SumInsert
    <3>7. SumFunctionOnSet(f, 0..(m - 1)) = v % R(m)
      BY <3>1, <3>3, <3>4, <3>6
    <3>8. m \in K
      BY <3>1, <3>7
    <3>9. QED
      BY <3>8 DEF m
  <2>2. QED
    BY <2>1
<1>8. n \in K
  <2> HIDE DEF K
  <2>1. QED
    BY <1>6, <1>7, InductionUpTo
<1>9. v % R(n) = v
  <2> DEFINE W == R(n)
  <2>1. W \in Nat /\ v < W
    BY <1>1 DEF R
  <2> HIDE DEF W
  <2>2. v % W = v
    BY <2>1
  <2>3. QED
    BY <2>2 DEF W
<1>10. SumFunctionOnSet(f, 0..(n - 1)) = v % R(n)
  BY <1>8
<1>11. QED
  BY <1>5, <1>9, <1>10

\* get() looks at its n bytes only.
LEMMA GetSame ==
    ASSUME NEW n \in Nat, NEW b, NEW c, NEW x \in Nat, NEW y \in Nat,
           SameAt(b, x, c, y, n)
    PROVE  get(b, x, n) = get(c, y, n)
<1>1. \A i \in 0..(n - 1) : b[x + i + 1] = c[y + i + 1]
  <2>1. ASSUME NEW i \in 0..(n - 1)
        PROVE  b[x + i + 1] = c[y + i + 1]
    <3> DEFINE j == i + 1
    <3>1. j \in 1..n /\ x + j = x + i + 1 /\ y + j = y + i + 1
      OBVIOUS
    <3> HIDE DEF j
    <3>2. b[x + j] = c[y + j]
      BY <3>1 DEF SameAt
    <3>3. QED
      BY <3>1, <3>2
  <2>2. QED
    BY <2>1
<1>2. [i \in 0..(n - 1) |-> b[x + i + 1] * 2^(Bits * i)] = [i \in 0..(n - 1) |-> c[y + i + 1] * 2^(Bits * i)]
  BY <1>1
<1>3. QED
  BY <1>2 DEF get

-----------------------------------------------------------------------------
(* The header's codec. *)

\* The fields lie one after another, from 0 to kHeaderSize.
LEMMA LayoutFacts ==
    /\ Fields = {"magic", "version", "flags", "schema_id", "schema_hash", "seq", "stamp_ns",
                 "publish_ns", "payload_size", "reserved"}
    /\ \A f \in Fields : /\ Layout[f].offset \in Nat /\ Layout[f].width \in Nat
                         /\ Layout[f].offset + Layout[f].width <= kHeaderSize
    /\ \A i \in 0..(kHeaderSize - 1) : \E f \in Fields : Covers(f, i)
    /\ \A f, g \in Fields : \A i \in Int : Covers(f, i) /\ Covers(g, i) => f = g
<1>1. Fields = {"magic", "version", "flags", "schema_id", "schema_hash", "seq", "stamp_ns",
                 "publish_ns", "payload_size", "reserved"}
  BY DEF Fields, Layout
<1>2. /\ Layout["magic"].offset = 0 /\ Layout["magic"].width = 4
      /\ Layout["version"].offset = 4 /\ Layout["version"].width = 2
      /\ Layout["flags"].offset = 6 /\ Layout["flags"].width = 2
      /\ Layout["schema_id"].offset = 8 /\ Layout["schema_id"].width = 4
      /\ Layout["schema_hash"].offset = 12 /\ Layout["schema_hash"].width = 4
      /\ Layout["seq"].offset = 16 /\ Layout["seq"].width = 8
      /\ Layout["stamp_ns"].offset = 24 /\ Layout["stamp_ns"].width = 8
      /\ Layout["publish_ns"].offset = 32 /\ Layout["publish_ns"].width = 8
      /\ Layout["payload_size"].offset = 40 /\ Layout["payload_size"].width = 4
      /\ Layout["reserved"].offset = 44 /\ Layout["reserved"].width = 4
  BY DEF Layout
<1>3. \A f \in Fields : /\ Layout[f].offset \in Nat /\ Layout[f].width \in Nat
                        /\ Layout[f].offset + Layout[f].width <= kHeaderSize
  BY <1>1, <1>2 DEF kHeaderSize
<1>4. ASSUME NEW i \in 0..(kHeaderSize - 1)
      PROVE  \E f \in Fields : Covers(f, i)
  <2>1. \/ i \in 0..3 \/ i \in 4..5 \/ i \in 6..7 \/ i \in 8..11 \/ i \in 12..15 \/ i \in 16..23
        \/ i \in 24..31 \/ i \in 32..39 \/ i \in 40..43 \/ i \in 44..47
    BY DEF kHeaderSize
  <2>2. QED
    BY <1>1, <1>2, <2>1 DEF Covers
<1>5. \A f, g \in Fields : f # g =>
          \/ Layout[f].offset + Layout[f].width <= Layout[g].offset
          \/ Layout[g].offset + Layout[g].width <= Layout[f].offset
  BY <1>1, <1>2
<1>6. ASSUME NEW f \in Fields, NEW g \in Fields, NEW i \in Int, Covers(f, i), Covers(g, i)
      PROVE  f = g
  <2> DEFINE a == Layout[f].offset
             b == Layout[f].width
             c == Layout[g].offset
             d == Layout[g].width
  <2>1. a \in Nat /\ b \in Nat /\ c \in Nat /\ d \in Nat
    BY <1>3
  <2>2. a <= i /\ i < a + b /\ c <= i /\ i < c + d
    BY <1>6 DEF Covers
  <2>3. f # g => (a + b <= c \/ c + d <= a)
    BY <1>5
  <2> HIDE DEF a, b, c, d
  <2>4. QED
    BY <2>1, <2>2, <2>3
<1>7. QED
  BY <1>1, <1>3, <1>4, <1>6

\* encode_header() puts every field at its place.
LEMMA EncodeField ==
    ASSUME NEW h \in Headers, NEW f \in Fields, NEW i \in 1..Layout[f].width
    PROVE  encode_header(h)[Layout[f].offset + i] = put(h[f], Layout[f].width)[i]
<1> DEFINE o == Layout[f].offset
           w == Layout[f].width
           k == o + i
           g == CHOOSE g \in Fields : Covers(g, k - 1)
<1>1. o \in Nat /\ w \in Nat /\ o + w <= kHeaderSize /\ i \in 1..w /\ kHeaderSize = 48
  BY LayoutFacts DEF kHeaderSize
<1>2. Covers(f, k - 1)
  <2>1. o <= k - 1 /\ k - 1 < o + w
    <3> HIDE DEF o, w
    <3>1. QED
      BY <1>1
  <2> HIDE DEF k
  <2>2. QED
    BY <2>1 DEF Covers
<1>3. k \in 1..kHeaderSize /\ k - o = i /\ k - 1 \in Int
  <2> HIDE DEF o, w
  <2>1. QED
    BY <1>1
<1> HIDE DEF k
<1>4. g \in Fields /\ Covers(g, k - 1)
  BY <1>2
<1> HIDE DEF g
<1>5. g = f
  BY <1>2, <1>3, <1>4, LayoutFacts
<1>6. encode_header(h)[k] = put(h[g], Layout[g].width)[k - Layout[g].offset]
  BY <1>3 DEF encode_header, g
<1>7. QED
  BY <1>3, <1>5, <1>6 DEF k

\* encode_header() of header.h fills kHeaderSize bytes, from which decode_header()'s
\* reads get back every field, whatever was in the object they are read into.
THEOREM HeaderRoundTrip ==
    ASSUME NEW h \in Headers
    PROVE  /\ Len(encode_header(h)) = kHeaderSize
           /\ \A out : ReadInto(encode_header(h), out, Fields) = h
<1> DEFINE e == encode_header(h)
<1>1. Len(e) = kHeaderSize
  <2> DEFINE x(k) == LET f == CHOOSE f \in Fields : Covers(f, k - 1)
                     IN  put(h[f], Layout[f].width)[k - Layout[f].offset]
  <2> HIDE DEF x
  <2>1. e = [k \in 1..kHeaderSize |-> x(k)]
    BY DEF encode_header, x
  <2>2. kHeaderSize \in Nat
    BY DEF kHeaderSize
  <2> HIDE DEF e
  <2>3. QED
    BY <2>1, <2>2
<1>2. h \in [Fields -> Nat] /\ \A f \in Fields : h[f] < 2^(Bits * Layout[f].width)
  BY HeadersAssumption
<1>3. ASSUME NEW f \in Fields
      PROVE  get(e, Layout[f].offset, Layout[f].width) = h[f]
  <2> DEFINE o == Layout[f].offset
             w == Layout[f].width
             v == h[f]
  <2>1. o \in Nat /\ w \in Nat /\ v \in Nat /\ v < 2^(Bits * w)
    BY <1>2, LayoutFacts
  <2>2. HoldsAt(e, o, v, w)
    BY EncodeField DEF HoldsAt
  <2> HIDE DEF o, w, v, e
  <2>3. get(e, o, w) = v
    BY <2>1, <2>2, GetPut
  <2>4. QED
    BY <2>3 DEF o, w, v
<1> HIDE DEF e
<1>4. ASSUME NEW out
      PROVE  ReadInto(e, out, Fields) = h
  <2>1. ReadInto(e, out, Fields) = [f \in Fields |-> h[f]]
    BY <1>3 DEF ReadInto
  <2>2. QED
    BY <1>2, <2>1
<1>5. QED
  BY <1>1, <1>4 DEF e

\* What HeadersIntact asks of an answer to the message m.
Verdict(m, answer) ==
    /\ answer.ok <=>
         m # NoHeader /\ m.magic = kMessageMagic /\ m.version \in 1..kMessageVersion
    /\ answer.ok => answer.out = m

\* decode_header() accepts its own headers only, and returns them.
LEMMA DecodeEncoded ==
    ASSUME NEW h \in Headers, NEW out
    PROVE  Verdict(h, decode_header(encode_header(h), out))
<1> DEFINE e == encode_header(h)
           all == ReadInto(e, out, Fields)
           a == decode_header(e, out)
<1>1. Len(e) = kHeaderSize /\ all = h /\ kHeaderSize \in Nat
  BY HeaderRoundTrip DEF kHeaderSize
<1>2. h \in [Fields -> Nat] /\ "magic" \in Fields /\ "version" \in Fields /\ kMessageVersion \in Nat
  BY HeadersAssumption, LayoutFacts
<1>3. h # NoHeader
  <2>1. DOMAIN h = Fields /\ DOMAIN NoHeader = 1..0
    BY <1>2 DEF NoHeader
  <2>2. QED
    BY <1>2, <2>1
<1>4. a = IF Len(e) < kHeaderSize THEN [ok |-> FALSE, out |-> out]
          ELSE IF all.magic # kMessageMagic
          THEN [ok |-> FALSE, out |-> ReadInto(e, out, {"magic"})]
          ELSE IF all.version = 0 \/ all.version > kMessageVersion
          THEN [ok |-> FALSE, out |-> ReadInto(e, out, {"magic", "version"})]
          ELSE [ok |-> TRUE, out |-> all]
  BY DEF decode_header
<1>5. h.version \in Nat
  BY <1>2
<1> HIDE DEF e, all, a
<1>6. CASE h.magic # kMessageMagic
  <2>1. a = [ok |-> FALSE, out |-> ReadInto(e, out, {"magic"})]
    BY <1>1, <1>4, <1>6
  <2>2. ~a.ok
    BY <2>1, Zenon
  <2>3. QED
    BY <1>6, <2>2, Zenon DEF Verdict, a, e
<1>7. CASE h.magic = kMessageMagic /\ (h.version = 0 \/ h.version > kMessageVersion)
  <2>1. a = [ok |-> FALSE, out |-> ReadInto(e, out, {"magic", "version"})]
    BY <1>1, <1>4, <1>7
  <2>2. ~a.ok
    BY <2>1, Zenon
  <2>3. h.version \notin 1..kMessageVersion
    BY <1>2, <1>5, <1>7
  <2>4. QED
    BY <2>2, <2>3, Zenon DEF Verdict, a, e
<1>8. CASE h.magic = kMessageMagic /\ ~(h.version = 0 \/ h.version > kMessageVersion)
  <2>1. a = [ok |-> TRUE, out |-> h]
    BY <1>1, <1>4, <1>8
  <2>2. a.ok /\ a.out = h
    BY <2>1, Zenon
  <2>3. h.version \in 1..kMessageVersion
    BY <1>2, <1>5, <1>8
  <2>4. QED
    BY <1>3, <1>8, <2>2, <2>3, Zenon DEF Verdict, a, e
<1>9. QED
  BY <1>6, <1>7, <1>8

\* It accepts nothing that is too short.
LEMMA DecodeShort ==
    ASSUME NEW out
    PROVE  Verdict(NoHeader, decode_header(Short, out))
<1> DEFINE a == decode_header(Short, out)
<1>1. Len(Short) < kHeaderSize
  BY DEF Short, kHeaderSize
<1>2. a = [ok |-> FALSE, out |-> out]
  BY <1>1 DEF decode_header
<1> HIDE DEF a
<1>3. ~a.ok
  BY <1>2, Zenon
<1>4. QED
  BY <1>3, Zenon DEF Verdict, a

-----------------------------------------------------------------------------
(* Frames in the stream. *)

\* The elements of two sequences put together.
LEMMA ConcatAt ==
    ASSUME NEW S, NEW s \in Seq(S), NEW t \in Seq(S), NEW m \in Nat, m = Len(s),
           NEW u, u = s \o t
    PROVE  /\ u \in Seq(S) /\ Len(u) = m + Len(t)
           /\ \A i \in 1..m : u[i] = s[i]
           /\ \A i \in 1..Len(t) : u[m + i] = t[i]
<1>1. u \in Seq(S) /\ Len(u) = m + Len(t) /\ Len(t) \in Nat
  OBVIOUS
<1>2. \A j \in 1..(m + Len(t)) : u[j] = IF j <= m THEN s[j] ELSE t[j - m]
  BY ConcatProperties
<1>3. ASSUME NEW i \in 1..Len(t)
      PROVE  u[m + i] = t[i]
  <2> DEFINE j == m + i
  <2>1. j \in 1..(m + Len(t)) /\ ~(j <= m) /\ j - m = i
    BY <1>1
  <2> HIDE DEF j
  <2>2. u[j] = t[j - m]
    BY <1>2, <2>1
  <2>3. QED
    BY <2>1, <2>2 DEF j
<1>4. ASSUME NEW i \in 1..m
      PROVE  u[i] = s[i]
  BY <1>1, <1>2
<1>5. QED
  BY <1>1, <1>3, <1>4

\* The bytes of one frame.
LEMMA FrameBytes ==
    ASSUME NEW p \in Payloads
    PROVE  /\ encode_frame(p) \in Seq(Byte) /\ Len(encode_frame(p)) = 8 + Len(p) /\ Len(p) \in Nat
           /\ p \in Seq(Byte) /\ Len(p) < 2^(Bits * 4)
           /\ \A i \in 1..4 : encode_frame(p)[i] = put(kFrameMagic, 4)[i]
           /\ \A i \in 1..4 : encode_frame(p)[4 + i] = put(Len(p), 4)[i]
           /\ \A i \in 1..Len(p) : encode_frame(p)[8 + i] = p[i]
<1> DEFINE a == put(kFrameMagic, 4)
           n == Len(p)
           b == put(n, 4)
<1>0. p \in Seq(Byte) /\ n < 2^(4 * Bits) /\ kFrameMagic \in Nat /\ n \in Nat /\ 4 * Bits = Bits * 4
  <2>1. p \in Seq(Byte) /\ n < 2^(4 * Bits) /\ kFrameMagic \in 0..(2^(4 * Bits) - 1)
    BY FrameAssumption
  <2>2. QED
    BY <2>1, BitsAssumption
<1> HIDE DEF n
<1>1. a \in Seq(Byte) /\ Len(a) = 4 /\ b \in Seq(Byte) /\ Len(b) = 4
  BY <1>0, PutType
<1>2. encode_frame(p) = a \o b \o p
  BY DEF encode_frame, n
<1> HIDE DEF a, b
<1> DEFINE c == a \o b
           d == c \o p
           m == Len(a)
           l == Len(c)
<1>3. c = a \o b /\ d = c \o p /\ a \in Seq(Byte) /\ b \in Seq(Byte) /\ p \in Seq(Byte) /\ m = Len(a) /\ m \in Nat
  BY <1>0, <1>1
<1>4. m = 4 /\ Len(b) = 4
  BY <1>1
<1> HIDE DEF c, d, m
<1>5. /\ c \in Seq(Byte) /\ l = m + Len(b)
      /\ (\A i \in 1..m : c[i] = a[i]) /\ \A i \in 1..Len(b) : c[m + i] = b[i]
  BY <1>3, ConcatAt
<1>6. l = Len(c) /\ l \in Nat
  BY <1>5
<1> HIDE DEF l
<1>7. /\ d \in Seq(Byte) /\ Len(d) = l + Len(p)
      /\ (\A i \in 1..l : d[i] = c[i]) /\ \A i \in 1..Len(p) : d[l + i] = p[i]
  BY <1>3, <1>5, <1>6, ConcatAt
<1>8. l = 8 /\ (\A i \in 1..4 : c[i] = a[i]) /\ \A i \in 1..4 : c[4 + i] = b[i]
  BY <1>4, <1>5
<1>9. /\ d \in Seq(Byte) /\ Len(d) = 8 + Len(p)
      /\ (\A i \in 1..8 : d[i] = c[i]) /\ \A i \in 1..Len(p) : d[8 + i] = p[i]
  BY <1>7, <1>8
<1>10. encode_frame(p) = d
  BY <1>2, <1>3
<1>11. \A i \in 1..4 : i \in 1..8 /\ 4 + i \in 1..8
  OBVIOUS
<1>12. \A i \in 1..4 : encode_frame(p)[i] = a[i] /\ encode_frame(p)[4 + i] = b[i]
  BY <1>9, <1>10, <1>11, <1>8
<1>13. QED
  BY <1>0, <1>9, <1>10, <1>12 DEF a, b, n

Sizes(s) == [k \in DOMAIN s |-> kFramePrefixSize + Len(s[k])]

\* Where the i-th frame of the payloads s starts.
StartIn(s, i) == SumFunctionOnSet(Sizes(s), 1..(i - 1))

\* Each frame starts where the one before ends.
LEMMA StartSteps ==
    ASSUME NEW s \in Seq(Payloads)
    PROVE  /\ StartIn(s, 1) = 0
           /\ \A k \in 1..(Len(s) + 1) : StartIn(s, k) \in Nat
           /\ \A k \in 1..Len(s) : /\ StartIn(s, k + 1) = StartIn(s, k) + (8 + Len(s[k]))
                                   /\ Len(s[k]) \in Nat /\ s[k] \in Payloads
<1> DEFINE f == Sizes(s)
<1>0. \A k \in 1..Len(s) : s[k] \in Payloads /\ Len(s[k]) \in Nat
  <2>1. \A k \in 1..Len(s) : s[k] \in Payloads
    OBVIOUS
  <2>2. \A p \in Payloads : Len(p) \in Nat
    BY FrameBytes
  <2>3. QED
    BY <2>1, <2>2
<1>1. \A k \in 1..Len(s) : f[k] = 8 + Len(s[k]) /\ f[k] \in Nat
  BY <1>0 DEF Sizes, kFramePrefixSize
<1>2. \A n \in Nat : IsFiniteSet(1..n)
  BY FS_Interval
<1> HIDE DEF f
<1>3. StartIn(s, 1) = 0
  <2>1. 1..(1 - 1) = {}
    OBVIOUS
  <2>2. SumFunctionOnSet(f, {}) = 0
    BY SumEmpty
  <2>3. QED
    BY <2>1, <2>2 DEF StartIn, f
<1>4. ASSUME NEW k \in 1..(Len(s) + 1)
      PROVE  StartIn(s, k) \in Nat
  <2> DEFINE n == k - 1
  <2>1. n \in Nat /\ 1..n \subseteq 1..Len(s)
    OBVIOUS
  <2>2. StartIn(s, k) = SumFunctionOnSet(f, 1..n)
    BY DEF StartIn, f
  <2> HIDE DEF n
  <2>3. IsFiniteSet(1..n) /\ \A x \in 1..n : f[x] \in Nat
    BY <1>1, <1>2, <2>1
  <2>4. QED
    BY <2>2, <2>3, SumType
<1>5. ASSUME NEW k \in 1..Len(s)
      PROVE  StartIn(s, k + 1) = StartIn(s, k) + (8 + Len(s[k]))
  <2> DEFINE n == k - 1
             I == 1..n
  <2>1. n \in Nat /\ 1..((k + 1) - 1) = I \cup {k} /\ k \notin I /\ I \cup {k} \subseteq 1..Len(s)
    OBVIOUS
  <2>2. StartIn(s, k + 1) = SumFunctionOnSet(f, 1..((k + 1) - 1)) /\ StartIn(s, k) = SumFunctionOnSet(f, I)
    BY DEF StartIn, f
  <2>3. IsFiniteSet(I)
    BY <1>2, <2>1
  <2> HIDE DEF I
  <2>4. \A x \in I \cup {k} : f[x] \in Nat
    BY <1>1, <2>1
  <2>5. SumFunctionOnSet(f, I \cup {k}) = SumFunctionOnSet(f, I) + f[k]
    BY <2>1, <2>3, <2>4, SumInsert
  <2>6. QED
    BY <1>1, <2>1, <2>2, <2>5
<1>6. QED
  BY <1>0, <1>3, <1>4, <1>5

\* Later frames start later.
LEMMA StartGrows ==
    ASSUME NEW s \in Seq(Payloads), NEW i \in 1..(Len(s) + 1), NEW j \in 1..(Len(s) + 1), i < j
    PROVE  StartIn(s, i) + 8 <= StartIn(s, j)
<1> DEFINE f == Sizes(s)
           m == i + 1
           A == 1..i
           B == 1..(j - 1)
<1>1. m \in 1..(Len(s) + 1) /\ i \in 1..Len(s) /\ A \subseteq B /\ B \subseteq 1..Len(s) /\ j - 1 \in Nat /\ 1..(m - 1) = A
  OBVIOUS
<1>2. StartIn(s, m) = StartIn(s, i) + (8 + Len(s[i])) /\ Len(s[i]) \in Nat
  BY <1>1, StartSteps
<1>3. StartIn(s, i) \in Nat /\ StartIn(s, j) \in Nat /\ StartIn(s, m) \in Nat
  BY <1>1, StartSteps
<1>4. StartIn(s, m) = SumFunctionOnSet(f, A) /\ StartIn(s, j) = SumFunctionOnSet(f, B)
  BY <1>1 DEF StartIn
<1>5. \A k \in 1..Len(s) : f[k] \in Nat
  <2>1. \A k \in 1..Len(s) : Len(s[k]) \in Nat
    BY StartSteps
  <2>2. QED
    BY <2>1 DEF Sizes, kFramePrefixSize
<1>6. IsFiniteSet(B)
  <2>1. \A n \in Nat : IsFiniteSet(1..n)
    BY FS_Interval
  <2>2. QED
    BY <1>1, <2>1
<1> HIDE DEF f, m, A, B
<1>7. SumFunctionOnSet(f, A) <= SumFunctionOnSet(f, B)
  <2>1. \A k \in B : f[k] \in Nat
    BY <1>1, <1>5
  <2>2. QED
    BY <1>1, <1>6, <2>1, SumSubset
<1>8. \A a, b, c, n \in Nat : b = a + (8 + n) /\ b <= c => a + 8 <= c
  OBVIOUS
<1>9. QED
  BY <1>2, <1>3, <1>4, <1>7, <1>8

\* One more payload leaves the starts of the others alone.
LEMMA StartAppend ==
    ASSUME NEW s \in Seq(Payloads), NEW p \in Payloads, NEW k \in 1..(Len(s) + 1)
    PROVE  StartIn(Append(s, p), k) = StartIn(s, k)
<1> DEFINE t == Append(s, p)
           n == k - 1
           f == Sizes(s)
           g == Sizes(t)
<1>1. n \in Nat /\ 1..n \subseteq 1..Len(s)
  OBVIOUS
<1>2. t \in Seq(Payloads) /\ Len(t) = Len(s) + 1 /\ \A i \in 1..Len(s) : t[i] = s[i] /\ i \in 1..Len(t)
  OBVIOUS
<1> HIDE DEF t
<1>3. \A i \in 1..Len(s) : f[i] \in Nat /\ g[i] = f[i]
  <2>1. \A i \in 1..Len(s) : Len(s[i]) \in Nat
    BY StartSteps
  <2>2. QED
    BY <1>2, <2>1 DEF Sizes, kFramePrefixSize
<1>4. IsFiniteSet(1..n)
  <2>1. \A m \in Nat : IsFiniteSet(1..m)
    BY FS_Interval
  <2>2. QED
    BY <1>1, <2>1
<1>5. StartIn(s, k) = SumFunctionOnSet(f, 1..n) /\ StartIn(t, k) = SumFunctionOnSet(g, 1..n)
  BY DEF StartIn
<1> HIDE DEF f, g, n
<1>6. \A i \in 1..n : f[i] \in Nat /\ g[i] = f[i]
  BY <1>1, <1>3
<1>7. SumFunctionOnSet(g, 1..n) = SumFunctionOnSet(f, 1..n)
  BY <1>4, <1>6, SumSame
<1>8. QED
  BY <1>5, <1>7 DEF t

\* b is the stream of the payloads s.
Framed(s, b) ==
    /\ s \in Seq(Payloads) /\ b \in Seq(Byte) /\ Len(b) = StartIn(s, Len(s) + 1)
    /\ \A k \in 1..Len(s) : \A j \in 1..(8 + Len(s[k])) :
           b[StartIn(s, k) + j] = encode_frame(s[k])[j]

\* The payload p is sent behind the payloads s in the stream b.
SentBehind(s, b, p, t, c) == t = Append(s, p) /\ c = b \o encode_frame(p)

\* send() keeps the stream framed.
LEMMA FramedAppend ==
    ASSUME NEW s, NEW b, Framed(s, b), NEW p \in Payloads, NEW t, NEW c, SentBehind(s, b, p, t, c)
    PROVE  /\ Framed(t, c) /\ Len(t) = Len(s) + 1 /\ t[Len(s) + 1] = p
           /\ \A k \in 1..Len(s) : t[k] = s[k]
           /\ \A k \in 1..(Len(s) + 1) : StartIn(t, k) = StartIn(s, k)
           /\ Len(b) <= Len(c) /\ \A j \in 1..Len(b) : c[j] = b[j]
<1> DEFINE n == Len(s)
           m == n + 1
           e == encode_frame(p)
           l == Len(b)
<1>1. s \in Seq(Payloads) /\ b \in Seq(Byte) /\ l = StartIn(s, m) /\ n \in Nat /\ l \in Nat
  BY DEF Framed
<1>2. e \in Seq(Byte) /\ Len(e) = 8 + Len(p) /\ Len(p) \in Nat
  BY FrameBytes
<1>3. t \in Seq(Payloads) /\ Len(t) = m /\ t[m] = p /\ \A k \in 1..n : t[k] = s[k]
  BY <1>1 DEF SentBehind
<1>4. \A k \in 1..m : StartIn(t, k) = StartIn(s, k)
  BY <1>1, StartAppend DEF SentBehind
<1>5. l = Len(b) /\ c = b \o e /\ b \in Seq(Byte) /\ e \in Seq(Byte) /\ l \in Nat
  BY <1>1, <1>2 DEF SentBehind
<1> HIDE DEF e, l
<1>6. c \in Seq(Byte) /\ Len(c) = l + Len(e) /\ (\A i \in 1..l : c[i] = b[i]) /\ \A i \in 1..Len(e) : c[l + i] = e[i]
  BY <1>5, ConcatAt
<1>7. m \in 1..Len(t) /\ m \in Nat /\ m \in 1..(Len(t) + 1) /\ m \in 1..m
  BY <1>1, <1>3
<1>8. StartIn(t, m + 1) = StartIn(t, m) + (8 + Len(t[m]))
  <2> HIDE DEF m
  <2>1. QED
    BY <1>3, <1>7, StartSteps
<1>9. Len(c) = StartIn(t, Len(t) + 1)
  <2>1. StartIn(t, m) = l
    BY <1>1, <1>4, <1>7
  <2> HIDE DEF m
  <2>2. QED
    BY <1>2, <1>3, <1>6, <1>8, <2>1
<1>10. ASSUME NEW k \in 1..Len(t), NEW j \in 1..(8 + Len(t[k]))
       PROVE  c[StartIn(t, k) + j] = encode_frame(t[k])[j]
  <2>1. CASE k = m
    <3>1. StartIn(t, k) = l /\ t[k] = p
      BY <1>1, <1>3, <1>4, <1>7, <2>1
    <3>2. j \in 1..Len(e)
      BY <1>2, <3>1
    <3>3. c[l + j] = e[j]
      BY <1>6, <3>2
    <3>4. QED
      BY <3>1, <3>3 DEF e
  <2>2. CASE k # m
    <3>1. k \in 1..n /\ k \in 1..m /\ k + 1 \in 1..(n + 1)
      BY <1>1, <1>3, <2>2
    <3>2. t[k] = s[k] /\ StartIn(t, k) = StartIn(s, k) /\ j \in 1..(8 + Len(s[k]))
      BY <1>3, <1>4, <3>1
    <3> DEFINE x == StartIn(s, k)
               y == x + j
               z == Len(s[k])
    <3>3. x \in Nat /\ StartIn(s, k + 1) = x + (8 + z) /\ z \in Nat
      BY <1>1, <3>1, StartSteps
    <3>4. x + (8 + z) <= l
      <4> DEFINE i == k + 1
      <4>1. i \in 1..(Len(s) + 1) /\ m \in 1..(Len(s) + 1) /\ (i = m \/ i < m)
        BY <1>1, <3>1
      <4>2. StartIn(s, i) \in Nat /\ StartIn(s, m) \in Nat
        BY <1>1, <4>1, StartSteps
      <4>3. StartIn(s, i) = x + (8 + z)
        BY <3>3
      <4> HIDE DEF i, m, x, z
      <4>4. StartIn(s, i) <= StartIn(s, m)
        <5>1. CASE i = m
          BY <4>2, <5>1
        <5>2. CASE i < m
          <6>1. StartIn(s, i) + 8 <= StartIn(s, m)
            BY <1>1, <4>1, <5>2, StartGrows
          <6>2. QED
            BY <4>2, <6>1
        <5>3. QED
          BY <4>1, <5>1, <5>2
      <4>5. QED
        BY <1>1, <4>3, <4>4
    <3>5. b[x + j] = encode_frame(s[k])[j]
      BY <3>1, <3>2 DEF Framed
    <3>6. j \in 1..(8 + z)
      BY <3>2
    <3> HIDE DEF x, z
    <3>7. y \in 1..l
      BY <1>1, <3>3, <3>4, <3>6
    <3>8. c[y] = b[y]
      BY <1>6, <3>7
    <3>9. QED
      BY <3>2, <3>5, <3>8 DEF x
  <2>3. QED
    BY <2>1, <2>2
<1>11. Framed(t, c)
  BY <1>3, <1>6, <1>9, <1>10 DEF Framed
<1>12. Len(b) <= Len(c) /\ \A j \in 1..Len(b) : c[j] = b[j]
  BY <1>1, <1>2, <1>5, <1>6
<1>13. QED
  BY <1>3, <1>4, <1>11, <1>12

\* A frame stands at its start.
LEMMA AtStart ==
    ASSUME NEW s, NEW b, Framed(s, b), NEW k \in 1..Len(s), NEW a, a = StartIn(s, k)
    PROVE  /\ a \in Nat /\ s[k] \in Payloads /\ Len(s[k]) \in Nat
           /\ StartIn(s, k + 1) = a + (8 + Len(s[k]))
           /\ FrameAt(b, a, s[k])
<1> DEFINE p == s[k]
           n == Len(p)
           e == encode_frame(p)
           z == a + 4
<1>1. s \in Seq(Payloads)
  BY DEF Framed
<1>2. a \in Nat /\ p \in Payloads /\ n \in Nat /\ StartIn(s, k + 1) = a + (8 + n)
  BY <1>1, StartSteps
<1>3. /\ \A i \in 1..4 : e[i] = put(kFrameMagic, 4)[i]
      /\ \A i \in 1..4 : e[4 + i] = put(n, 4)[i]
      /\ \A i \in 1..n : e[8 + i] = p[i]
      /\ n < 2^(Bits * 4)
  BY <1>2, FrameBytes
<1>4. \A j \in 1..(8 + n) : b[a + j] = e[j]
  BY DEF Framed
<1> HIDE DEF n, e
<1>5. \A i \in 1..4 : b[a + i] = put(kFrameMagic, 4)[i]
  <2>1. \A i \in 1..4 : i \in 1..(8 + n)
    BY <1>2
  <2>2. QED
    BY <1>3, <1>4, <2>1
<1>6. ASSUME NEW i \in 1..4
      PROVE  b[z + i] = put(n, 4)[i]
  <2> DEFINE j == 4 + i
  <2>1. j \in 1..(8 + n) /\ a + j = z + i
    BY <1>2
  <2>2. e[j] = put(n, 4)[i]
    BY <1>3
  <2> HIDE DEF j, z
  <2>3. b[a + j] = e[j]
    BY <1>4, <2>1
  <2>4. QED
    BY <2>1, <2>2, <2>3
<1>7. ASSUME NEW i \in 1..n
      PROVE  b[a + (8 + i)] = p[i]
  <2> DEFINE j == 8 + i
  <2>1. j \in 1..(8 + n)
    BY <1>2
  <2>2. e[j] = p[i]
    BY <1>3
  <2> HIDE DEF j
  <2>3. b[a + j] = e[j]
    BY <1>4, <2>1
  <2>4. QED
    BY <2>2, <2>3 DEF j
<1>8. get(b, a, 4) = kFrameMagic
  <2>1. kFrameMagic \in Nat /\ kFrameMagic < 2^(Bits * 4)
    <3> DEFINE W == 2^(Bits * 4)
    <3>1. 4 * Bits = Bits * 4 /\ W \in Nat
      BY BitsAssumption, Room
    <3>2. kFrameMagic \in 0..(W - 1)
      BY <3>1, FrameAssumption
    <3> HIDE DEF W
    <3>3. kFrameMagic \in Nat /\ kFrameMagic < W
      BY <3>1, <3>2
    <3>4. QED
      BY <3>3 DEF W
  <2>2. a \in Nat /\ 4 \in Nat /\ HoldsAt(b, a, kFrameMagic, 4)
    BY <1>2, <1>5 DEF HoldsAt
  <2>3. QED
    BY <2>1, <2>2, GetPut, Zenon
<1>9. get(b, z, 4) = n
  <2>1. z \in Nat /\ 4 \in Nat /\ n \in Nat /\ n < 2^(Bits * 4)
    BY <1>2, <1>3
  <2> HIDE DEF z
  <2>2. HoldsAt(b, z, n, 4)
    BY <1>6 DEF HoldsAt
  <2>3. QED
    BY <2>1, <2>2, GetPut, Zenon
<1>10. FrameAt(b, a, p)
  BY <1>7, <1>8, <1>9 DEF FrameAt, n
<1>11. QED
  BY <1>2, <1>10 DEF n

-----------------------------------------------------------------------------
(* The decoder. *)

DecoderType == [buffer : Seq(Byte), head : Nat, error : BOOLEAN, frames : Nat]

\* The fields of a decoder.
LEMMA DecoderFields ==
    ASSUME NEW d \in DecoderType
    PROVE  d.buffer \in Seq(Byte) /\ d.head \in Nat /\ d.error \in BOOLEAN /\ d.frames \in Nat /\ Len(d.buffer) \in Nat
BY DEF DecoderType

\* compact() moves the bytes that have not been consumed, and only them.
LEMMA CompactKeeps ==
    ASSUME NEW d \in DecoderType, d.head <= Len(d.buffer), NEW e, e = compact(d)
    PROVE  /\ e \in DecoderType /\ e.error = d.error /\ e.frames = d.frames
           /\ e.head <= Len(e.buffer) /\ Len(e.buffer) - e.head = Len(d.buffer) - d.head
           /\ \A j \in 1..(Len(d.buffer) - d.head) : e.buffer[e.head + j] = d.buffer[d.head + j]
           /\ e.head = 0 \/ 2 * e.head < Len(e.buffer)
<1> DEFINE b == d.buffer
           h == d.head
           n == Len(b)
           u == SubSeq(b, h + 1, n)
<1>1. b \in Seq(Byte) /\ h \in Nat /\ n \in Nat /\ h <= n
  BY DecoderFields
<1>2. CASE h = 0 \/ 2 * h < n
  <2>1. e = d
    BY <1>2 DEF compact
  <2>2. QED
    BY <1>1, <1>2, <2>1
<1>3. CASE ~(h = 0 \/ 2 * h < n)
  <2>1. e = [d EXCEPT !.buffer = u, !.head = 0]
    BY <1>3 DEF compact, Unread
  <2>2. u \in Seq(Byte) /\ Len(u) = n - h /\ \A j \in 1..(n - h) : u[j] = b[h + j]
    <3> HIDE DEF b, h
    <3>1. u \in Seq(Byte)
      BY <1>1
    <3>2. Len(u) = n - h
      BY <1>1
    <3>3. \A j \in 1..(n - h) : u[j] = b[h + j]
      BY <1>1
    <3>4. QED
      BY <3>1, <3>2, <3>3
  <2> HIDE DEF u
  <2>3. e \in DecoderType /\ e.buffer = u /\ e.head = 0 /\ e.error = d.error /\ e.frames = d.frames
    <3>1. u \in Seq(Byte) /\ 0 \in Nat
      BY <2>2
    <3>2. QED
      BY <2>1, <3>1 DEF DecoderType
  <2>4. Len(e.buffer) - e.head = n - h /\ e.head <= Len(e.buffer)
    BY <1>1, <2>2, <2>3
  <2>5. \A j \in 1..(n - h) : e.buffer[e.head + j] = b[h + j]
    <3>1. \A j \in 1..(n - h) : 0 + j = j
      BY <1>1
    <3>2. QED
      BY <2>2, <2>3, <3>1
  <2>6. QED
    BY <2>3, <2>4, <2>5
<1>4. QED
  BY <1>2, <1>3

\* get() of bytes is a number.
LEMMA GetType ==
    ASSUME NEW b \in Seq(Byte), NEW x \in Nat, NEW n \in Nat, x + n <= Len(b)
    PROVE  get(b, x, n) \in Nat
<1> DEFINE f == [i \in 0..(n - 1) |-> b[x + i + 1] * 2^(Bits * i)]
<1>1. ASSUME NEW i \in 0..(n - 1)
      PROVE  f[i] \in Nat
  <2> DEFINE y == x + i + 1
             v == b[y]
             w == 2^(Bits * i)
  <2>1. y \in 1..Len(b)
    OBVIOUS
  <2>2. v \in Byte
    <3> HIDE DEF y
    <3>1. QED
      BY <2>1
  <2>3. v \in Nat /\ w \in Nat
    BY <2>2, Room DEF Byte
  <2>4. f[i] = v * w
    OBVIOUS
  <2> HIDE DEF v, w, f
  <2>5. QED
    BY <2>3, <2>4
<1>2. IsFiniteSet(0..(n - 1))
  BY FS_Interval
<1>3. get(b, x, n) = SumFunctionOnSet(f, 0..(n - 1))
  BY DEF get
<1> HIDE DEF f
<1>4. QED
  BY <1>1, <1>2, <1>3, SumType

AnswerType == [ok : BOOLEAN, out : [Fields -> Nat]]

\* decode_header() answers, and leaves numbers in the header's fields.
LEMMA DecodeType ==
    ASSUME NEW in \in Seq(Byte), NEW out \in [Fields -> Nat]
    PROVE  decode_header(in, out) \in AnswerType
<1>1. CASE Len(in) < kHeaderSize
  <2>1. decode_header(in, out) = [ok |-> FALSE, out |-> out]
    BY <1>1 DEF decode_header
  <2>2. QED
    BY <2>1 DEF AnswerType
<1>2. CASE ~(Len(in) < kHeaderSize)
  <2>1. \A f \in Fields : get(in, Layout[f].offset, Layout[f].width) \in Nat
    <3>1. ASSUME NEW f \in Fields
          PROVE  get(in, Layout[f].offset, Layout[f].width) \in Nat
      <4> DEFINE o == Layout[f].offset
                 w == Layout[f].width
      <4>1. o \in Nat /\ w \in Nat /\ o + w <= kHeaderSize
        BY LayoutFacts
      <4> HIDE DEF o, w
      <4>2. o + w <= Len(in)
        BY <1>2, <4>1 DEF kHeaderSize
      <4>3. get(in, o, w) \in Nat
        BY <4>1, <4>2, GetType
      <4>4. QED
        BY <4>3 DEF o, w
    <3>2. QED
      BY <3>1
  <2>2. \A S : ReadInto(in, out, S) \in [Fields -> Nat]
    BY <2>1 DEF ReadInto
  <2> DEFINE all == ReadInto(in, out, Fields)
             a == decode_header(in, out)
             x == ReadInto(in, out, {"magic"})
             y == ReadInto(in, out, {"magic", "version"})
  <2>3. \/ a = [ok |-> FALSE, out |-> x] \/ a = [ok |-> FALSE, out |-> y] \/ a = [ok |-> TRUE, out |-> all]
    BY <1>2 DEF decode_header
  <2>4. x \in [Fields -> Nat] /\ y \in [Fields -> Nat] /\ all \in [Fields -> Nat]
    BY <2>2
  <2> HIDE DEF all, a, x, y
  <2>5. a \in AnswerType
    <3>1. \A r \in BOOLEAN, o \in [Fields -> Nat] : [ok |-> r, out |-> o] \in AnswerType
      BY DEF AnswerType
    <3>2. QED
      BY <2>3, <2>4, <3>1, Zenon
  <2>6. QED
    BY <2>5 DEF a
<1>3. QED
  BY <1>1, <1>2

-----------------------------------------------------------------------------
(* The invariant. *)

FrameType == [at : Nat, payload : Seq(Byte)]

\* What the decoder has not consumed is the stream from `at` on.
WindowInv ==
    /\ decoder \in DecoderType /\ at \in Nat /\ fed \in Nat /\ resets \in Nat
    /\ Framed(sent, stream) /\ fed <= Len(stream)
    /\ decoder.head <= Len(decoder.buffer)
    /\ decoder.head = 0 \/ 2 * decoder.head < Len(decoder.buffer)
    /\ \A j \in 1..(Len(decoder.buffer) - decoder.head) :
           decoder.buffer[decoder.head + j] = stream[at + j]
    /\ at + (Len(decoder.buffer) - decoder.head) <= fed
    /\ ~decoder.error => at + (Len(decoder.buffer) - decoder.head) = fed

\* The frame f stands in the bytes b, before a, and is within the limit.
Comes(f, b, a) ==
    FrameAt(b, f.at, f.payload) /\ Len(f.payload) <= max_frame_bytes /\ f.at + (8 + Len(f.payload)) <= a

\* If a frame of s starts where f does, it is f.
Genuine(f, s) == \A k \in 1..Len(s) : StartIn(s, k) = f.at => s[k] = f.payload

\* The frame f ends where g starts, or before.
Before(f, g) == f.at + (8 + Len(f.payload)) <= g.at

\* Decoded frames stand in the stream, behind each other and before `at`, and are what
\* was sent if they start where a frame does; without a reset they are the first ones
\* that were sent, and the decoder is at the start of the next.
DecodedInv ==
    /\ decoded \in Seq(FrameType) /\ decoder.frames = Len(decoded)
    /\ \A i \in 1..Len(decoded) : Comes(decoded[i], stream, at) /\ Genuine(decoded[i], sent)
    /\ \A i, j \in 1..Len(decoded) : i < j => Before(decoded[i], decoded[j])
    /\ resets = 0 =>
         /\ Len(decoded) <= Len(sent) /\ at = StartIn(sent, Len(decoded) + 1)
         /\ \A i \in 1..Len(decoded) : decoded[i].at = StartIn(sent, i) /\ decoded[i].payload = sent[i]

\* An error has been caused by what stands at `at`, which is not to change.
ErrorInv ==
    decoder.error =>
        /\ at + 8 <= Len(stream)
        /\ \A k \in 1..Len(sent) : StartIn(sent, k) = at => Len(sent[k]) > max_frame_bytes

\* The message m travels in the payload p.
Carries(m, p) == (m \in Headers /\ p = encode_header(m)) \/ (m = NoHeader /\ p \in {Short, Long})

\* Every frame decoded has a verdict, which is right about its message.
MessageInv ==
    /\ messages \in Seq(Headers \cup {NoHeader}) /\ Len(messages) = Len(sent)
    /\ \A k \in 1..Len(sent) : Carries(messages[k], sent[k])
    /\ header \in [Fields -> Nat]
    /\ verdicts \in Seq(AnswerType) /\ Len(verdicts) = Len(decoded)
    /\ \A i \in 1..Len(decoded), k \in 1..Len(sent) :
           StartIn(sent, k) = decoded[i].at => Verdict(messages[k], verdicts[i])

StreamInv == WindowInv /\ DecodedInv /\ ErrorInv /\ MessageInv

\* The types that the invariant gives.
LEMMA StreamTypes ==
    ASSUME WindowInv
    PROVE  /\ decoder \in DecoderType /\ decoder.buffer \in Seq(Byte) /\ decoder.head \in Nat
           /\ Len(decoder.buffer) \in Nat /\ decoder.head <= Len(decoder.buffer)
           /\ Len(decoder.buffer) - decoder.head \in Nat
           /\ at \in Nat /\ fed \in Nat /\ resets \in Nat /\ fed <= Len(stream)
           /\ sent \in Seq(Payloads) /\ stream \in Seq(Byte) /\ Len(stream) \in Nat /\ Len(sent) \in Nat
           /\ at + (Len(decoder.buffer) - decoder.head) <= fed /\ at <= fed
           /\ Framed(sent, stream) /\ Len(stream) = StartIn(sent, Len(sent) + 1)
<1>1. /\ decoder \in DecoderType /\ decoder.head <= Len(decoder.buffer)
      /\ at \in Nat /\ fed \in Nat /\ resets \in Nat /\ fed <= Len(stream) /\ Framed(sent, stream)
      /\ at + (Len(decoder.buffer) - decoder.head) <= fed
  BY DEF WindowInv
<1>2. decoder.buffer \in Seq(Byte) /\ decoder.head \in Nat /\ Len(decoder.buffer) \in Nat
  BY <1>1, DecoderFields
<1>3. sent \in Seq(Payloads) /\ stream \in Seq(Byte) /\ Len(stream) = StartIn(sent, Len(sent) + 1)
  BY <1>1 DEF Framed
<1>4. Len(stream) \in Nat /\ Len(sent) \in Nat
  BY <1>3
<1>5. Len(decoder.buffer) - decoder.head \in Nat /\ at <= fed
  BY <1>1, <1>2
<1>6. QED
  BY <1>1, <1>2, <1>3, <1>4, <1>5

\* A frame that comes before a starts before a.
LEMMA FrameFacts ==
    ASSUME NEW f \in FrameType, NEW b, NEW a \in Nat, Comes(f, b, a)
    PROVE  f.at \in Nat /\ f.payload \in Seq(Byte) /\ Len(f.payload) \in Nat /\ f.at + 8 <= a /\ f.at < a
<1> DEFINE x == f.at
           n == Len(f.payload)
<1>1. x \in Nat /\ f.payload \in Seq(Byte)
  BY DEF FrameType
<1>2. n \in Nat /\ x + (8 + n) <= a
  BY <1>1 DEF Comes
<1> HIDE DEF x, n
<1>3. x + 8 <= a /\ x < a
  BY <1>1, <1>2
<1>4. QED
  BY <1>1, <1>2, <1>3 DEF x, n

\* A frame still comes before a later place.
LEMMA ComesLater ==
    ASSUME NEW f \in FrameType, NEW b, NEW a \in Nat, NEW c \in Nat, a <= c, Comes(f, b, a)
    PROVE  Comes(f, b, c)
<1> DEFINE x == f.at + (8 + Len(f.payload))
<1>1. x \in Nat /\ x <= a
  <2>1. f.at \in Nat /\ Len(f.payload) \in Nat
    BY FrameFacts
  <2>2. QED
    BY <2>1 DEF Comes
<1> HIDE DEF x
<1>2. x <= c
  BY <1>1
<1>3. QED
  BY <1>2 DEF Comes, x

\* A frame stays in the stream when bytes come behind it.
LEMMA FrameStays ==
    ASSUME NEW f \in FrameType, NEW b, NEW c, NEW a \in Nat, NEW l \in Nat, a <= l,
           \A j \in 1..l : c[j] = b[j], Comes(f, b, a)
    PROVE  Comes(f, c, a)
<1> DEFINE x == f.at
           p == f.payload
           n == Len(p)
           y == x + 4
<1>1. x \in Nat /\ n \in Nat /\ y \in Nat /\ 4 \in Nat
  BY FrameFacts
<1>2. /\ get(b, x, 4) = kFrameMagic /\ get(b, y, 4) = n /\ \A i \in 1..n : b[x + (8 + i)] = p[i]
      /\ n <= max_frame_bytes /\ x + (8 + n) <= a
  BY DEF Comes, FrameAt
<1> HIDE DEF x, p, n
<1>3. \A i \in 1..(8 + n) : x + i \in 1..l
  BY <1>1, <1>2
<1>4. \A i \in 1..(8 + n) : c[x + i] = b[x + i]
  BY <1>3
<1>5. SameAt(b, x, c, x, 4)
  <2>1. \A i \in 1..4 : i \in 1..(8 + n)
    BY <1>1
  <2>2. QED
    BY <1>4, <2>1 DEF SameAt
<1>6. SameAt(b, y, c, y, 4)
  <2>1. ASSUME NEW i \in 1..4
        PROVE  b[y + i] = c[y + i]
    <3> DEFINE j == 4 + i
    <3>1. j \in 1..(8 + n) /\ x + j = y + i
      BY <1>1
    <3> HIDE DEF j, y
    <3>2. QED
      BY <1>4, <3>1
  <2>2. QED
    BY <2>1 DEF SameAt
<1>7. \A i \in 1..n : c[x + (8 + i)] = p[i]
  <2>1. ASSUME NEW i \in 1..n
        PROVE  c[x + (8 + i)] = p[i]
    <3> DEFINE j == 8 + i
    <3>1. j \in 1..(8 + n)
      BY <1>1
    <3>2. b[x + j] = p[i]
      BY <1>2
    <3> HIDE DEF j
    <3>3. QED
      BY <1>4, <3>1, <3>2 DEF j
  <2>2. QED
    BY <2>1
<1>8. get(c, x, 4) = kFrameMagic
  BY <1>1, <1>2, <1>5, GetSame
<1>9. get(c, y, 4) = n
  <2> HIDE DEF y
  <2>1. QED
    BY <1>1, <1>2, <1>6, GetSame
<1>10. QED
  BY <1>2, <1>7, <1>8, <1>9 DEF Comes, FrameAt, x, p, n

\* A frame more is sent.
LEMMA SendStep ==
    ASSUME StreamInv, NEW p \in Payloads, NEW m \in Headers \cup {NoHeader}, Carries(m, p), send(p),
           messages' = Append(messages, m), UNCHANGED <<header, verdicts>>
    PROVE  StreamInv'
<1> DEFINE n == Len(sent)
           z == n + 1
<1>1. WindowInv /\ DecodedInv /\ ErrorInv /\ MessageInv
  BY DEF StreamInv
<1>2. /\ sent' = Append(sent, p) /\ stream' = stream \o encode_frame(p)
      /\ decoder' = decoder /\ fed' = fed /\ decoded' = decoded /\ at' = at /\ resets' = resets
      /\ header' = header /\ verdicts' = verdicts
  BY DEF send
<1>3. /\ Framed(sent', stream') /\ Len(sent') = z /\ sent'[z] = p
      /\ \A k \in 1..n : sent'[k] = sent[k]
      /\ \A k \in 1..z : StartIn(sent', k) = StartIn(sent, k)
      /\ Len(stream) <= Len(stream') /\ \A j \in 1..Len(stream) : stream'[j] = stream[j]
  <2>1. Framed(sent, stream) /\ SentBehind(sent, stream, p, sent', stream')
    BY <1>1, <1>2, StreamTypes DEF SentBehind
  <2>2. QED
    BY <2>1, FramedAppend
<1>4. /\ n \in Nat /\ Len(stream) \in Nat /\ at \in Nat /\ fed \in Nat /\ fed <= Len(stream) /\ at <= fed
      /\ Len(stream) = StartIn(sent, z)
  BY <1>1, StreamTypes
<1>5. Len(stream') \in Nat
  <2>1. stream' \in Seq(Byte)
    BY <1>3 DEF Framed
  <2>2. QED
    BY <2>1
<1>6. WindowInv'
  <2> DEFINE l == Len(decoder.buffer) - decoder.head
  <2>1. l \in Nat /\ at + l <= fed
    BY <1>1, StreamTypes
  <2>2. \A j \in 1..l : decoder.buffer[decoder.head + j] = stream[at + j]
    BY <1>1 DEF WindowInv
  <2> HIDE DEF l
  <2>3. \A j \in 1..l : stream'[at + j] = stream[at + j]
    <3>1. \A j \in 1..l : at + j \in 1..Len(stream)
      BY <1>4, <2>1
    <3>2. QED
      BY <1>3, <3>1
  <2>4. \A j \in 1..l : decoder.buffer[decoder.head + j] = stream'[at + j]
    BY <2>2, <2>3
  <2>5. fed <= Len(stream')
    BY <1>3, <1>4, <1>5
  <2>6. QED
    BY <1>1, <1>2, <1>3, <2>4, <2>5 DEF WindowInv, l
<1>7. DecodedInv'
  <2>1. ASSUME NEW i \in 1..Len(decoded)
        PROVE  Comes(decoded[i], stream', at) /\ Genuine(decoded[i], sent')
    <3> DEFINE f == decoded[i]
    <3>1. f \in FrameType /\ Comes(f, stream, at) /\ Genuine(f, sent)
      BY <1>1 DEF DecodedInv
    <3> HIDE DEF f
    <3>2. at <= Len(stream)
      BY <1>4
    <3>3. Comes(f, stream', at)
      BY <1>3, <1>4, <3>1, <3>2, FrameStays
    <3>4. f.at \in Nat /\ f.at < at
      BY <1>4, <3>1, FrameFacts
    <3>5. ASSUME NEW k \in 1..Len(sent'), StartIn(sent', k) = f.at
          PROVE  sent'[k] = f.payload
      <4>1. k \in 1..z
        BY <1>3
      <4>2. StartIn(sent, k) = f.at
        BY <1>3, <3>5, <4>1
      <4>3. k # z
        BY <1>4, <3>4, <4>2
      <4>4. k \in 1..n
        <5>1. n \in Nat
          BY <1>4
        <5> HIDE DEF n
        <5>2. QED
          BY <4>1, <4>3, <5>1
      <4>5. QED
        BY <1>3, <3>1, <4>2, <4>4 DEF Genuine
    <3>6. QED
      BY <3>3, <3>5 DEF Genuine, f
  <2>2. ASSUME resets = 0
        PROVE  /\ Len(decoded) <= Len(sent') /\ at = StartIn(sent', Len(decoded) + 1)
               /\ \A i \in 1..Len(decoded) : decoded[i].at = StartIn(sent', i) /\ decoded[i].payload = sent'[i]
    <3> DEFINE q == Len(decoded)
               r == q + 1
    <3>1. /\ q \in Nat /\ q <= n /\ at = StartIn(sent, r)
          /\ \A i \in 1..q : decoded[i].at = StartIn(sent, i) /\ decoded[i].payload = sent[i]
      BY <1>1, <2>2 DEF DecodedInv
    <3>2. r \in 1..z /\ q <= z /\ \A i \in 1..q : i \in 1..n /\ i \in 1..z
      BY <1>4, <3>1
    <3> HIDE DEF r, q
    <3>3. at = StartIn(sent', r) /\ \A i \in 1..q : decoded[i].at = StartIn(sent', i) /\ decoded[i].payload = sent'[i]
      BY <1>3, <3>1, <3>2
    <3>4. QED
      BY <1>3, <3>2, <3>3 DEF r, q
  <2>3. /\ decoded \in Seq(FrameType) /\ decoder.frames = Len(decoded)
        /\ \A i, j \in 1..Len(decoded) : i < j => Before(decoded[i], decoded[j])
    BY <1>1 DEF DecodedInv
  <2>4. QED
    BY <1>2, <2>1, <2>2, <2>3 DEF DecodedInv
<1>8. ErrorInv'
  <2>1. ASSUME decoder.error
        PROVE  /\ at + 8 <= Len(stream')
               /\ \A k \in 1..Len(sent') : StartIn(sent', k) = at => Len(sent'[k]) > max_frame_bytes
    <3>1. at + 8 <= Len(stream) /\ \A k \in 1..n : StartIn(sent, k) = at => Len(sent[k]) > max_frame_bytes
      BY <1>1, <2>1 DEF ErrorInv
    <3>2. at + 8 <= Len(stream')
      BY <1>3, <1>4, <1>5, <3>1
    <3>3. ASSUME NEW k \in 1..Len(sent'), StartIn(sent', k) = at
          PROVE  Len(sent'[k]) > max_frame_bytes
      <4>1. k \in 1..z
        BY <1>3
      <4>2. StartIn(sent, k) = at
        BY <1>3, <3>3, <4>1
      <4>3. k # z
        BY <1>4, <3>1, <4>2
      <4>4. k \in 1..n
        BY <1>4, <4>1, <4>3
      <4>5. QED
        BY <1>3, <3>1, <4>2, <4>4
    <3>4. QED
      BY <3>2, <3>3
  <2>2. QED
    BY <1>2, <2>1 DEF ErrorInv
<1>9. MessageInv'
  <2>1. /\ messages \in Seq(Headers \cup {NoHeader}) /\ Len(messages) = n
        /\ \A k \in 1..n : Carries(messages[k], sent[k])
    BY <1>1 DEF MessageInv
  <2>2. messages' \in Seq(Headers \cup {NoHeader}) /\ Len(messages') = z /\ messages'[z] = m /\ \A k \in 1..n : messages'[k] = messages[k]
    BY <2>1
  <2>3. ASSUME NEW k \in 1..Len(sent')
        PROVE  Carries(messages'[k], sent'[k])
    <3>1. CASE k = z
      BY <1>3, <2>2, <3>1
    <3>2. CASE k # z
      <4>1. k \in 1..n
        BY <1>3, <1>4, <3>2
      <4>2. QED
        BY <1>3, <2>1, <2>2, <4>1
    <3>3. QED
      BY <3>1, <3>2
  <2>4. ASSUME NEW i \in 1..Len(decoded), NEW k \in 1..Len(sent'), StartIn(sent', k) = decoded[i].at
        PROVE  Verdict(messages'[k], verdicts[i])
    <3>1. k \in 1..z
      BY <1>3
    <3>2. StartIn(sent, k) = decoded[i].at
      BY <1>3, <2>4, <3>1
    <3>3. decoded[i].at < at /\ decoded[i].at \in Nat
      <4>1. Comes(decoded[i], stream, at) /\ decoded[i] \in FrameType
        BY <1>1 DEF DecodedInv
      <4>2. QED
        BY <1>4, <4>1, FrameFacts
    <3>4. k # z
      BY <1>4, <3>2, <3>3
    <3>5. k \in 1..n
      <4>1. n \in Nat
        BY <1>4
      <4> HIDE DEF n
      <4>2. QED
        BY <3>1, <3>4, <4>1
    <3>6. messages'[k] = messages[k]
      BY <2>2, <3>5
    <3>7. QED
      BY <1>1, <3>2, <3>5, <3>6 DEF MessageInv
  <2>5. header \in [Fields -> Nat] /\ verdicts \in Seq(AnswerType) /\ Len(verdicts) = Len(decoded)
    BY <1>1 DEF MessageInv
  <2>6. Len(messages') = Len(sent')
    BY <1>3, <2>2
  <2>7. QED
    BY <1>2, <2>2, <2>3, <2>4, <2>5, <2>6 DEF MessageInv
<1>10. QED
  BY <1>6, <1>7, <1>8, <1>9 DEF StreamInv

\* A part of the stream.
LEMMA PieceOf ==
    ASSUME NEW S, NEW s \in Seq(S), NEW a \in Nat, NEW b \in Nat, a <= b, b <= Len(s),
           NEW t, t = SubSeq(s, a + 1, b)
    PROVE  t \in Seq(S) /\ Len(t) = b - a /\ \A j \in 1..(b - a) : t[j] = s[a + j]
<1>1. t \in Seq(S)
  OBVIOUS
<1>2. Len(t) = b - a
  OBVIOUS
<1>3. \A j \in 1..(b - a) : t[j] = s[a + j]
  OBVIOUS
<1>4. QED
  BY <1>1, <1>2, <1>3

\* A piece of the stream is read.
LEMMA FeedStep ==
    ASSUME StreamInv, NEW n \in Pieces, feed(n), UNCHANGED <<header, messages, verdicts>>
    PROVE  StreamInv'
<1> DEFINE end == Min({fed + n, Len(stream)})
           b == decoder.buffer
           h == decoder.head
           l == Len(b)
<1>1. WindowInv /\ DecodedInv /\ ErrorInv /\ MessageInv
  BY DEF StreamInv
<1>2. /\ fed' = end /\ stream' = stream /\ sent' = sent /\ decoded' = decoded /\ at' = at /\ resets' = resets
      /\ header' = header /\ messages' = messages /\ verdicts' = verdicts
      /\ decoder' = IF decoder.error THEN decoder
                    ELSE [decoder EXCEPT !.buffer = b \o SubSeq(stream, fed + 1, end)]
      /\ fed < Len(stream)
  BY DEF feed
<1>3. /\ decoder \in DecoderType /\ b \in Seq(Byte) /\ h \in Nat /\ l \in Nat /\ h <= l
      /\ at \in Nat /\ fed \in Nat /\ at + (l - h) <= fed /\ stream \in Seq(Byte) /\ Len(stream) \in Nat
  BY <1>1, StreamTypes
<1>4. end \in Nat /\ fed <= end /\ end <= Len(stream)
  <2> DEFINE T == {fed + n, Len(stream)}
  <2>1. n \in Nat
    BY FrameAssumption
  <2>2. T \subseteq Nat /\ T # {}
    BY <1>3, <2>1
  <2>3. \A y \in T : fed <= y
    BY <1>2, <1>3, <2>1
  <2>4. Len(stream) \in T
    OBVIOUS
  <2>5. end = Min(T)
    OBVIOUS
  <2> HIDE DEF T
  <2>6. Min(T) \in T /\ \A y \in T : Min(T) <= y
    BY <2>2, MinOf
  <2> HIDE DEF end
  <2>7. QED
    BY <2>2, <2>3, <2>4, <2>5, <2>6
<1> HIDE DEF end
<1>5. WindowInv' /\ (decoder'.error <=> decoder.error) /\ decoder'.frames = decoder.frames
  <2>1. CASE decoder.error
    <3>1. decoder' = decoder
      BY <1>2, <2>1
    <3>2. at + (l - h) <= end
      <4> HIDE DEF l, h, b
      <4>1. QED
        BY <1>3, <1>4
    <3>3. WindowInv'
      BY <1>1, <1>2, <1>4, <2>1, <3>1, <3>2 DEF WindowInv
    <3>4. QED
      BY <3>1, <3>3
  <2>2. CASE ~decoder.error
    <3> DEFINE t == SubSeq(stream, fed + 1, end)
               c == b \o t
    <3>1. t \in Seq(Byte) /\ Len(t) = end - fed /\ \A j \in 1..(end - fed) : t[j] = stream[fed + j]
      BY <1>3, <1>4, PieceOf
    <3>2. decoder' = [decoder EXCEPT !.buffer = c]
      BY <1>2, <2>2
    <3> HIDE DEF t
    <3>3. c = b \o t /\ b \in Seq(Byte) /\ t \in Seq(Byte) /\ l \in Nat /\ l = Len(b)
      BY <1>3, <3>1
    <3> HIDE DEF c
    <3>4. c \in Seq(Byte) /\ Len(c) = l + Len(t) /\ (\A i \in 1..l : c[i] = b[i]) /\ \A i \in 1..Len(t) : c[l + i] = t[i]
      <4> HIDE DEF l, b
      <4>1. QED
        BY <3>3, ConcatAt
    <3>5. /\ decoder' \in DecoderType /\ decoder'.buffer = c /\ decoder'.head = h
          /\ decoder'.error = decoder.error /\ decoder'.frames = decoder.frames
      BY <1>3, <3>2, <3>4 DEF DecoderType
    <3>6. at + (l - h) = fed
      BY <1>1, <2>2 DEF WindowInv
    <3>7. \A j \in 1..(l - h) : b[h + j] = stream[at + j]
      BY <1>1 DEF WindowInv
    <3>8. h = 0 \/ 2 * h < l
      BY <1>1 DEF WindowInv
    <3> DEFINE m == Len(c)
    <3>9. m = l + (end - fed) /\ m \in Nat
      <4> HIDE DEF l, b
      <4>1. QED
        BY <1>3, <1>4, <3>1, <3>4
    <3> HIDE DEF b, l, h, m
    <3>10. at + (m - h) = end /\ h <= m /\ (h = 0 \/ 2 * h < m)
      BY <1>3, <1>4, <3>6, <3>8, <3>9
    <3>11. ASSUME NEW j \in 1..(m - h)
           PROVE  c[h + j] = stream[at + j]
      <4>1. CASE h + j <= l
        <5> DEFINE i == h + j
        <5>1. i \in 1..l /\ j \in 1..(l - h)
          BY <1>3, <4>1
        <5> HIDE DEF i
        <5>2. c[i] = b[i]
          BY <3>4, <5>1
        <5>3. QED
          BY <3>7, <5>1, <5>2 DEF i
      <4>2. CASE h + j > l
        <5> DEFINE i == (h + j) - l
        <5>1. i \in 1..(end - fed) /\ h + j = l + i /\ at + j = fed + i
          BY <1>3, <1>4, <3>6, <3>9, <4>2
        <5> HIDE DEF i
        <5>2. c[l + i] = t[i] /\ t[i] = stream[fed + i]
          BY <3>1, <3>4, <5>1
        <5>3. QED
          BY <5>1, <5>2
      <4>3. QED
        BY <1>3, <4>1, <4>2
    <3>12. Framed(sent, stream) /\ resets \in Nat
      BY <1>1 DEF WindowInv
    <3>13. WindowInv'
      <4>1. /\ decoder' \in DecoderType /\ at' \in Nat /\ fed' \in Nat /\ resets' \in Nat
            /\ Framed(sent', stream') /\ fed' <= Len(stream')
        BY <1>2, <1>3, <1>4, <3>5, <3>12
      <4>2. Len(decoder'.buffer) = m /\ decoder'.head = h /\ decoder'.buffer = c
        BY <3>5 DEF m
      <4>3. at' + (m - h) = fed'
        BY <1>2, <3>10
      <4>4. at' + (m - h) <= fed'
        BY <1>2, <1>4, <4>3
      <4>5. \A j \in 1..(m - h) : c[h + j] = stream'[at' + j]
        BY <1>2, <3>11
      <4>6. QED
        BY <3>10, <4>1, <4>2, <4>3, <4>4, <4>5 DEF WindowInv
    <3>14. QED
      BY <3>5, <3>13
  <2>3. QED
    BY <2>1, <2>2
<1>6. DecodedInv'
  BY <1>1, <1>2, <1>5 DEF DecodedInv
<1>7. ErrorInv'
  BY <1>1, <1>2, <1>5 DEF ErrorInv
<1>8. MessageInv'
  BY <1>1, <1>2 DEF MessageInv
<1>9. QED
  BY <1>5, <1>6, <1>7, <1>8 DEF StreamInv

\* reset() forgets.
LEMMA ResetStep ==
    ASSUME StreamInv, reset, UNCHANGED <<header, messages, verdicts>>
    PROVE  StreamInv'
<1>1. WindowInv /\ DecodedInv /\ ErrorInv /\ MessageInv
  BY DEF StreamInv
<1>2. /\ decoder' = [decoder EXCEPT !.buffer = <<>>, !.head = 0, !.error = FALSE]
      /\ at' = fed /\ resets' = resets + 1
      /\ stream' = stream /\ fed' = fed /\ sent' = sent /\ decoded' = decoded
      /\ header' = header /\ messages' = messages /\ verdicts' = verdicts
  BY DEF reset
<1>3. /\ decoder \in DecoderType /\ at \in Nat /\ fed \in Nat /\ resets \in Nat /\ fed <= Len(stream)
      /\ at <= fed /\ Framed(sent, stream)
  BY <1>1, StreamTypes
<1>4. /\ decoder' \in DecoderType /\ decoder'.buffer = <<>> /\ decoder'.head = 0
      /\ decoder'.frames = decoder.frames
  <2> DEFINE e == <<>>
  <2>1. e \in Seq(Byte) /\ 0 \in Nat /\ FALSE \in BOOLEAN
    OBVIOUS
  <2>2. decoder' = [decoder EXCEPT !.buffer = e, !.head = 0, !.error = FALSE]
    BY <1>2
  <2> HIDE DEF e
  <2>3. decoder'.buffer = e /\ decoder'.head = 0 /\ decoder'.frames = decoder.frames
    BY <1>3, <2>2 DEF DecoderType
  <2>4. decoder' \in DecoderType
    BY <1>3, <2>1, <2>2, Zenon DEF DecoderType
  <2>5. QED
    BY <2>3, <2>4 DEF e
<1>5. ~decoder'.error
  <2>1. decoder'.error = FALSE
    BY <1>2, <1>3 DEF DecoderType
  <2>2. QED
    BY <2>1, Zenon
<1>6. WindowInv'
  <2>1. Len(decoder'.buffer) - decoder'.head = 0 /\ decoder'.head <= Len(decoder'.buffer)
    BY <1>4
  <2>2. fed + 0 = fed /\ fed + 0 <= fed /\ 1..0 = {}
    BY <1>3
  <2>3. QED
    BY <1>2, <1>3, <1>4, <2>1, <2>2 DEF WindowInv
<1>7. DecodedInv'
  <2>1. ASSUME NEW i \in 1..Len(decoded)
        PROVE  Comes(decoded[i], stream, fed)
    <3>1. decoded[i] \in FrameType /\ Comes(decoded[i], stream, at)
      BY <1>1 DEF DecodedInv
    <3>2. QED
      BY <1>3, <3>1, ComesLater
  <2>2. resets' # 0
    BY <1>2, <1>3
  <2>3. QED
    BY <1>1, <1>2, <1>4, <2>1, <2>2 DEF DecodedInv
<1>8. ErrorInv'
  BY <1>5 DEF ErrorInv
<1>9. MessageInv'
  BY <1>1, <1>2 DEF MessageInv
<1>10. QED
  BY <1>6, <1>7, <1>8, <1>9 DEF StreamInv

\* The prefix that next() looks at is the one that stands at `at`.
LEMMA PrefixRead ==
    ASSUME WindowInv, HasPrefix(decoder)
    PROVE  /\ at + 8 <= Len(stream) /\ get(decoder.buffer, decoder.head, 4) = get(stream, at, 4)
           /\ FrameLength(decoder) = get(stream, at + 4, 4)
<1> DEFINE b == decoder.buffer
           h == decoder.head
           l == Len(b)
           y == h + 4
           x == at + 4
<1>1. h \in Nat /\ l \in Nat /\ h <= l /\ at \in Nat /\ fed \in Nat /\ at + (l - h) <= fed /\ fed <= Len(stream) /\ Len(stream) \in Nat
  BY StreamTypes
<1>2. l - h >= 8
  BY DEF HasPrefix, buffered, kFramePrefixSize
<1>3. \A j \in 1..(l - h) : b[h + j] = stream[at + j]
  BY DEF WindowInv
<1>4. FrameLength(decoder) = get(b, y, 4)
  BY DEF FrameLength
<1> HIDE DEF b, h, l
<1>5. at + 8 <= Len(stream)
  BY <1>1, <1>2
<1>6. SameAt(b, h, stream, at, 4)
  BY <1>1, <1>2, <1>3 DEF SameAt
<1>7. ASSUME NEW i \in 1..4
      PROVE  b[y + i] = stream[x + i]
  <2> DEFINE j == 4 + i
  <2>1. j \in 1..(l - h) /\ y + i = h + j /\ x + i = at + j
    BY <1>1, <1>2
  <2> HIDE DEF j, x, y
  <2>2. QED
    BY <1>3, <2>1
<1>8. 4 \in Nat /\ y \in Nat /\ x \in Nat /\ h \in Nat /\ at \in Nat
  BY <1>1
<1> HIDE DEF x, y
<1>9. get(b, h, 4) = get(stream, at, 4)
  BY <1>6, <1>8, GetSame
<1>10. get(b, y, 4) = get(stream, x, 4)
  <2>1. SameAt(b, y, stream, x, 4)
    BY <1>7 DEF SameAt
  <2>2. QED
    BY <1>8, <2>1, GetSame
<1>11. QED
  BY <1>4, <1>5, <1>9, <1>10 DEF b, h, x

\* next() returns nothing: at most the error flag is set, or the buffer compacted.
LEMMA NothingStep ==
    ASSUME StreamInv, next_nothing, UNCHANGED <<header, messages, verdicts>>
    PROVE  StreamInv'
<1>1. WindowInv /\ DecodedInv /\ ErrorInv /\ MessageInv
  BY DEF StreamInv
<1>2. /\ stream' = stream /\ fed' = fed /\ sent' = sent /\ decoded' = decoded /\ at' = at /\ resets' = resets
      /\ header' = header /\ messages' = messages /\ verdicts' = verdicts
  BY DEF next_nothing
<1>3. /\ decoder \in DecoderType /\ decoder.head <= Len(decoder.buffer)
      /\ Framed(sent, stream) /\ at \in Nat
  BY <1>1, StreamTypes
<1>4. MessageInv'
  BY <1>1, <1>2 DEF MessageInv
<1>5. ASSUME WindowInv', decoder'.frames = decoder.frames, decoder'.error => ErrorInv'
      PROVE  StreamInv'
  <2>1. DecodedInv'
    BY <1>1, <1>2, <1>5 DEF DecodedInv
  <2>2. ErrorInv'
    BY <1>5 DEF ErrorInv
  <2>3. QED
    BY <1>4, <1>5, <2>1, <2>2 DEF StreamInv
<1>6. CASE decoder.error /\ UNCHANGED decoder
  <2>1. WindowInv'
    BY <1>1, <1>2, <1>6 DEF WindowInv
  <2>2. ErrorInv'
    BY <1>1, <1>2, <1>6 DEF ErrorInv
  <2>3. QED
    BY <1>5, <1>6, <2>1, <2>2
<1>7. CASE ~decoder.error /\ HasPrefix(decoder) /\ BadPrefix(decoder) /\ decoder' = [decoder EXCEPT !.error = TRUE]
  <2>1. /\ decoder' \in DecoderType /\ decoder'.buffer = decoder.buffer /\ decoder'.head = decoder.head
        /\ decoder'.frames = decoder.frames
    BY <1>3, <1>7 DEF DecoderType
  <2>2. decoder'.error
    <3>1. decoder'.error = TRUE
      BY <1>3, <1>7 DEF DecoderType
    <3>2. QED
      BY <3>1, Zenon
  <2>3. WindowInv'
    BY <1>1, <1>2, <2>1, <2>2 DEF WindowInv
  <2>4. /\ at + 8 <= Len(stream) /\ get(decoder.buffer, decoder.head, 4) = get(stream, at, 4)
        /\ FrameLength(decoder) = get(stream, at + 4, 4)
    BY <1>1, <1>7, PrefixRead
  <2>5. ASSUME NEW k \in 1..Len(sent), StartIn(sent, k) = at
        PROVE  Len(sent[k]) > max_frame_bytes
    <3>1. get(stream, at, 4) = kFrameMagic /\ get(stream, at + 4, 4) = Len(sent[k])
      <4>1. FrameAt(stream, at, sent[k])
        BY <1>3, <2>5, AtStart
      <4>2. QED
        BY <4>1 DEF FrameAt
    <3>2. FrameLength(decoder) > max_frame_bytes
      BY <1>7, <2>4, <3>1 DEF BadPrefix
    <3>3. QED
      BY <2>4, <3>1, <3>2
  <2>6. ErrorInv'
    BY <1>2, <2>4, <2>5 DEF ErrorInv
  <2>7. QED
    BY <1>5, <2>1, <2>3, <2>6
<1>8. CASE ~decoder.error /\ decoder' = compact(decoder)
  <2>1. /\ decoder' \in DecoderType /\ decoder'.error = decoder.error /\ decoder'.frames = decoder.frames
        /\ decoder'.head <= Len(decoder'.buffer)
        /\ Len(decoder'.buffer) - decoder'.head = Len(decoder.buffer) - decoder.head
        /\ \A j \in 1..(Len(decoder.buffer) - decoder.head) :
               decoder'.buffer[decoder'.head + j] = decoder.buffer[decoder.head + j]
        /\ decoder'.head = 0 \/ 2 * decoder'.head < Len(decoder'.buffer)
    BY <1>3, <1>8, CompactKeeps
  <2>2. WindowInv'
    BY <1>1, <1>2, <2>1 DEF WindowInv
  <2>3. ~decoder'.error
    BY <1>8, <2>1
  <2>4. QED
    BY <1>5, <2>1, <2>2, <2>3
<1>9. QED
  BY <1>6, <1>7, <1>8 DEF next_nothing

\* What next() takes off stands at `at`, and is what was sent there if a frame starts there.
LEMMA FrameTaken ==
    ASSUME WindowInv, next_frame, NEW n, n = FrameLength(decoder),
           NEW v, v = SubSeq(Unread(decoder), 9, 8 + n)
    PROVE  /\ n \in Nat /\ n <= max_frame_bytes /\ v \in Seq(Byte) /\ Len(v) = n
           /\ FrameAt(stream, at, v) /\ at + 8 <= Len(stream)
           /\ \A k \in 1..Len(sent) :
                  StartIn(sent, k) = at => sent[k] = v /\ StartIn(sent, k + 1) = at + (8 + n)
<1> DEFINE b == decoder.buffer
           h == decoder.head
           l == Len(b)
           y == at + 4
<1>1. /\ b \in Seq(Byte) /\ h \in Nat /\ l \in Nat /\ h <= l /\ at \in Nat
      /\ Framed(sent, stream) /\ max_frame_bytes \in Nat /\ stream \in Seq(Byte) /\ Len(stream) \in Nat
  BY StreamTypes, FrameAssumption
<1>2. /\ HasPrefix(decoder) /\ get(b, h, 4) = kFrameMagic /\ ~(n > max_frame_bytes) /\ l - h >= 8 + n
  BY DEF next_frame, BadPrefix, IsComplete, buffered, kFramePrefixSize
<1>3. at + 8 <= Len(stream) /\ get(b, h, 4) = get(stream, at, 4) /\ n = get(stream, y, 4)
  BY <1>2, PrefixRead
<1>4. n \in Nat
  <2>1. y \in Nat /\ 4 \in Nat /\ y + 4 <= Len(stream)
    BY <1>1, <1>3
  <2> HIDE DEF y
  <2>2. QED
    BY <1>1, <1>3, <2>1, GetType
<1> DEFINE u == Unread(decoder)
           z == 8 + n
<1>5. \A j \in 1..(l - h) : b[h + j] = stream[at + j]
  BY DEF WindowInv
<1>6. u = SubSeq(b, h + 1, l)
  BY DEF Unread
<1>7. v = SubSeq(u, 8 + 1, z)
  <2>1. 8 + 1 = 9
    OBVIOUS
  <2>2. QED
    BY <2>1
<1> HIDE DEF b, h, u
<1>8. u \in Seq(Byte) /\ Len(u) = l - h /\ \A j \in 1..(l - h) : u[j] = b[h + j]
  BY <1>1, <1>6, PieceOf
<1> HIDE DEF l
<1>9. n <= max_frame_bytes /\ 8 \in Nat /\ z \in Nat /\ 8 <= z /\ z <= Len(u) /\ z - 8 = n
  <2>1. \A a, c, d, e \in Nat : ~(a > c) /\ d - e >= 8 + a =>
            a <= c /\ 8 + a \in Nat /\ 8 <= 8 + a /\ 8 + a <= d - e /\ (8 + a) - 8 = a
    OBVIOUS
  <2>2. n <= max_frame_bytes /\ 8 + n \in Nat /\ 8 <= 8 + n /\ 8 + n <= l - h /\ (8 + n) - 8 = n
    BY <1>1, <1>2, <1>4, <2>1
  <2>3. QED
    BY <1>8, <2>2
<1>10. v \in Seq(Byte) /\ Len(v) = z - 8 /\ \A j \in 1..(z - 8) : v[j] = u[8 + j]
  <2> HIDE DEF z
  <2>1. QED
    BY <1>7, <1>8, <1>9, PieceOf, SMTT(40)
<1>11. Len(v) = n
  BY <1>9, <1>10
<1>12. ASSUME NEW i \in 1..n
       PROVE  stream[at + (8 + i)] = v[i]
  <2> DEFINE j == 8 + i
  <2>1. j \in 1..(l - h)
    BY <1>1, <1>2, <1>4
  <2>2. v[i] = u[j]
    BY <1>9, <1>10
  <2> HIDE DEF j
  <2>3. u[j] = stream[at + j]
    BY <1>5, <1>8, <2>1
  <2>4. QED
    BY <2>2, <2>3 DEF j
<1>13. FrameAt(stream, at, v)
  BY <1>2, <1>3, <1>11, <1>12 DEF FrameAt
<1>14. ASSUME NEW k \in 1..Len(sent), StartIn(sent, k) = at
       PROVE  sent[k] = v /\ StartIn(sent, k + 1) = at + (8 + n)
  <2> DEFINE p == sent[k]
  <2>1. /\ p \in Payloads /\ StartIn(sent, k + 1) = at + (8 + Len(p)) /\ FrameAt(stream, at, p)
    BY <1>1, <1>14, AtStart
  <2>2. Len(p) = n /\ \A i \in 1..Len(p) : stream[at + (8 + i)] = p[i]
    BY <1>3, <2>1 DEF FrameAt
  <2>3. p \in Seq(Byte)
    BY <2>1, FrameBytes
  <2> HIDE DEF p
  <2>4. \A i \in 1..Len(p) : p[i] = v[i]
    BY <1>12, <2>2
  <2>5. p = v
    BY <1>10, <1>11, <2>2, <2>3, <2>4, SeqEqual
  <2>6. QED
    BY <2>1, <2>2, <2>5 DEF p
<1>15. QED
  BY <1>3, <1>4, <1>9, <1>10, <1>11, <1>13, <1>14

\* The window moves behind the frame that next() takes off.
LEMMA FrameMoves ==
    ASSUME WindowInv, next_frame, NEW n \in Nat, FrameLength(decoder) = n
    PROVE  WindowInv' /\ ~decoder'.error /\ decoder'.frames = decoder.frames + 1 /\ at' = at + (8 + n)
<1> DEFINE b == decoder.buffer
           h == decoder.head
           l == Len(b)
           t == 8 + n
           y == h + t
           f == decoder.frames + 1
           d == [decoder EXCEPT !.head = y, !.frames = f]
<1>1. /\ decoder \in DecoderType /\ b \in Seq(Byte) /\ h \in Nat /\ l \in Nat /\ h <= l /\ at \in Nat /\ fed \in Nat
      /\ Framed(sent, stream) /\ resets \in Nat /\ fed <= Len(stream) /\ decoder.frames \in Nat
  BY StreamTypes, DecoderFields
<1>2. l - h >= t /\ ~decoder.error
  BY DEF next_frame, IsComplete, buffered, kFramePrefixSize
<1>3. /\ decoder' = compact(d) /\ at' = at + t
      /\ stream' = stream /\ fed' = fed /\ sent' = sent /\ resets' = resets
  BY DEF next_frame, kFramePrefixSize
<1>4. t \in Nat /\ y \in Nat /\ y <= l /\ f \in Nat
  <2> HIDE DEF l, h
  <2>1. QED
    BY <1>1, <1>2
<1>5. /\ \A j \in 1..(l - h) : b[h + j] = stream[at + j]
      /\ at + (l - h) = fed
  BY <1>2 DEF WindowInv
<1> HIDE DEF y, f
<1>6. d \in DecoderType /\ d.buffer = b /\ d.head = y /\ d.frames = f /\ d.error = decoder.error
  BY <1>1, <1>4 DEF DecoderType
<1> HIDE DEF d
<1> DEFINE c == decoder'.buffer
           g == decoder'.head
           m == Len(c)
<1>7. d.head <= Len(d.buffer)
  BY <1>4, <1>6
<1>8. /\ decoder' \in DecoderType /\ decoder'.error = d.error /\ decoder'.frames = d.frames
      /\ g <= m /\ m - g = Len(d.buffer) - d.head
      /\ \A j \in 1..(Len(d.buffer) - d.head) : c[g + j] = d.buffer[d.head + j]
      /\ g = 0 \/ 2 * g < m
  BY <1>3, <1>6, <1>7, CompactKeeps
<1>9. m - g = l - y /\ \A j \in 1..(l - y) : c[g + j] = b[y + j]
  BY <1>6, <1>8
<1> HIDE DEF b, h, l, t
<1>10. at' \in Nat /\ at' + (l - y) = fed
  BY <1>1, <1>2, <1>3, <1>4, <1>5 DEF y
<1>11. ASSUME NEW j \in 1..(l - y)
       PROVE  b[y + j] = stream[at' + j]
  <2> DEFINE i == t + j
  <2>1. i \in 1..(l - h) /\ y + j = h + i /\ at' + j = at + i
    BY <1>1, <1>3, <1>4 DEF y
  <2> HIDE DEF i
  <2>2. QED
    BY <1>5, <2>1
<1>12. WindowInv'
  <2>1. \A j \in 1..(m - g) : c[g + j] = stream'[at' + j]
    BY <1>3, <1>9, <1>11
  <2>2. at' + (m - g) = fed' /\ at' + (m - g) <= fed'
    <3>1. at' + (l - y) <= fed
      BY <1>1, <1>10
    <3>2. QED
      BY <1>3, <1>9, <1>10, <3>1
  <2>3. /\ at' \in Nat /\ fed' \in Nat /\ resets' \in Nat /\ Framed(sent', stream') /\ fed' <= Len(stream')
    BY <1>1, <1>3, <1>10
  <2>4. QED
    BY <1>8, <2>1, <2>2, <2>3 DEF WindowInv
<1>13. ~decoder'.error
  BY <1>2, <1>6, <1>8
<1>14. QED
  BY <1>3, <1>6, <1>8, <1>12, <1>13 DEF f, t

\* decode_header() is right about the message that travels in a frame within the limit.
LEMMA VerdictRight ==
    ASSUME NEW m, NEW p, Carries(m, p), Len(p) <= max_frame_bytes, NEW out
    PROVE  Verdict(m, decode_header(p, out))
<1>1. CASE m \in Headers /\ p = encode_header(m)
  BY <1>1, DecodeEncoded, Zenon
<1>2. CASE m = NoHeader /\ p = Short
  BY <1>2, DecodeShort, Zenon
<1>3. p # Long
  <2>1. max_frame_bytes \in Nat
    BY FrameAssumption
  <2>2. Len(Long) = max_frame_bytes + 1
    <3>1. max_frame_bytes + 1 \in Nat
      BY <2>1
    <3>2. QED
      BY <3>1 DEF Long
  <2>3. QED
    BY <2>1, <2>2
<1>4. QED
  BY <1>1, <1>2, <1>3, Zenon DEF Carries

\* A frame is decoded, and its header.
LEMMA FrameStep ==
    ASSUME StreamInv, next_frame, NEW answer, answer = decode_header(Last(decoded').payload, header),
           header' = answer.out, verdicts' = Append(verdicts, answer), messages' = messages
    PROVE  StreamInv'
<1>1. WindowInv /\ DecodedInv /\ ErrorInv /\ MessageInv
  BY DEF StreamInv
<1> DEFINE n == FrameLength(decoder)
           p == SubSeq(Unread(decoder), 9, 8 + n)
           r == [at |-> at, payload |-> p]
           q == Len(decoded)
           z == q + 1
<1>2. /\ n \in Nat /\ n <= max_frame_bytes /\ p \in Seq(Byte) /\ Len(p) = n
      /\ FrameAt(stream, at, p) /\ at + 8 <= Len(stream)
      /\ \A k \in 1..Len(sent) :
             StartIn(sent, k) = at => sent[k] = p /\ StartIn(sent, k + 1) = at + (8 + n)
  BY <1>1, FrameTaken
<1>3. WindowInv' /\ ~decoder'.error /\ decoder'.frames = decoder.frames + 1 /\ at' = at + (8 + n)
  BY <1>1, <1>2, FrameMoves
<1>4. sent' = sent /\ stream' = stream /\ resets' = resets /\ decoded' = Append(decoded, r)
  <2>1. kFramePrefixSize + 1 = 9 /\ kFramePrefixSize + n = 8 + n
    BY DEF kFramePrefixSize
  <2>2. SubSeq(Unread(decoder), kFramePrefixSize + 1, kFramePrefixSize + n) = p
    BY <2>1
  <2>3. QED
    BY <2>2 DEF next_frame
<1> HIDE DEF n, p
<1>5. /\ decoded \in Seq(FrameType) /\ decoder.frames = q /\ q \in Nat /\ z \in Nat
      /\ \A i \in 1..q : /\ decoded[i] \in FrameType
                         /\ Comes(decoded[i], stream, at) /\ Genuine(decoded[i], sent)
  <2>1. /\ decoded \in Seq(FrameType) /\ decoder.frames = q
        /\ \A i \in 1..q : Comes(decoded[i], stream, at) /\ Genuine(decoded[i], sent)
    BY <1>1 DEF DecodedInv
  <2>2. \A i \in 1..q : decoded[i] \in FrameType
    BY <2>1
  <2>3. QED
    BY <2>1, <2>2
<1>6. /\ at \in Nat /\ sent \in Seq(Payloads) /\ Len(sent) \in Nat
      /\ Len(stream) \in Nat /\ Len(stream) = StartIn(sent, Len(sent) + 1)
  BY <1>1, StreamTypes
<1>7. r \in FrameType /\ r.at = at /\ r.payload = p
  BY <1>2, <1>6 DEF FrameType
<1> HIDE DEF r
<1>8. /\ decoded' \in Seq(FrameType) /\ Len(decoded') = z /\ decoded'[z] = r
      /\ \A i \in 1..q : decoded'[i] = decoded[i]
  BY <1>4, <1>5, <1>7
<1>9. at <= at' /\ at' \in Nat /\ at + (8 + n) <= at'
  BY <1>2, <1>3, <1>6
<1> HIDE DEF q
<1>10. \A i \in 1..z : i = z \/ i \in 1..q
  BY <1>5
<1> HIDE DEF z
<1>11. DecodedInv'
  <2>1. ASSUME NEW i \in 1..z
        PROVE  Comes(decoded'[i], stream, at') /\ Genuine(decoded'[i], sent)
    <3>1. CASE i = z
      <4>1. Comes(r, stream, at')
        BY <1>2, <1>7, <1>9 DEF Comes
      <4>2. Genuine(r, sent)
        BY <1>2, <1>7 DEF Genuine
      <4>3. QED
        BY <1>8, <3>1, <4>1, <4>2
    <3>2. CASE i \in 1..q
      <4>1. decoded'[i] = decoded[i]
        BY <1>8, <3>2
      <4>2. decoded[i] \in FrameType /\ Comes(decoded[i], stream, at) /\ Genuine(decoded[i], sent)
        BY <1>5, <3>2
      <4>3. Comes(decoded[i], stream, at')
        BY <1>6, <1>9, <4>2, ComesLater
      <4>4. QED
        BY <4>1, <4>2, <4>3
    <3>3. QED
      BY <1>10, <3>1, <3>2
  <2>2. ASSUME NEW i \in 1..z, NEW j \in 1..z, i < j
        PROVE  Before(decoded'[i], decoded'[j])
    <3>1. i \in 1..q
      BY <1>5, <2>2 DEF z
    <3>2. decoded'[i] = decoded[i] /\ Comes(decoded[i], stream, at)
      BY <1>5, <1>8, <3>1
    <3>3. CASE j = z
      <4>1. decoded'[j].at = at
        BY <1>7, <1>8, <3>3
      <4>2. QED
        BY <3>2, <4>1 DEF Before, Comes
    <3>4. CASE j \in 1..q
      <4>1. decoded'[j] = decoded[j]
        BY <1>8, <3>4
      <4>2. Before(decoded[i], decoded[j])
        BY <1>1, <2>2, <3>1, <3>4 DEF DecodedInv, q
      <4>3. QED
        BY <3>2, <4>1, <4>2
    <3>5. QED
      BY <1>10, <3>3, <3>4
  <2>3. ASSUME resets = 0
        PROVE  /\ z <= Len(sent) /\ at' = StartIn(sent, z + 1)
               /\ \A i \in 1..z : decoded'[i].at = StartIn(sent, i) /\ decoded'[i].payload = sent[i]
    <3>1. /\ q <= Len(sent) /\ at = StartIn(sent, q + 1)
          /\ \A i \in 1..q : decoded[i].at = StartIn(sent, i) /\ decoded[i].payload = sent[i]
      BY <1>1, <2>3 DEF DecodedInv, q
    <3>2. q # Len(sent)
      <4>1. ASSUME q = Len(sent) PROVE FALSE
        <5>1. at = Len(stream)
          BY <1>6, <3>1, <4>1
        <5>2. QED
          BY <1>2, <1>6, <5>1
      <4>2. QED
        BY <4>1
    <3>3. z \in 1..Len(sent) /\ z <= Len(sent)
      BY <1>5, <1>6, <3>1, <3>2 DEF z
    <3>4. StartIn(sent, z) = at
      BY <3>1 DEF z
    <3>5. sent[z] = p /\ StartIn(sent, z + 1) = at + (8 + n)
      BY <1>2, <3>3, <3>4
    <3>6. at' = StartIn(sent, z + 1)
      BY <1>3, <3>5
    <3>7. ASSUME NEW i \in 1..z
          PROVE  decoded'[i].at = StartIn(sent, i) /\ decoded'[i].payload = sent[i]
      <4>1. CASE i = z
        BY <1>7, <1>8, <3>4, <3>5, <4>1
      <4>2. CASE i \in 1..q
        BY <1>8, <3>1, <4>2
      <4>3. QED
        BY <1>10, <4>1, <4>2
    <3>8. QED
      BY <3>3, <3>6, <3>7
  <2>4. decoder'.frames = z
    BY <1>3, <1>5 DEF z
  <2>5. QED
    BY <1>4, <1>8, <2>1, <2>2, <2>3, <2>4 DEF DecodedInv
<1>12. ErrorInv'
  BY <1>3 DEF ErrorInv
<1>13. MessageInv'
  <2>1. /\ messages \in Seq(Headers \cup {NoHeader}) /\ Len(messages) = Len(sent)
        /\ \A j \in 1..Len(sent) : Carries(messages[j], sent[j])
        /\ header \in [Fields -> Nat] /\ verdicts \in Seq(AnswerType) /\ Len(verdicts) = q
    BY <1>1 DEF MessageInv, q
  <2>2. answer = decode_header(p, header)
    <3>1. Last(decoded') = r
      BY <1>8 DEF Last
    <3>2. QED
      BY <1>7, <3>1
  <2>3. answer \in AnswerType
    BY <1>2, <2>1, <2>2, DecodeType
  <2>4. answer.out \in [Fields -> Nat]
    BY <2>3 DEF AnswerType
  <2>5. /\ verdicts' \in Seq(AnswerType) /\ Len(verdicts') = z /\ verdicts'[z] = answer
        /\ \A i \in 1..q : verdicts'[i] = verdicts[i]
    <3>1. verdicts \in Seq(AnswerType) /\ q = Len(verdicts) /\ verdicts' = Append(verdicts, answer) /\ z = q + 1
      BY <2>1 DEF z
    <3>2. QED
      BY <2>3, <3>1, AppendProperties
  <2>6. ASSUME NEW k \in 1..Len(sent), StartIn(sent, k) = at
        PROVE  Verdict(messages[k], answer)
    <3>1. Carries(messages[k], p) /\ Len(p) <= max_frame_bytes
      BY <1>2, <2>1, <2>6
    <3>2. QED
      BY <2>2, <3>1, VerdictRight
  <2>7. ASSUME NEW i \in 1..z, NEW j \in 1..Len(sent), StartIn(sent, j) = decoded'[i].at
        PROVE  Verdict(messages[j], verdicts'[i])
    <3>1. CASE i = z
      <4>1. StartIn(sent, j) = at
        BY <1>7, <1>8, <2>7, <3>1
      <4>2. QED
        BY <2>5, <2>6, <3>1, <4>1
    <3>2. CASE i \in 1..q
      <4>1. decoded'[i] = decoded[i] /\ verdicts'[i] = verdicts[i]
        BY <1>8, <2>5, <3>2
      <4>2. StartIn(sent, j) = decoded[i].at
        BY <2>7, <4>1
      <4>3. Verdict(messages[j], verdicts[i])
        BY <1>1, <3>2, <4>2 DEF MessageInv, q
      <4>4. QED
        BY <4>1, <4>3
    <3>3. QED
      BY <1>10, <3>1, <3>2
  <2>8. header' \in [Fields -> Nat]
    BY <2>4
  <2>9. QED
    BY <1>4, <1>8, <2>1, <2>5, <2>7, <2>8 DEF MessageInv
<1>14. QED
  BY <1>3, <1>11, <1>12, <1>13 DEF StreamInv

\* The invariant holds at the start.
LEMMA StreamInit == Init => StreamInv
<1>1. SUFFICES ASSUME Init PROVE StreamInv
  OBVIOUS
<1>2. /\ decoder = [buffer |-> <<>>, head |-> 0, error |-> FALSE, frames |-> 0]
      /\ stream = <<>> /\ fed = 0 /\ sent = <<>> /\ decoded = <<>> /\ at = 0 /\ resets = 0
      /\ header = MessageHeader0 /\ messages = <<>> /\ verdicts = <<>>
  BY <1>1 DEF Init, FramingInit
<1> DEFINE b == decoder.buffer
<1>3. b = <<>> /\ decoder.head = 0 /\ decoder.frames = 0
  BY <1>2
<1>4. ~decoder.error
  <2>1. decoder.error = FALSE
    BY <1>2
  <2>2. QED
    BY <2>1, Zenon
<1>5. decoder \in DecoderType
  <2> DEFINE e == <<>>
  <2>1. e \in Seq(Byte) /\ 0 \in Nat /\ FALSE \in BOOLEAN
    OBVIOUS
  <2>2. decoder = [buffer |-> e, head |-> 0, error |-> FALSE, frames |-> 0]
    BY <1>2
  <2> HIDE DEF e
  <2>3. QED
    BY <2>1, <2>2, Zenon DEF DecoderType
<1>6. StartIn(sent, 1) = 0 /\ Framed(sent, stream) /\ Len(sent) = 0
  <2>1. sent \in Seq(Payloads) /\ Len(sent) = 0 /\ stream \in Seq(Byte) /\ Len(stream) = 0
    BY <1>2
  <2>2. StartIn(sent, 1) = 0
    BY <2>1, StartSteps
  <2>3. Len(sent) + 1 = 1 /\ \A k : k \notin 1..Len(sent)
    BY <2>1
  <2>4. QED
    BY <2>1, <2>2, <2>3 DEF Framed
<1>7. WindowInv
  <2>1. Len(b) - decoder.head = 0 /\ Len(b) = 0 /\ at + 0 = fed /\ at + 0 <= fed /\ fed <= Len(stream)
    BY <1>2, <1>3
  <2>2. at \in Nat /\ fed \in Nat /\ resets \in Nat /\ decoder.head <= Len(b) /\ \A j : j \notin 1..0
    BY <1>2, <1>3, <2>1
  <2>3. QED
    BY <1>3, <1>5, <1>6, <2>1, <2>2 DEF WindowInv
<1>8. Len(decoded) = 0 /\ decoded \in Seq(FrameType) /\ \A i : i \notin 1..Len(decoded)
  BY <1>2
<1>9. DecodedInv
  <2>1. Len(decoded) + 1 = 1 /\ Len(decoded) <= Len(sent) /\ at = StartIn(sent, 1) /\ decoder.frames = Len(decoded)
    BY <1>2, <1>3, <1>6, <1>8
  <2>2. QED
    BY <1>8, <2>1 DEF DecodedInv
<1>10. ErrorInv
  BY <1>4 DEF ErrorInv
<1>11. MessageInv
  <2>1. header \in [Fields -> Nat]
    BY <1>2, HeadersAssumption, Zenon DEF MessageHeader0
  <2>2. /\ messages \in Seq(Headers \cup {NoHeader}) /\ Len(messages) = Len(sent)
        /\ verdicts \in Seq(AnswerType) /\ Len(verdicts) = Len(decoded)
    BY <1>2
  <2>3. \A k : k \notin 1..Len(sent)
    BY <1>6
  <2>4. QED
    BY <1>8, <2>1, <2>2, <2>3 DEF MessageInv
<1>12. QED
  BY <1>7, <1>9, <1>10, <1>11 DEF StreamInv

\* Every step keeps the invariant.
LEMMA StreamNext == StreamInv /\ [Next]_vars => StreamInv'
<1>1. SUFFICES ASSUME StreamInv, [Next]_vars PROVE StreamInv'
  OBVIOUS
<1>2. Payloads = {Short, Long} \cup {encode_header(h) : h \in Headers}
  BY HeadersAssumption
<1>3. ASSUME NEW h \in Headers, SendMessage(h) PROVE StreamInv'
  <2>1. encode_header(h) \in Payloads /\ Carries(h, encode_header(h)) /\ h \in Headers \cup {NoHeader}
    BY <1>2 DEF Carries
  <2>2. send(encode_header(h)) /\ messages' = Append(messages, h) /\ UNCHANGED <<header, verdicts>>
    BY <1>3 DEF SendMessage
  <2>3. QED
    BY <1>1, <2>1, <2>2, SendStep, Zenon
<1>4. ASSUME NEW p \in {Short, Long}, SendOther(p) PROVE StreamInv'
  <2>1. p \in Payloads /\ Carries(NoHeader, p) /\ NoHeader \in Headers \cup {NoHeader}
    BY <1>2 DEF Carries
  <2>2. send(p) /\ messages' = Append(messages, NoHeader) /\ UNCHANGED <<header, verdicts>>
    BY <1>4 DEF SendOther
  <2>3. QED
    BY <1>1, <2>1, <2>2, SendStep, Zenon
<1>5. CASE Read
  BY <1>1, <1>5, FeedStep, Zenon DEF Read
<1>6. CASE TakeFrame
  <2>1. CASE next_nothing /\ UNCHANGED <<header, messages, verdicts>>
    BY <1>1, <2>1, NothingStep
  <2>2. CASE ~(next_nothing /\ UNCHANGED <<header, messages, verdicts>>)
    <3> DEFINE answer == decode_header(Last(decoded').payload, header)
    <3>1. /\ next_frame /\ header' = answer.out /\ verdicts' = Append(verdicts, answer) /\ messages' = messages
      BY <1>6, <2>2, Zenon DEF TakeFrame
    <3>2. answer = decode_header(Last(decoded').payload, header)
      OBVIOUS
    <3> HIDE DEF answer
    <3>3. QED
      BY <1>1, <3>1, <3>2, FrameStep, Zenon
  <2>3. QED
    BY <2>1, <2>2
<1>7. CASE Reset
  BY <1>1, <1>7, ResetStep DEF Reset
<1>8. CASE UNCHANGED vars
  <2>1. /\ decoder' = decoder /\ stream' = stream /\ fed' = fed /\ sent' = sent /\ decoded' = decoded
        /\ at' = at /\ resets' = resets /\ header' = header /\ messages' = messages /\ verdicts' = verdicts
    BY <1>8 DEF vars, framingVars
  <2>2. WindowInv'
    BY <1>1, <2>1 DEF StreamInv, WindowInv
  <2>3. DecodedInv'
    BY <1>1, <2>1 DEF StreamInv, DecodedInv
  <2>4. ErrorInv'
    BY <1>1, <2>1 DEF StreamInv, ErrorInv
  <2>5. MessageInv'
    BY <1>1, <2>1 DEF StreamInv, MessageInv
  <2>6. QED
    BY <2>2, <2>3, <2>4, <2>5 DEF StreamInv
<1>9. QED
  BY <1>1, <1>3, <1>4, <1>5, <1>6, <1>7, <1>8 DEF Next

\* The invariant always holds.
LEMMA AlwaysStreamInv == Spec => []StreamInv
<1>1. QED
  BY StreamInit, StreamNext, PTL DEF Spec

-----------------------------------------------------------------------------
(* What the invariant says. *)

\* Start() is the place of a frame in the stream.
LEMMA StartIs == \A k : Start(k) = StartIn(sent, k)
BY DEF Start, StartIn, Sizes

\* The decoder holds the rest of the stream.
LEMMA InvRestOfStream == StreamInv => RestOfStream
<1>1. SUFFICES ASSUME StreamInv PROVE RestOfStream
  OBVIOUS
<1>2. WindowInv
  BY <1>1 DEF StreamInv
<1> DEFINE b == decoder.buffer
           h == decoder.head
           l == Len(b)
           w == l - h
           end == at + w
           u == SubSeq(b, h + 1, l)
           v == SubSeq(stream, at + 1, end)
<1>3. /\ b \in Seq(Byte) /\ h \in Nat /\ l \in Nat /\ h <= l /\ w \in Nat /\ at \in Nat /\ fed \in Nat
      /\ end <= fed /\ fed <= Len(stream) /\ stream \in Seq(Byte) /\ Len(stream) \in Nat
  BY <1>2, StreamTypes
<1>4. /\ \A j \in 1..w : b[h + j] = stream[at + j]
      /\ ~decoder.error => end = fed
      /\ h = 0 \/ 2 * h < l
  BY <1>2 DEF WindowInv
<1>5. Unread(decoder) = u /\ buffered(decoder) = w
  BY DEF Unread, buffered
<1> HIDE DEF b, h
<1>6. u \in Seq(Byte) /\ Len(u) = l - h /\ \A j \in 1..(l - h) : u[j] = b[h + j]
  BY <1>3, PieceOf
<1> HIDE DEF l
<1>7. end \in Nat /\ at <= end /\ end <= Len(stream) /\ end - at = w
  BY <1>3
<1> HIDE DEF u, w, end
<1>8. v \in Seq(Byte) /\ Len(v) = end - at /\ \A j \in 1..(end - at) : v[j] = stream[at + j]
  BY <1>3, <1>7, PieceOf
<1>9. u = v
  <2> HIDE DEF v
  <2>1. Len(u) = w /\ Len(v) = w /\ \A j \in 1..w : u[j] = b[h + j]
    BY <1>6, <1>7, <1>8 DEF w
  <2>2. \A j \in 1..w : v[j] = stream[at + j]
    BY <1>7, <1>8
  <2>3. \A j \in 1..w : u[j] = v[j]
    BY <1>4, <2>1, <2>2
  <2>4. u \in Seq(Byte) /\ v \in Seq(Byte) /\ Len(u) = Len(v) /\ \A j \in 1..Len(u) : u[j] = v[j]
    BY <1>6, <1>8, <2>1, <2>3
  <2>5. QED
    BY <2>4, SeqEqual
<1>10. QED
  <2>1. at + buffered(decoder) = end
    BY <1>5 DEF end
  <2>2. Unread(decoder) = SubSeq(stream, at + 1, end)
    BY <1>5, <1>9
  <2>3. decoder.head = 0 \/ 2 * decoder.head < Len(decoder.buffer)
    BY <1>4 DEF b, h, l
  <2>4. QED
    BY <1>3, <1>4, <2>1, <2>2, <2>3 DEF RestOfStream

\* Decoded frames stand in the stream, and were sent if they start where a frame does.
LEMMA InvNoPhantomFrame == StreamInv => NoPhantomFrame
<1>1. SUFFICES ASSUME StreamInv PROVE NoPhantomFrame
  OBVIOUS
<1>2. WindowInv /\ DecodedInv
  BY <1>1 DEF StreamInv
<1> DEFINE q == Len(decoded)
<1>3. sent \in Seq(Payloads) /\ decoded \in Seq(FrameType)
  BY <1>2, StreamTypes DEF DecodedInv
<1>4. DOMAIN sent = 1..Len(sent) /\ DOMAIN decoded = 1..q /\ q \in Nat /\ Len(sent) \in Nat
  BY <1>3
<1>5. ASSUME NEW i \in DOMAIN decoded, NEW f, f = decoded[i]
      PROVE  /\ InStream(f)
             /\ i > 1 => End(decoded[i - 1]) <= f.at
             /\ \/ \E k \in DOMAIN sent : Start(k) = f.at /\ sent[k] = f.payload
                \/ resets > 0 /\ \A k \in DOMAIN sent : Start(k) # f.at
  <2>1. f \in FrameType /\ Comes(f, stream, at) /\ Genuine(f, sent) /\ i \in 1..q
    BY <1>2, <1>3, <1>4, <1>5 DEF DecodedInv
  <2>2. InStream(f)
    <3> DEFINE x == f.at + 8
               p == f.payload
               y == x + Len(p)
               t == SubSeq(stream, x + 1, y)
    <3>1. f.at \in Nat /\ p \in Seq(Byte) /\ Len(p) \in Nat /\ at \in Nat /\ at <= fed /\ fed \in Nat
          /\ fed <= Len(stream) /\ Len(stream) \in Nat /\ stream \in Seq(Byte)
      BY <1>2, <2>1, StreamTypes, FrameFacts
    <3>2. /\ get(stream, f.at, 4) = kFrameMagic /\ get(stream, f.at + 4, 4) = Len(p)
          /\ Len(p) <= max_frame_bytes
          /\ \A j \in 1..Len(p) : stream[f.at + (8 + j)] = p[j]
          /\ f.at + (8 + Len(p)) <= at
      BY <2>1 DEF Comes, FrameAt
    <3>3. x \in Nat /\ y \in Nat /\ x <= y /\ y <= Len(stream) /\ y - x = Len(p)
      <4>1. \A a, c, d, e, g \in Nat : a + (8 + c) <= d /\ d <= e /\ e <= g =>
                a + 8 \in Nat /\ (a + 8) + c \in Nat /\ a + 8 <= (a + 8) + c /\ (a + 8) + c <= g
                /\ ((a + 8) + c) - (a + 8) = c
        OBVIOUS
      <4>2. QED
        BY <3>1, <3>2, <4>1, SMTT(40)
    <3>4. \A j \in 1..Len(p) : f.at + (8 + j) = x + j
      <4>1. \A a, j \in Nat : a + (8 + j) = (a + 8) + j
        OBVIOUS
      <4>2. \A j \in 1..Len(p) : j \in Nat
        OBVIOUS
      <4>3. QED
        BY <3>1, <4>1, <4>2
    <3>5. f.at + kFramePrefixSize + 1 = x + 1 /\ End(f) = y
      BY <3>1 DEF kFramePrefixSize, End
    <3> HIDE DEF p, x, y
    <3>6. t \in Seq(Byte) /\ Len(t) = y - x /\ \A j \in 1..(y - x) : t[j] = stream[x + j]
      BY <3>1, <3>3, PieceOf
    <3> HIDE DEF t
    <3>7. Len(p) = Len(t) /\ \A j \in 1..Len(p) : p[j] = t[j]
      BY <3>2, <3>3, <3>4, <3>6
    <3>8. p = t
      BY <3>1, <3>6, <3>7, SeqEqual
    <3>9. QED
      BY <3>2, <3>5, <3>8 DEF InStream, p, t
  <2>3. ASSUME i > 1 PROVE End(decoded[i - 1]) <= f.at
    <3> DEFINE j == i - 1
               g == decoded[j]
    <3>1. i \in 1..q /\ j \in 1..q /\ j < i
      BY <1>4, <2>3
    <3> HIDE DEF j
    <3>2. g \in FrameType /\ Comes(g, stream, at) /\ Before(g, f)
      BY <1>2, <1>3, <1>5, <3>1 DEF DecodedInv
    <3> HIDE DEF g
    <3>3. g.at \in Nat /\ Len(g.payload) \in Nat
      BY <1>2, <3>2, StreamTypes, FrameFacts
    <3>4. End(g) = g.at + (8 + Len(g.payload))
      BY <3>3 DEF End, kFramePrefixSize
    <3>5. QED
      BY <3>2, <3>4 DEF Before, g, j
  <2>4. ASSUME NEW k \in DOMAIN sent, Start(k) = f.at
        PROVE  sent[k] = f.payload
    BY <1>4, <2>1, <2>4, StartIs DEF Genuine
  <2>5. ASSUME resets = 0
        PROVE  i \in DOMAIN sent /\ Start(i) = f.at
    <3>1. q <= Len(sent) /\ decoded[i].at = StartIn(sent, i)
      BY <1>2, <2>1, <2>5 DEF DecodedInv
    <3>2. i \in 1..Len(sent)
      BY <1>4, <2>1, <3>1
    <3>3. QED
      BY <1>4, <1>5, <3>1, <3>2, StartIs
  <2>6. resets = 0 \/ resets > 0
    <3>1. resets \in Nat
      BY <1>2, StreamTypes
    <3>2. QED
      BY <3>1
  <2>7. QED
    BY <2>2, <2>3, <2>4, <2>5, <2>6, Zenon
<1>6. ASSUME resets = 0
      PROVE  [i \in DOMAIN decoded |-> decoded[i].payload] = SubSeq(sent, 1, q)
  <2> DEFINE f == [i \in DOMAIN decoded |-> decoded[i].payload]
             t == SubSeq(sent, 0 + 1, q)
  <2>1. q <= Len(sent) /\ \A i \in 1..q : decoded[i].payload = sent[i]
    BY <1>2, <1>6 DEF DecodedInv
  <2> HIDE DEF q
  <2>2. t \in Seq(Payloads) /\ Len(t) = q - 0 /\ \A j \in 1..(q - 0) : t[j] = sent[0 + j]
    <3>1. 0 \in Nat /\ 0 <= q
      BY <1>4
    <3>2. QED
      BY <1>3, <1>4, <2>1, <3>1, PieceOf
  <2>3. t = SubSeq(sent, 1, q)
    OBVIOUS
  <2> HIDE DEF t
  <2>4. Len(t) = q /\ \A j \in 1..q : t[j] = sent[j]
    <3>1. q - 0 = q /\ \A j \in 1..q : 0 + j = j
      BY <1>4
    <3>2. QED
      BY <2>2, <3>1
  <2>5. DOMAIN t = 1..q /\ t = [j \in 1..q |-> t[j]]
    BY <2>2, <2>4
  <2>6. f = [j \in 1..q |-> t[j]]
    BY <1>4, <2>1, <2>4
  <2>7. QED
    BY <2>3, <2>5, <2>6
<1>7. decoder.frames = q
  BY <1>2 DEF DecodedInv
<1>8. QED
  BY <1>5, <1>6, <1>7 DEF NoPhantomFrame

\* An error is the fault of what stands at `at`.
LEMMA InvErrorJustified == StreamInv => ErrorJustified
<1>1. SUFFICES ASSUME StreamInv PROVE ErrorJustified
  OBVIOUS
<1>2. DOMAIN sent = 1..Len(sent)
  <2>1. sent \in Seq(Payloads)
    BY <1>1, StreamTypes DEF StreamInv
  <2>2. QED
    BY <2>1
<1>3. QED
  BY <1>1, <1>2, StartIs DEF StreamInv, ErrorInv, ErrorJustified

\* A verdict is right about the message of its frame.
LEMMA InvHeadersIntact == StreamInv => HeadersIntact
<1>1. SUFFICES ASSUME StreamInv PROVE HeadersIntact
  OBVIOUS
<1>2. WindowInv /\ DecodedInv /\ MessageInv
  BY <1>1 DEF StreamInv
<1>3. sent \in Seq(Payloads) /\ verdicts \in Seq(AnswerType) /\ Len(verdicts) = Len(decoded)
  BY <1>2, StreamTypes DEF MessageInv
<1>4. DOMAIN sent = 1..Len(sent) /\ DOMAIN verdicts = 1..Len(decoded)
  BY <1>3
<1>5. ASSUME NEW i \in DOMAIN verdicts, NEW k \in DOMAIN sent, Start(k) = decoded[i].at
      PROVE  Verdict(messages[k], verdicts[i])
  <2>1. i \in 1..Len(decoded) /\ k \in 1..Len(sent) /\ StartIn(sent, k) = decoded[i].at
    BY <1>4, <1>5, StartIs
  <2>2. QED
    BY <1>2, <2>1 DEF MessageInv
<1>6. QED
  BY <1>5, Zenon DEF HeadersIntact, Verdict

\* FrameDecoder: however the stream is cut into pieces, and whenever the buffer is
\* compacted or the decoder reset, what the decoder has not consumed is the stream
\* from its place on, in less than twice the memory.
THEOREM AlwaysRestOfStream == Spec => []RestOfStream
<1>1. QED
  BY AlwaysStreamInv, InvRestOfStream, PTL

\* FrameDecoder::next(): what comes out stands in the stream as a frame within the limit,
\* one behind the other, whatever bytes the payloads hold; what starts where a frame was
\* sent is that frame, and without a reset() nothing else comes out and nothing is left out.
THEOREM AlwaysNoPhantomFrame == Spec => []NoPhantomFrame
<1>1. QED
  BY AlwaysStreamInv, InvNoPhantomFrame, PTL

\* FrameDecoder::next(): the error flag is raised by a frame over the limit, or out of
\* step with the stream.
THEOREM AlwaysErrorJustified == Spec => []ErrorJustified
<1>1. QED
  BY AlwaysStreamInv, InvErrorJustified, PTL

\* decode_header(): what it accepts is what was encoded, field by field.
THEOREM AlwaysHeadersIntact == Spec => []HeadersIntact
<1>1. QED
  BY AlwaysStreamInv, InvHeadersIntact, PTL
=============================================================================
