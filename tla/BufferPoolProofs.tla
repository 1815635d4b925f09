------------------------- MODULE BufferPoolProofs -------------------------
(***************************************************************************)
(* Theorems about BufferPool, for any number of threads, of buffers and of *)
(* handles.                                                                *)
(***************************************************************************)
EXTENDS BufferPool, DataLemmas

USE PoolAssumption

-----------------------------------------------------------------------------
(* The inductive invariant. *)

\* The members of the pool as a record.
PoolRecord == [free: Seq(Nat), total: Nat \ {0}, exhausted: Nat]

\* The deleter of thread t has a buffer in its hands, and it is b.
DeleterHas(t, b) == dpc[t] \in {"lock", "release", "delete"} /\ dbuf[t] = b
InDeleter(b)     == \E t \in Threads : DeleterHas(t, b)
InPool(b)        == b \in ToSet(pool.free)

Types ==
    /\ pool \in PoolRecord
    /\ pool.free \in Seq(Buffers) /\ pool.exhausted \in 0..MaxExhausted
    /\ alive \in BOOLEAN /\ owners \subseteq Threads
    /\ holds \in [Threads -> SUBSET Buffers] /\ full \subseteq Buffers
    /\ dpc \in [Threads -> {"idle", "lock", "release", "unpin", "delete"}]
    /\ dbuf \in [Threads -> Buffers \cup {0}] /\ deleted \in [Buffers -> {0, 1}]

\* OnePlace without counting: two places exclude one another, and there is one.
Exclusive(b) ==
    /\ InPool(b) => ~Held(b) /\ ~InDeleter(b) /\ deleted[b] = 0
    /\ Held(b) => ~InDeleter(b) /\ deleted[b] = 0
    /\ InDeleter(b) => deleted[b] = 0
    /\ InPool(b) \/ Held(b) \/ InDeleter(b) \/ deleted[b] = 1

Places ==
    /\ Distinct(pool.free)
    /\ \A b \in Buffers : Exclusive(b)
    /\ \A t, u \in Threads : \A b \in Buffers : DeleterHas(t, b) /\ DeleterHas(u, b) => t = u
    /\ \A t \in Threads : dpc[t] \in {"lock", "release", "delete"} => dbuf[t] \in Buffers
    /\ full \cap ToSet(pool.free) = {}

\* The pool lives as long as it is referenced, and has nothing left afterwards.
Lifetime ==
    /\ (owners \cup Pins # {}) <=> alive
    /\ ~alive => pool.free = <<>>

BufferInv == Types /\ Places /\ Lifetime

-----------------------------------------------------------------------------
(* The critical sections of the pool. *)

\* acquire() takes one buffer out of free_.
LEMMA AcquireProperties ==
    ASSUME NEW p \in PoolRecord, p.free # <<>>, Distinct(p.free)
    PROVE  /\ Acquire(p) \in PoolRecord
           /\ Acquire(p).total = p.total /\ Acquire(p).exhausted = p.exhausted
           /\ Acquired(p) \in ToSet(p.free)
           /\ Distinct(Acquire(p).free)
           /\ ToSet(Acquire(p).free) = ToSet(p.free) \ {Acquired(p)}
<1> DEFINE f == p.free
           g == SubSeq(f, 1, Len(f) - 1)
<1>1. f \in Seq(Nat) /\ f # <<>> /\ Distinct(f)
  BY DEF PoolRecord
<1> HIDE DEF f
<1>2. /\ g \in Seq(Nat) /\ Distinct(g) /\ f[Len(f)] \in ToSet(f)
      /\ ToSet(g) = ToSet(f) \ {f[Len(f)]}
  BY <1>1, ToSetFront
<1> HIDE DEF g
<1>3. Acquire(p) = [p EXCEPT !.free = g]
  BY DEF Acquire, f, g
<1>4. [p EXCEPT !.free = g] \in PoolRecord /\ [p EXCEPT !.free = g].free = g
  BY <1>2 DEF PoolRecord
<1>5. /\ Acquire(p).total = p.total /\ Acquire(p).exhausted = p.exhausted
  BY <1>3 DEF PoolRecord
<1>6. QED
  BY <1>2, <1>3, <1>4, <1>5 DEF Acquired, f

\* An acquire() of an empty pool counts the refusal.
LEMMA RefuseProperties ==
    ASSUME NEW p \in PoolRecord, p.free = <<>>
    PROVE  /\ Acquire(p) \in PoolRecord /\ Acquire(p).free = <<>>
           /\ Acquire(p).total = p.total /\ Acquire(p).exhausted = p.exhausted + 1
BY DEF Acquire, PoolRecord

\* release() puts one buffer back.
LEMMA ReleaseProperties ==
    ASSUME NEW p \in PoolRecord, NEW b \in Nat, Distinct(p.free), b \notin ToSet(p.free)
    PROVE  /\ Release(p, b) \in PoolRecord
           /\ Release(p, b).total = p.total /\ Release(p, b).exhausted = p.exhausted
           /\ Distinct(Release(p, b).free)
           /\ ToSet(Release(p, b).free) = ToSet(p.free) \cup {b}
<1> DEFINE f == p.free
           g == Append(f, b)
<1>1. f \in Seq(Nat) /\ Distinct(f) /\ b \notin ToSet(f)
  BY DEF PoolRecord
<1> HIDE DEF f
<1>2. g \in Seq(Nat) /\ Distinct(g) /\ ToSet(g) = ToSet(f) \cup {b}
  BY <1>1, DistinctAppend, ToSetAppend
<1> HIDE DEF g
<1>3. Release(p, b) = [p EXCEPT !.free = g]
  BY DEF Release, f, g
<1>4. [p EXCEPT !.free = g] \in PoolRecord /\ [p EXCEPT !.free = g].free = g
  BY <1>2 DEF PoolRecord
<1>5. Release(p, b).total = p.total /\ Release(p, b).exhausted = p.exhausted
  BY <1>3 DEF PoolRecord
<1>6. QED
  BY <1>2, <1>3, <1>4, <1>5 DEF f

\* The type of free_ is that of its elements.
LEMMA FreeType ==
    ASSUME NEW B, NEW s \in Seq(Nat), ToSet(s) \subseteq B
    PROVE  s \in Seq(B)
<1>1. \A i \in 1..Len(s) : s[i] \in B
  BY DEF ToSet
<1>2. QED
  BY <1>1, SeqDef, SMTT(30)

-----------------------------------------------------------------------------
(* Induction. *)

\* A fresh pool: every buffer is in free_, once.
LEMMA BufferInit == Init => BufferInv
<1> SUFFICES ASSUME Init PROVE BufferInv
  OBVIOUS
<1>1. PICK c \in Counts : pool = NewPool(c)
  BY DEF Init
<1> DEFINE n == IF c = 0 THEN 1 ELSE c
           f == [i \in 1..n |-> i]
<1>2. n \in Nat \ {0}
  OBVIOUS
<1>3. pool = [free |-> f, total |-> n, exhausted |-> 0]
  BY <1>1 DEF NewPool
<1> HIDE DEF n
<1>4. f \in Seq(1..n) /\ f \in Seq(Nat) /\ Len(f) = n
  BY <1>2
<1>5. ToSet(f) = 1..n /\ Distinct(f) /\ f # <<>>
  BY <1>2 DEF ToSet, Distinct
<1>6. pool.free = f /\ pool.total = n /\ pool.exhausted = 0
  BY <1>3
<1> HIDE DEF f
<1>7. pool \in PoolRecord
  BY <1>2, <1>3, <1>4 DEF PoolRecord
<1>8. Types
  BY <1>2, <1>4, <1>6, <1>7 DEF Init, Types, Buffers
<1>9. Places
  <2>1. \A b \in Buffers : InPool(b) /\ ~Held(b) /\ ~InDeleter(b) /\ deleted[b] = 0
    BY <1>5, <1>6 DEF Init, InPool, Held, InDeleter, DeleterHas, Buffers
  <2>2. QED
    BY <1>5, <1>6, <2>1 DEF Places, Exclusive, Init, DeleterHas
<1>10. Lifetime
  BY DEF Lifetime, Init, Pins
<1>11. QED
  BY <1>8, <1>9, <1>10 DEF BufferInv

-----------------------------------------------------------------------------
(* Every action. *)

\* acquire() moves a buffer from the pool to a handle, or counts a refusal.
LEMMA AcquireStep ==
    ASSUME BufferInv, NEW t \in Threads, acquire(t)
    PROVE  BufferInv'
<1> USE DEF BufferInv
<1>1. /\ pool' = Acquire(pool)
      /\ UNCHANGED <<alive, owners, dpc, dbuf, deleted>> /\ t \in owners
  BY DEF acquire
<1>2. alive /\ Pins' = Pins
  BY <1>1 DEF Lifetime, Pins
<1>3. Lifetime'
  BY <1>1, <1>2 DEF Lifetime
<1>4. CASE pool.free = <<>>
  <2>1. /\ pool' \in PoolRecord /\ pool'.free = <<>> /\ pool.free = <<>>
        /\ pool'.total = pool.total /\ pool'.exhausted = pool.exhausted + 1
    BY <1>1, <1>4, RefuseProperties DEF Types
  <2>2. pool.exhausted < MaxExhausted /\ UNCHANGED <<holds, full>>
    BY <1>4 DEF acquire
  <2>3. Buffers' = Buffers
    BY <2>1 DEF Buffers
  <2>4. pool'.free \in Seq(Buffers) /\ pool'.exhausted \in 0..MaxExhausted
    BY <2>1, <2>2 DEF Types
  <2>5. Types'
    BY <1>1, <2>1, <2>2, <2>3, <2>4 DEF Types
  <2>6. Places'
    BY <1>1, <2>1, <2>2, <2>3 DEF Places, Exclusive, InPool, Held, InDeleter, DeleterHas
  <2>7. QED
    BY <1>3, <2>5, <2>6
<1>5. CASE pool.free # <<>>
  <2> DEFINE b == Acquired(pool)
  <2>1. /\ pool' \in PoolRecord /\ Distinct(pool'.free) /\ b \in ToSet(pool.free)
        /\ pool'.total = pool.total /\ pool'.exhausted = pool.exhausted
        /\ ToSet(pool'.free) = ToSet(pool.free) \ {b}
    BY <1>1, <1>5, AcquireProperties DEF Types, Places
  <2>2. holds' = [holds EXCEPT ![t] = @ \cup {b}] /\ full' = full \ {b}
    BY <1>5 DEF acquire
  <2> HIDE DEF b
  <2>3. Buffers' = Buffers
    BY <2>1 DEF Buffers
  <2>4. ToSet(pool.free) \subseteq Buffers
    BY ToSetType DEF Types
  <2>5. pool'.free \in Seq(Buffers)
    <3>1. pool'.free \in Seq(Nat) /\ ToSet(pool'.free) \subseteq Buffers
      BY <2>1, <2>4 DEF PoolRecord
    <3>2. QED
      BY <3>1, FreeType
  <2>6. holds' \in [Threads -> SUBSET Buffers] /\ full' \subseteq Buffers
    BY <2>1, <2>2, <2>4 DEF Types
  <2>7. Types'
    BY <1>1, <2>1, <2>3, <2>5, <2>6 DEF Types
  <2>8. \A c \in Buffers : /\ InPool(c)' <=> InPool(c) /\ c # b
                           /\ Held(c)' <=> Held(c) \/ c = b
                           /\ InDeleter(c)' <=> InDeleter(c)
    <3>1. \A u \in Threads : holds'[u] = IF u = t THEN holds[t] \cup {b} ELSE holds[u]
      BY <2>2 DEF Types
    <3>2. QED
      BY <1>1, <2>1, <3>1 DEF InPool, Held, InDeleter, DeleterHas
  <2>9. InPool(b) /\ b \in Buffers
    BY <2>1, <2>4 DEF InPool
  <2>10. \A c \in Buffers : Exclusive(c)'
    BY <1>1, <2>8, <2>9 DEF Places, Exclusive
  <2>11. Places'
    BY <1>1, <2>1, <2>2, <2>3, <2>10 DEF Places, DeleterHas
  <2>12. QED
    BY <1>3, <2>7, <2>11
<1>6. QED
  BY <1>4, <1>5

\* resize() of a buffer behind a handle leaves every buffer where it is.
LEMMA ResizeStep ==
    ASSUME BufferInv, NEW t \in Threads, NEW b \in Buffers, NEW n \in {0, 1}, resize(t, b, n)
    PROVE  BufferInv'
<1> USE DEF BufferInv
<1>1. /\ UNCHANGED <<pool, alive, owners, holds, dpc, dbuf, deleted>>
      /\ full' \subseteq full \cup {b} /\ b \in holds[t]
  BY DEF resize
<1>2. Buffers' = Buffers /\ Pins' = Pins
  BY <1>1 DEF Buffers, Pins
<1>3. Types'
  BY <1>1, <1>2 DEF Types
<1>4. b \notin ToSet(pool.free)
  BY <1>1 DEF Places, Exclusive, Held, InPool
<1>5. Places'
  BY <1>1, <1>2, <1>4 DEF Places, Exclusive, InPool, Held, InDeleter, DeleterHas
<1>6. QED
  BY <1>1, <1>2, <1>3, <1>5 DEF Lifetime

\* A copy of a handle leaves every buffer where it is.
LEMMA ShareStep ==
    ASSUME BufferInv, NEW t \in Threads, NEW u \in Threads, NEW b \in Buffers, share(t, u, b)
    PROVE  BufferInv'
<1> USE DEF BufferInv
<1>1. /\ UNCHANGED <<pool, alive, owners, full, dpc, dbuf, deleted>>
      /\ holds' = [holds EXCEPT ![u] = @ \cup {b}] /\ b \in holds[t]
  BY DEF share
<1>2. Buffers' = Buffers /\ Pins' = Pins
  BY <1>1 DEF Buffers, Pins
<1>3. Types'
  BY <1>1, <1>2 DEF Types
<1>4. \A c \in Buffers : Held(c)' <=> Held(c)
  <2>1. \A v \in Threads : holds'[v] = IF v = u THEN holds[u] \cup {b} ELSE holds[v]
    BY <1>1 DEF Types
  <2>2. QED
    BY <1>1, <2>1 DEF Held
<1>5. Places'
  BY <1>1, <1>2, <1>4 DEF Places, Exclusive, InPool, InDeleter, DeleterHas
<1>6. QED
  BY <1>1, <1>2, <1>3, <1>5 DEF Lifetime

\* The drop of the last handle moves the buffer to the deleter.
LEMMA DropStep ==
    ASSUME BufferInv, NEW t \in Threads, NEW b \in Buffers, drop(t, b)
    PROVE  BufferInv'
<1> USE DEF BufferInv
<1> DEFINE last == ~\E u \in Threads \ {t} : b \in holds[u]
<1>1. /\ UNCHANGED <<pool, alive, owners, full, deleted>> /\ dpc[t] = "idle" /\ b \in holds[t]
      /\ holds' = [holds EXCEPT ![t] = @ \ {b}]
  BY DEF drop
<1>2. Buffers' = Buffers /\ b # 0
  BY <1>1 DEF Buffers, Types, PoolRecord
<1>3. \A v \in Threads : holds'[v] = IF v = t THEN holds[t] \ {b} ELSE holds[v]
  BY <1>1 DEF Types
<1>4. \A c \in Buffers : /\ InPool(c)' <=> InPool(c)
                         /\ Held(c)' <=> Held(c) /\ ~(last /\ c = b)
  BY <1>1, <1>3 DEF InPool, Held
<1>5. CASE ~last
  <2>1. UNCHANGED <<dpc, dbuf>>
    BY <1>5 DEF drop
  <2>2. Types'
    BY <1>1, <1>2, <2>1 DEF Types
  <2>3. Places'
    BY <1>1, <1>2, <1>4, <1>5, <2>1 DEF Places, Exclusive, InDeleter, DeleterHas
  <2>4. QED
    BY <1>1, <2>1, <2>2, <2>3 DEF Lifetime, Pins
<1>6. CASE last
  <2>1. dpc' = [dpc EXCEPT ![t] = "lock"] /\ dbuf' = [dbuf EXCEPT ![t] = b]
    BY <1>6 DEF drop
  <2>2. Types'
    BY <1>1, <1>2, <2>1 DEF Types
  <2>3. \A v \in Threads : /\ dpc'[v] = IF v = t THEN "lock" ELSE dpc[v]
                           /\ dbuf'[v] = IF v = t THEN b ELSE dbuf[v]
    BY <2>1 DEF Types
  <2>4. \A v \in Threads : \A c \in Buffers :
           DeleterHas(v, c)' <=> DeleterHas(v, c) \/ (v = t /\ c = b)
    BY <1>1, <2>3 DEF DeleterHas
  <2>5. \A c \in Buffers : InDeleter(c)' <=> InDeleter(c) \/ c = b
    BY <2>4 DEF InDeleter
  <2>6. Held(b)
    BY <1>1 DEF Held
  <2>7. \A c \in Buffers : Exclusive(c)'
    BY <1>1, <1>4, <1>6, <2>5, <2>6 DEF Places, Exclusive
  <2>8. ~InDeleter(b)
    BY <2>6 DEF Places, Exclusive
  <2>9. \A v, u \in Threads : \A c \in Buffers : DeleterHas(v, c)' /\ DeleterHas(u, c)' => v = u
    BY <2>4, <2>8 DEF Places, InDeleter
  <2>10. \A v \in Threads : dpc'[v] \in {"lock", "release", "delete"} => dbuf'[v] \in Buffers
    BY <2>3 DEF Places
  <2>11. Places'
    BY <1>1, <1>2, <2>7, <2>9, <2>10 DEF Places
  <2>12. Pins' = Pins
    BY <1>1, <2>3 DEF Pins
  <2>13. QED
    BY <1>1, <2>2, <2>11, <2>12 DEF Lifetime
<1>7. QED
  BY <1>5, <1>6

\* The deleter locks the weak_ptr: the buffer stays in its hands.
LEMMA WeakLockStep ==
    ASSUME BufferInv, NEW t \in Threads, weak_lock(t)
    PROVE  BufferInv'
<1> USE DEF BufferInv
<1> DEFINE next == IF owners \cup Pins # {} THEN "release" ELSE "delete"
<1>1. /\ UNCHANGED <<pool, alive, owners, holds, full, dbuf, deleted>> /\ dpc[t] = "lock"
      /\ dpc' = [dpc EXCEPT ![t] = next]
  BY DEF weak_lock
<1>2. Buffers' = Buffers
  BY <1>1 DEF Buffers
<1>3. next \in {"release", "delete"} /\ (next = "release" <=> owners \cup Pins # {})
  OBVIOUS
<1> HIDE DEF next
<1>4. Types'
  BY <1>1, <1>2, <1>3 DEF Types
<1>5. \A v \in Threads : dpc'[v] = IF v = t THEN next ELSE dpc[v]
  BY <1>1 DEF Types
<1>6. \A v \in Threads : \A c \in Buffers : DeleterHas(v, c)' <=> DeleterHas(v, c)
  BY <1>1, <1>3, <1>5 DEF DeleterHas
<1>7. \A c \in Buffers : /\ InPool(c)' <=> InPool(c)
                         /\ Held(c)' <=> Held(c)
                         /\ InDeleter(c)' <=> InDeleter(c)
  BY <1>1, <1>6 DEF InPool, Held, InDeleter
<1>8. \A v \in Threads : dpc'[v] \in {"lock", "release", "delete"} => dbuf'[v] \in Buffers
  BY <1>1, <1>5 DEF Places
<1>9. Places'
  BY <1>1, <1>2, <1>6, <1>7, <1>8 DEF Places, Exclusive
<1>10. owners' \cup Pins' # {} <=> owners \cup Pins # {}
  <2>1. Pins' = IF next = "release" THEN Pins \cup {t} ELSE Pins
    BY <1>1, <1>3, <1>5 DEF Pins
  <2>2. QED
    BY <1>1, <1>3, <2>1
<1>11. QED
  BY <1>1, <1>4, <1>9, <1>10 DEF Lifetime

\* The deleter of a buffer whose pool is gone deletes it.
LEMMA DeleteStep ==
    ASSUME BufferInv, NEW t \in Threads, delete(t)
    PROVE  BufferInv'
<1> USE DEF BufferInv
<1> DEFINE b == dbuf[t]
<1>1. /\ UNCHANGED <<pool, alive, owners, holds, full>> /\ dpc[t] = "delete"
      /\ deleted' = [deleted EXCEPT ![b] = @ + 1]
      /\ dpc' = [dpc EXCEPT ![t] = "idle"] /\ dbuf' = [dbuf EXCEPT ![t] = 0]
  BY DEF delete
<1>2. Buffers' = Buffers /\ b \in Buffers /\ DeleterHas(t, b)
  BY <1>1 DEF Buffers, Places, DeleterHas
<1>3. \A v \in Threads : /\ dpc'[v] = IF v = t THEN "idle" ELSE dpc[v]
                         /\ dbuf'[v] = IF v = t THEN 0 ELSE dbuf[v]
  BY <1>1 DEF Types
<1>4. \A v \in Threads : \A c \in Buffers : DeleterHas(v, c)' <=> DeleterHas(v, c) /\ v # t
  BY <1>3 DEF DeleterHas
<1>5. \A c \in Buffers : InDeleter(c)' <=> InDeleter(c) /\ c # b
  <2>1. \A v \in Threads : DeleterHas(v, b) => v = t
    BY <1>2 DEF Places
  <2>2. \A c \in Buffers : DeleterHas(t, c) => c = b
    BY DEF DeleterHas
  <2>3. QED
    BY <1>2, <1>4, <2>1, <2>2 DEF InDeleter
<1>6. InDeleter(b) /\ deleted[b] = 0
  BY <1>2 DEF InDeleter, Places, Exclusive
<1> HIDE DEF b
<1>7. \A c \in Buffers : deleted'[c] = IF c = b THEN 1 ELSE deleted[c]
  BY <1>1, <1>6 DEF Types
<1>8. Types'
  <2>1. deleted' \in [Buffers -> {0, 1}]
    BY <1>1, <1>2, <1>6 DEF Types
  <2>2. QED
    BY <1>1, <1>2, <2>1 DEF Types
<1>9. \A c \in Buffers : (InPool(c)' <=> InPool(c)) /\ (Held(c)' <=> Held(c))
  BY <1>1 DEF InPool, Held
<1>10. \A c \in Buffers : Exclusive(c)'
  BY <1>2, <1>5, <1>6, <1>7, <1>9 DEF Places, Exclusive
<1>11. /\ \A v, u \in Threads : \A c \in Buffers : DeleterHas(v, c)' /\ DeleterHas(u, c)' => v = u
       /\ \A v \in Threads : dpc'[v] \in {"lock", "release", "delete"} => dbuf'[v] \in Buffers
  BY <1>3, <1>4 DEF Places
<1>12. Places'
  BY <1>1, <1>2, <1>10, <1>11 DEF Places
<1>13. Pins' = Pins
  BY <1>1, <1>3 DEF Pins
<1>14. QED
  BY <1>1, <1>8, <1>12, <1>13 DEF Lifetime

\* release() puts the buffer of the deleter back into the pool, empty.
LEMMA ReleaseStep ==
    ASSUME BufferInv, NEW t \in Threads, release(t)
    PROVE  BufferInv'
<1> USE DEF BufferInv
<1> DEFINE b == dbuf[t]
<1>1. /\ UNCHANGED <<alive, owners, holds, deleted>> /\ dpc[t] = "release"
      /\ pool' = Release(pool, b) /\ full' = full \ {b}
      /\ dpc' = [dpc EXCEPT ![t] = "unpin"] /\ dbuf' = [dbuf EXCEPT ![t] = 0]
  BY DEF release
<1>2. b \in Buffers /\ DeleterHas(t, b) /\ b \in Nat
  BY <1>1 DEF Buffers, Places, DeleterHas, Types, PoolRecord
<1>3. \A v \in Threads : /\ dpc'[v] = IF v = t THEN "unpin" ELSE dpc[v]
                         /\ dbuf'[v] = IF v = t THEN 0 ELSE dbuf[v]
  BY <1>1 DEF Types
<1>4. \A v \in Threads : \A c \in Buffers : DeleterHas(v, c)' <=> DeleterHas(v, c) /\ v # t
  BY <1>3 DEF DeleterHas
<1>5. \A c \in Buffers : InDeleter(c)' <=> InDeleter(c) /\ c # b
  <2>1. \A v \in Threads : DeleterHas(v, b) => v = t
    BY <1>2 DEF Places
  <2>2. \A c \in Buffers : DeleterHas(t, c) => c = b
    BY DEF DeleterHas
  <2>3. QED
    BY <1>2, <1>4, <2>1, <2>2 DEF InDeleter
<1>6. InDeleter(b) /\ ~InPool(b) /\ ~Held(b) /\ deleted[b] = 0
  BY <1>2 DEF InDeleter, Places, Exclusive
<1> HIDE DEF b
<1>7. /\ pool' \in PoolRecord /\ Distinct(pool'.free)
      /\ pool'.total = pool.total /\ pool'.exhausted = pool.exhausted
      /\ ToSet(pool'.free) = ToSet(pool.free) \cup {b}
  BY <1>1, <1>2, <1>6, ReleaseProperties DEF Types, Places, InPool
<1>8. Buffers' = Buffers
  BY <1>7 DEF Buffers
<1>9. pool'.free \in Seq(Buffers)
  <2>1. pool'.free \in Seq(Nat) /\ ToSet(pool'.free) \subseteq Buffers
    BY <1>2, <1>7, ToSetType DEF PoolRecord, Types
  <2>2. QED
    BY <2>1, FreeType
<1>10. Types'
  BY <1>1, <1>7, <1>8, <1>9 DEF Types
<1>11. \A c \in Buffers : (InPool(c)' <=> InPool(c) \/ c = b) /\ (Held(c)' <=> Held(c))
  BY <1>1, <1>7 DEF InPool, Held
<1>12. \A c \in Buffers : Exclusive(c)'
  BY <1>1, <1>2, <1>5, <1>6, <1>11 DEF Places, Exclusive
<1>13. /\ \A v, u \in Threads : \A c \in Buffers : DeleterHas(v, c)' /\ DeleterHas(u, c)' => v = u
       /\ \A v \in Threads : dpc'[v] \in {"lock", "release", "delete"} => dbuf'[v] \in Buffers
  BY <1>3, <1>4 DEF Places
<1>14. full' \cap ToSet(pool'.free) = {}
  BY <1>1, <1>7 DEF Places
<1>15. Places'
  BY <1>7, <1>8, <1>12, <1>13, <1>14 DEF Places
<1>16. Pins' = Pins /\ t \in Pins
  BY <1>1, <1>3 DEF Pins
<1>17. Lifetime'
  BY <1>1, <1>16 DEF Lifetime
<1>18. QED
  BY <1>10, <1>15, <1>17

\* A reference to the pool goes, and with the last one what is in the pool.
LEMMA UnreferenceStep ==
    ASSUME BufferInv, NEW others, Unreference(others), alive,
           others = owners' \cup Pins', owners' \subseteq Threads,
           UNCHANGED <<holds, full, dbuf>>,
           dpc' \in [Threads -> {"idle", "lock", "release", "unpin", "delete"}],
           \A v \in Threads : dpc'[v] \in {"lock", "release", "delete"} <=>
                              dpc[v] \in {"lock", "release", "delete"}
    PROVE  BufferInv'
<1> USE DEF BufferInv
<1>1. \A v \in Threads : \A c \in Buffers : DeleterHas(v, c)' <=> DeleterHas(v, c)
  BY DEF DeleterHas
<1>2. \A c \in Buffers : (Held(c)' <=> Held(c)) /\ (InDeleter(c)' <=> InDeleter(c))
  BY <1>1 DEF Held, InDeleter
<1>3. \A v \in Threads : dpc'[v] \in {"lock", "release", "delete"} => dbuf'[v] \in Buffers
  BY DEF Places
<1>4. CASE others # {}
  <2>1. UNCHANGED <<pool, alive, deleted>>
    BY <1>4 DEF Unreference
  <2>2. Buffers' = Buffers
    BY <2>1 DEF Buffers
  <2>3. Types'
    BY <2>1, <2>2 DEF Types
  <2>4. Places'
    BY <1>1, <1>2, <1>3, <2>1, <2>2 DEF Places, Exclusive, InPool
  <2>5. QED
    BY <1>4, <2>1, <2>3, <2>4 DEF Lifetime
<1>5. CASE others = {}
  <2>1. /\ alive' = FALSE /\ pool' = [pool EXCEPT !.free = <<>>]
        /\ deleted' = [b \in Buffers |->
                         deleted[b] + Cardinality({i \in DOMAIN pool.free : pool.free[i] = b})]
    BY <1>5 DEF Unreference
  <2>2. /\ pool' \in PoolRecord /\ pool'.free = <<>>
        /\ pool'.total = pool.total /\ pool'.exhausted = pool.exhausted
    <3> DEFINE none == <<>>
    <3>1. none \in Seq(Nat)
      OBVIOUS
    <3> HIDE DEF none
    <3>2. [pool EXCEPT !.free = none] \in PoolRecord /\ [pool EXCEPT !.free = none].free = none
      BY <3>1 DEF Types, PoolRecord
    <3>3. pool' = [pool EXCEPT !.free = none]
      BY <2>1 DEF none
    <3>4. pool'.total = pool.total /\ pool'.exhausted = pool.exhausted
      BY <3>3 DEF Types, PoolRecord
    <3>5. QED
      BY <3>2, <3>3, <3>4 DEF none
  <2>3. Buffers' = Buffers
    BY <2>2 DEF Buffers
  <2>4. ASSUME NEW b \in Buffers
        PROVE  deleted'[b] = IF InPool(b) THEN 1 ELSE deleted[b]
    <3>1. Cardinality({i \in DOMAIN pool.free : pool.free[i] = b}) = IF InPool(b) THEN 1 ELSE 0
      BY DistinctCount DEF Types, Places, InPool
    <3>2. InPool(b) => deleted[b] = 0
      BY DEF Places, Exclusive
    <3>3. deleted[b] \in {0, 1}
      BY DEF Types
    <3>4. QED
      BY <2>1, <3>1, <3>2, <3>3
  <2>5. deleted' \in [Buffers -> {0, 1}]
    <3>1. deleted' = [b \in Buffers |-> deleted'[b]]
      BY <2>1
    <3>2. \A b \in Buffers : deleted'[b] \in {0, 1}
      BY <2>4 DEF Types
    <3>3. QED
      BY <3>1, <3>2
  <2>6. Types'
    <3>1. pool'.free \in Seq(Buffers)
      BY <2>2
    <3>2. QED
      BY <2>1, <2>2, <2>3, <2>5, <3>1 DEF Types
  <2>7. \A c \in Buffers : ~InPool(c)'
    BY <2>2, ToSetEmpty DEF InPool
  <2>8. \A c \in Buffers : Exclusive(c)'
    BY <1>2, <2>4, <2>7 DEF Places, Exclusive
  <2>9. Distinct(pool'.free) /\ full' \cap ToSet(pool'.free) = {}
    BY <2>2, ToSetEmpty DEF Distinct
  <2>10. Places'
    BY <1>1, <1>3, <2>3, <2>8, <2>9 DEF Places
  <2>11. QED
    BY <1>5, <2>1, <2>2, <2>6, <2>10 DEF Lifetime
<1>6. QED
  BY <1>4, <1>5

\* An owner of the pool lets it go.
LEMMA DropPoolStep ==
    ASSUME BufferInv, NEW t \in Threads, drop_pool(t)
    PROVE  BufferInv'
<1>1. /\ UNCHANGED <<holds, full, dpc, dbuf>> /\ t \in owners /\ owners' = owners \ {t}
      /\ Unreference(owners' \cup Pins)
  BY DEF drop_pool
<1>2. Pins' = Pins
  BY <1>1 DEF Pins
<1>3. alive /\ owners' \subseteq Threads /\ dpc' \in [Threads -> {"idle", "lock", "release", "unpin", "delete"}]
  BY <1>1 DEF BufferInv, Lifetime, Types
<1>4. QED
  BY <1>1, <1>2, <1>3, UnreferenceStep

\* The deleter lets the pool go.
LEMMA UnpinStep ==
    ASSUME BufferInv, NEW t \in Threads, unpin(t)
    PROVE  BufferInv'
<1>1. /\ UNCHANGED <<owners, holds, full, dbuf>> /\ dpc[t] = "unpin"
      /\ dpc' = [dpc EXCEPT ![t] = "idle"]
      /\ Unreference(owners \cup (Pins \ {t}))
  BY DEF unpin
<1>2. \A v \in Threads : dpc'[v] = IF v = t THEN "idle" ELSE dpc[v]
  BY <1>1 DEF BufferInv, Types
<1>3. Pins' = Pins \ {t} /\ t \in Pins
  BY <1>1, <1>2 DEF Pins
<1>4. /\ alive /\ owners' \subseteq Threads
      /\ dpc' \in [Threads -> {"idle", "lock", "release", "unpin", "delete"}]
  BY <1>1, <1>3 DEF BufferInv, Lifetime, Types
<1>5. \A v \in Threads : dpc'[v] \in {"lock", "release", "delete"} <=>
                         dpc[v] \in {"lock", "release", "delete"}
  BY <1>1, <1>2
<1>6. QED
  BY <1>1, <1>3, <1>4, <1>5, UnreferenceStep

-----------------------------------------------------------------------------
(* The theorems. *)

\* Every step preserves the invariant.
LEMMA BufferNext == BufferInv /\ [Next]_vars => BufferInv'
<1> SUFFICES ASSUME BufferInv, [Next]_vars PROVE BufferInv'
  OBVIOUS
<1>1. CASE UNCHANGED vars
  BY <1>1 DEF vars, BufferInv, Types, Places, Exclusive, Lifetime, InPool, Held, InDeleter,
              DeleterHas, Buffers, Pins
<1>2. ASSUME NEW t \in Threads, acquire(t) \/ drop_pool(t) \/ Deleting(t)
      PROVE  BufferInv'
  BY <1>2, AcquireStep, DropPoolStep, WeakLockStep, DeleteStep, ReleaseStep, UnpinStep
     DEF Deleting
<1>3. ASSUME NEW t \in Threads, NEW b \in Buffers,
             \/ drop(t, b) \/ \E n \in {0, 1} : resize(t, b, n)
             \/ \E u \in Threads \ {t} : share(t, u, b)
      PROVE  BufferInv'
  BY <1>3, DropStep, ResizeStep, ShareStep
<1>4. QED
  BY <1>1, <1>2, <1>3 DEF Next

\* The invariant holds in every reachable state.
LEMMA BufferAlways == Spec => []BufferInv
<1>1. QED
  BY BufferInit, BufferNext, PTL DEF Spec

\* A buffer is in one place only, and there once: nothing acquire() hands out is
\* still used by somebody, and no buffer is returned or deleted twice, whatever
\* the order in which handles, owners and deleters go.
THEOREM BufferInOnePlace == Spec => []OnePlace
<1>1. ASSUME BufferInv PROVE OnePlace
  <2> USE <1>1 DEF BufferInv
  <2>1. TypeOK
    BY DEF TypeOK, Types
  <2>2. ASSUME NEW b \in Buffers
        PROVE  1 = Cardinality({i \in DOMAIN pool.free : pool.free[i] = b})
                 + (IF Held(b) THEN 1 ELSE 0)
                 + Cardinality({t \in Threads : dpc[t] \in {"lock", "release", "delete"} /\ dbuf[t] = b})
                 + deleted[b]
    <3> DEFINE D == {t \in Threads : dpc[t] \in {"lock", "release", "delete"} /\ dbuf[t] = b}
    <3>1. Cardinality({i \in DOMAIN pool.free : pool.free[i] = b}) = IF InPool(b) THEN 1 ELSE 0
      BY DistinctCount DEF Types, Places, InPool
    <3>2. Cardinality(D) = IF InDeleter(b) THEN 1 ELSE 0
      <4>1. CASE InDeleter(b)
        <5>1. PICK t \in Threads : DeleterHas(t, b)
          BY <4>1 DEF InDeleter
        <5>2. D = {t}
          BY <5>1 DEF Places, DeleterHas
        <5>3. QED
          BY <4>1, <5>2, FS_Singleton
      <4>2. CASE ~InDeleter(b)
        <5>1. D = {}
          BY <4>2 DEF InDeleter, DeleterHas
        <5>2. QED
          BY <4>2, <5>1, FS_EmptySet
      <4>3. QED
        BY <4>1, <4>2
    <3>3. Exclusive(b) /\ deleted[b] \in {0, 1}
      BY DEF Places, Types
    <3> HIDE DEF D
    <3>4. 1 = Cardinality({i \in DOMAIN pool.free : pool.free[i] = b})
                 + (IF Held(b) THEN 1 ELSE 0) + Cardinality(D) + deleted[b]
      BY <3>1, <3>2, <3>3 DEF Exclusive
    <3>5. QED
      BY <3>4 DEF D
  <2>3. full \cap ToSet(pool.free) = {}
    BY DEF Places
  <2>4. QED
    BY <2>1, <2>2, <2>3 DEF OnePlace
<1>2. QED
  BY <1>1, BufferAlways, PTL

\* release() never touches a destroyed pool, and no pool outlives its references.
THEOREM PoolNotUsedAfterFree == Spec => []NoUseAfterFree
<1>1. BufferInv => NoUseAfterFree
  BY DEF BufferInv, Lifetime, NoUseAfterFree
<1>2. QED
  BY <1>1, BufferAlways, PTL

\* When the last owner, handle and deleter are gone, pool and buffers are too.
THEOREM NothingLeaks == Spec => []NoLeak
<1>1. ASSUME BufferInv, owners = {}, \A t \in Threads : dpc[t] = "idle" /\ holds[t] = {}
      PROVE  ~alive /\ \A b \in Buffers : deleted[b] = 1
  <2>1. Pins = {}
    BY <1>1 DEF Pins
  <2>2. ~alive /\ pool.free = <<>>
    BY <1>1, <2>1 DEF BufferInv, Lifetime
  <2>3. \A b \in Buffers : ~InPool(b) /\ ~Held(b) /\ ~InDeleter(b)
    BY <1>1, <2>2, ToSetEmpty DEF InPool, Held, InDeleter, DeleterHas
  <2>4. QED
    BY <1>1, <2>2, <2>3 DEF BufferInv, Places, Exclusive
<1>2. BufferInv => NoLeak
  BY <1>1 DEF NoLeak
<1>3. QED
  BY <1>2, BufferAlways, PTL
=============================================================================
