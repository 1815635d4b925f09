----------------------------- MODULE Histogram -----------------------------
(***************************************************************************)
(* rdb::Histogram (metrics/histogram.h) on words of Width bits, 64 in the  *)
(* code: histograms that are recorded into, merged and reset, next to the  *)
(* samples they stand for.  Percentages are in tenths; percentile()        *)
(* compares in floating point, with mantissas of Precision bits.           *)
(***************************************************************************)
EXTENDS Integers, FiniteSetsExt, Functions

CONSTANTS Width, kSubBits,  \* 64 and 6 in the code
          Precision,        \* 53: the bits of the mantissa of a double
          Histograms,       \* the histogram objects
          Samples,          \* values that are recorded
          Percentages,      \* arguments of percentile(), in tenths
          MaxCount          \* bound: samples in each histogram

ASSUME WidthAssumption ==
    /\ {Width, kSubBits} \subseteq Nat /\ kSubBits < Width
    /\ Samples \subseteq 0..(2^Width - 1) /\ Percentages \subseteq Int

\* With 53 bits, less than 2.2 * 10^12 samples.
ASSUME PrecisionAssumption ==
    /\ Precision \in Nat \ {0} /\ MaxCount \in [Histograms -> Nat]
    /\ \A k \in Histograms : 4000 * MaxCount[k] < 2^Precision

kSubCount    == 2^kSubBits
kBucketCount == kSubCount * (Width - kSubBits + 1)
UINT_MAX     == 2^Width - 1
Word(n)      == n % 2^Width

bit_width(v) == CHOOSE n \in 0..Width : v < 2^n /\ (n = 0 \/ v >= 2^(n - 1))

index_of(value) ==
    IF value < kSubCount THEN value
    ELSE LET exponent == bit_width(value) - 1
             shift    == exponent - kSubBits
             sub      == (value - 2^exponent) \div 2^shift
         IN  kSubCount + shift * kSubCount + sub

\* In the top bucket the sum is 2^Width, which is 0, before 1 is taken off.
bucket_upper(index) ==
    IF index < kSubCount THEN index
    ELSE LET shift == (index - kSubCount) \div kSubCount
             sub   == (index - kSubCount) % kSubCount
         IN  Word(Word(2^(shift + kSubBits) + (sub + 1) * 2^shift) - 1)

Buckets == 0..(kBucketCount - 1)

Empty == [counts |-> [i \in Buckets |-> 0], count |-> 0, sum |-> 0,
          min |-> UINT_MAX, max |-> 0]

Record(h, value) ==
    [counts |-> [h.counts EXCEPT ![index_of(value)] = @ + 1],
     count |-> h.count + 1, sum |-> Word(h.sum + value),
     min |-> Min({h.min, value}), max |-> Max({h.max, value})]

\* Variant: the extremes are left alone.
MergeCounts(h, other) ==
    [h EXCEPT !.counts = [i \in Buckets |-> h.counts[i] + other.counts[i]],
              !.count = h.count + other.count, !.sum = Word(h.sum + other.sum)]

Merge(h, other) ==
    [counts |-> [i \in Buckets |-> h.counts[i] + other.counts[i]],
     count |-> h.count + other.count, sum |-> Word(h.sum + other.sum),
     min |-> Min({h.min, other.min}), max |-> Max({h.max, other.max})]

-----------------------------------------------------------------------------
(* Floating point, rounded to nearest: a positive double is m / 2^e, with a *)
(* mantissa m of Precision bits.                                            *)

\* The integer nearest to n / d, and of two the even one.
Nearest(n, d) ==
    LET q == n \div d
        r == n % d
    IN  IF 2 * r > d \/ (2 * r = d /\ q % 2 = 1) THEN q + 1 ELSE q

Divided(x, d) ==
    LET k == CHOOSE k \in 0..(Precision + 3) :
               2^(Precision - 1) * d <= x.m * 2^k /\ x.m * 2^k < 2^Precision * d
    IN  [m |-> Nearest(x.m * 2^k, d), e |-> x.e + k]

Multiplied(x, n) ==
    LET k == CHOOSE k \in 0..x.e :
               x.m * n < 2^(Precision + k) /\ (k = 0 \/ 2^(Precision + k - 1) <= x.m * n)
    IN  [m |-> Nearest(x.m * n, 2^k), e |-> x.e - k]

\* How many samples percentile() looks for: p as a literal with one decimal, put
\* between 0 and 100, divided by 100.0 and multiplied by count_, with a rounding each.
target(p, count) ==
    LET asked == Max({0, Min({p, 1000})}) IN
    IF asked = 0 THEN [m |-> 0, e |-> 0]
    ELSE Multiplied(Divided(Divided([m |-> asked, e |-> 0], 10), 100), count)

Reaches(seen, goal) == seen * 2^goal.e >= goal.m

\* What percentile() has seen up to bucket i.
Seen(h, i) == SumFunctionOnSet(h.counts, 0..i)

\* Variant: the target must be exceeded.
percentile_above(h, p) ==
    LET goal   == target(p, h.count)
        enough == {i \in Buckets : Seen(h, i) * 2^goal.e > goal.m}
    IN  IF h.count = 0 THEN 0 ELSE IF enough = {} THEN h.max ELSE bucket_upper(Min(enough))

\* The first bucket up to which the wanted share of the samples lies.
percentile(h, p) ==
    LET enough == {i \in Buckets : Reaches(Seen(h, i), target(p, h.count))}
    IN  IF h.count = 0 THEN 0 ELSE IF enough = {} THEN h.max ELSE bucket_upper(Min(enough))

-----------------------------------------------------------------------------
VARIABLES
    hist,   \* the histograms
    log     \* history: how often each holds each sample

vars == <<hist, log>>

NoSamples == [v \in Samples |-> 0]

Init ==
    /\ hist = [k \in Histograms |-> Empty]
    /\ log = [k \in Histograms |-> NoSamples]

record(k, v) ==
    /\ hist[k].count < MaxCount[k]
    /\ hist' = [hist EXCEPT ![k] = Record(@, v)]
    /\ log' = [log EXCEPT ![k][v] = @ + 1]

\* A histogram may be merged into itself.
merge(k, other) ==
    /\ hist[k].count + hist[other].count <= MaxCount[k]
    /\ hist' = [hist EXCEPT ![k] = Merge(@, hist[other])]
    /\ log' = [log EXCEPT ![k] = [v \in Samples |-> log[k][v] + log[other][v]]]

reset(k) ==
    /\ hist' = [hist EXCEPT ![k] = Empty]
    /\ log' = [log EXCEPT ![k] = NoSamples]

Next ==
    \E k \in Histograms :
        \/ \E v \in Samples : record(k, v)
        \/ \E other \in Histograms : merge(k, other)
        \/ reset(k)

Spec == Init /\ [][Next]_vars
-----------------------------------------------------------------------------
(* Properties. *)

Held(k)    == {v \in Samples : log[k][v] > 0}
UpTo(k, v) == SumFunctionOnSet(log[k], {u \in Samples : u <= v})

\* Whatever was recorded, merged (with itself too) and reset, a histogram is the
\* one that its samples recorded one by one would make.
StandsForSamples ==
    \A k \in Histograms :
        LET h == hist[k] IN
        /\ \A i \in Buckets :
             h.counts[i] = SumFunctionOnSet(log[k], {v \in Samples : index_of(v) = i})
        /\ h.count = UpTo(k, UINT_MAX)
        /\ h.sum = Word(SumFunctionOnSet([v \in Samples |-> v * log[k][v]], Samples))
        /\ h.min = Min(Held(k) \cup {UINT_MAX}) /\ h.max = Max(Held(k) \cup {0})

\* percentile() is conservative and close: for a share above 0 it returns the
\* upper bound of the bucket of the exact order statistic, which it exceeds by
\* less than one part in kSubCount.  Where the share is a whole number of samples
\* rounding may lift the target above it, and it may be the bucket of the sample
\* that follows; never so for an eighth, a quarter, a half or all of them.
PercentileConservative ==
    \A k \in Histograms, p \in Percentages :
        hist[k].count > 0 /\ p > 0 =>
            LET asked  == Min({p, 1000})
                share  == asked * hist[k].count
                exact  == Min({v \in Held(k) : UpTo(k, v) * 1000 >= share})
                beyond == Min({v \in Held(k) : UpTo(k, v) * 1000 > share})
                got    == percentile(hist[k], p)
            IN  \E v \in IF asked % 125 = 0 THEN {exact} ELSE {exact, beyond} :
                  /\ got >= v /\ index_of(got) = index_of(v)
                  /\ got = v \/ (got - v) * kSubCount < v
=============================================================================
