---------------------------- MODULE MCHistogram ----------------------------
(* An instance of Histogram for TLC: words of six bits, four sub-buckets.    *)
EXTENDS Histogram, TLC

CONSTANTS h1, h2

TwoHistograms == {h1, h2}

\* One that can hold enough samples for a rounding to show, and a small one.
Bounds == h1 :> 25 @@ h2 :> 2

\* Both ends of a bucket, and the end of the word.
Edges == {16, 19, 63}

\* Shares whose product with a count is rounded up, down and not at all, the
\* ends, and what is beyond them.
Asked == {-1, 1, 280, 500, 999, 1001}

\* 28 % of 25 samples come out as more than 7, as 99.9 % of 1000 come out as more
\* than 999 in double precision.
ASSUME RoundsUp == ~ Reaches(7, target(280, 25)) /\ Reaches(8, target(280, 25))

\* The buckets tile the range of the word: each ends where the next begins, and
\* the last with the largest word.
ASSUME BucketsTile ==
    /\ \A i \in 0..(kBucketCount - 1) : index_of(bucket_upper(i)) = i
    /\ \A i \in 1..(kBucketCount - 1) : index_of(bucket_upper(i - 1) + 1) = i
    /\ bucket_upper(kBucketCount - 1) = UINT_MAX
=============================================================================
