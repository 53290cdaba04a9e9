------------------------- MODULE LatencyHistogram -------------------------
(***************************************************************************)
(* The lock-free latency histogram (latency_histogram.cpp): the log-linear *)
(* buckets, record_us() as its separate atomic operations, percentile_ms() *)
(* as a reader that scans the buckets while samples are being recorded,    *)
(* and summarize() as finish_run() calls it, when the threads are joined.  *)
(* All accesses are relaxed, so the bucket, the count and the maximum of   *)
(* one sample may become visible in any order.  The reader's own loads are *)
(* taken in the order in which it makes them.                              *)
(*                                                                         *)
(* Operators named after a mistake are wrong versions of the definition    *)
(* after them and not part of the specification.                           *)
(***************************************************************************)
EXTENDS Integers, Sequences, FiniteSets, FiniteSetsExt, SequencesExt

CONSTANTS kSubBucketBits,  \* 7 in the code
          ValueBits,       \* 40 in the code: kMaxValueUs is 2^ValueBits - 1
          SampleValues,    \* latencies that are recorded, in microseconds
          MaxSamples,      \* bound: samples between two resets
          Recorders        \* bound: threads that record at the same time

ASSUME LatencyHistogramAssumption ==
    /\ kSubBucketBits \in Nat \ {0} /\ ValueBits \in Nat /\ ValueBits >= kSubBucketBits
    /\ SampleValues \subseteq Nat
    /\ MaxSamples \in Nat /\ Recorders \in Nat

VARIABLE hg  \* a LatencyHistogram, the samples in it, and one reader

\* A shift by n bits is a multiplication or a division by Pow2[n].
Pow2[n \in Nat] == IF n = 0 THEN 1 ELSE 2 * Pow2[n - 1]

kSubBucketCount == Pow2[kSubBucketBits]
kHalfSubBucketCount == kSubBucketCount \div 2
kMaxValueUs == Pow2[ValueBits] - 1
kBucketCount == kSubBucketCount + (ValueBits - kSubBucketBits) * kHalfSubBucketCount

bit_width(x) == 
    CHOOSE b \in 0..(ValueBits + 1) : x < Pow2[b] /\ \A c \in 0..(b - 1) : x >= Pow2[c]

ShiftKeepsAllBits(v) == bit_width(v) - 1 - kSubBucketBits

\* How far a value is shifted to keep kSubBucketBits significant bits.
Shift(v) == bit_width(v) - 1 - (kSubBucketBits - 1)

bucket_index(value_us) ==
    LET v == Min({value_us, kMaxValueUs})
    IN IF v < kSubBucketCount THEN v
       ELSE kSubBucketCount + (Shift(v) - 1) * kHalfSubBucketCount
            + (v \div Pow2[Shift(v)] - kHalfSubBucketCount)

bucket_upper_bound(index) ==
    LET offset == index - kSubBucketCount
        shift == offset \div kHalfSubBucketCount + 1
        top == (offset % kHalfSubBucketCount) + kHalfSubBucketCount
    IN IF index < kSubBucketCount THEN index ELSE (top + 1) * Pow2[shift] - 1

-----------------------------------------------------------------------------
NoReader == [pc |-> "idle"]
MinStart == Pow2[ValueBits + 8]  \* UINT64_MAX

\* No sample is above what its unsigned 64-bit variable can hold.
ASSUME SamplesFit == \A v \in SampleValues : v <= MinStart

Empty == [buckets |-> [i \in 0..(kBucketCount - 1) |-> 0], count |-> 0, sum |-> 0,
          min |-> MinStart, max |-> 0, samples |-> <<>>, reader |-> NoReader,
          summary |-> <<>>]

Init_hg == hg = Empty

\* What is left to do for sample k; only the minimum follows the sum, the rest
\* is unordered.
Todo == {"bucket", "count", "sum", "min", "max"}
InFlight == {k \in DOMAIN hg.samples : hg.samples[k].todo # {}}
Done(k, step) == [hg.samples EXCEPT ![k].todo = @ \ {step}]

record_us ==
    /\ Len(hg.samples) < MaxSamples
    /\ Cardinality(InFlight) < Recorders
    /\ \E v \in SampleValues :
          hg' = [hg EXCEPT !.samples = Append(@, [value |-> v, todo |-> Todo, seen |-> -1]),
                           !.summary = <<>>]

AddBucket(k) ==
    /\ "bucket" \in hg.samples[k].todo
    /\ hg' = [hg EXCEPT !.buckets[bucket_index(hg.samples[k].value)] = @ + 1,
                        !.samples = Done(k, "bucket")]

AddCount(k) ==
    /\ "count" \in hg.samples[k].todo
    /\ hg' = [hg EXCEPT !.count = @ + 1, !.samples = Done(k, "count")]

\* sum_us_: no scan reads it, or the minimum, while samples are recorded.
AddSum(k) ==
    /\ hg.samples[k].todo = {"sum", "min"}
    /\ hg' = [hg EXCEPT !.sum = @ + hg.samples[k].value, !.samples = Done(k, "sum")]

\* update_min: the load, then the loop of compare-exchanges; a failed one, which
\* may be spurious, reloads the current minimum.
LoadMin(k) ==
    /\ hg.samples[k].todo = {"min"} /\ hg.samples[k].seen = -1
    /\ hg' = [hg EXCEPT !.samples[k].seen = hg.min]

ExchangeMin(k) ==
    /\ hg.samples[k].todo = {"min"} /\ hg.samples[k].seen # -1
    /\ hg' = IF hg.samples[k].value >= hg.samples[k].seen
             THEN [hg EXCEPT !.samples = [Done(k, "min") EXCEPT ![k].seen = -1]]
             ELSE IF hg.min = hg.samples[k].seen
             THEN [hg EXCEPT !.min = hg.samples[k].value,
                             !.samples = [Done(k, "min") EXCEPT ![k].seen = -1]]
             ELSE [hg EXCEPT !.samples[k].seen = hg.min]

\* update_max, in the same way.
LoadMax(k) ==
    /\ "max" \in hg.samples[k].todo /\ hg.samples[k].seen = -1
    /\ hg' = [hg EXCEPT !.samples[k].seen = hg.max]

StoreMax(k) ==
    /\ "max" \in hg.samples[k].todo /\ hg.samples[k].seen # -1
    /\ hg' = [hg EXCEPT !.max = IF hg.samples[k].value > hg.samples[k].seen
                                THEN hg.samples[k].value ELSE @,
                        !.samples = Done(k, "max")]

ExchangeMax(k) ==
    /\ "max" \in hg.samples[k].todo /\ hg.samples[k].seen # -1
    /\ hg' = IF hg.samples[k].value <= hg.samples[k].seen
             THEN [hg EXCEPT !.samples = [Done(k, "max") EXCEPT ![k].seen = -1]]
             ELSE IF hg.max = hg.samples[k].seen
             THEN [hg EXCEPT !.max = hg.samples[k].value,
                             !.samples = [Done(k, "max") EXCEPT ![k].seen = -1]]
             ELSE [hg EXCEPT !.samples[k].seen = hg.max]

\* reset(): begin_run calls it before the threads of the run exist.
reset_hg ==
    /\ InFlight = {} /\ hg.reader = NoReader /\ hg.samples # <<>>
    /\ hg' = Empty

-----------------------------------------------------------------------------
Quantiles == {<<1, 2>>, <<99, 100>>}

RankOf(q, total) == Max({1, (q[1] * total + q[2] - 1) \div q[2]})

\* percentile_ms(q) starts with a load of the count; an empty histogram
\* answers 0.
ReadTotal ==
    /\ hg.reader.pc = "idle"
    /\ \E q \in Quantiles :
          hg' = [hg EXCEPT !.reader =
                   [pc |-> IF hg.count = 0 THEN "done" ELSE "max", rank |-> RankOf(q, hg.count),
                    total |-> hg.count, before |-> DOMAIN hg.samples \ InFlight,
                    max_seen |-> 0, cumulative |-> 0, i |-> 0, result |-> 0]]

ReadMax ==
    /\ hg.reader.pc = "max"
    /\ hg' = [hg EXCEPT !.reader.max_seen = hg.max, !.reader.pc = "scan"]

ReachedStrictly(cumulative, rank) == cumulative > rank

Reached(cumulative, rank) == cumulative >= rank

\* The scan; a scan that never reaches the rank answers the maximum.
ReadBucket ==
    /\ hg.reader.pc = "scan"
    /\ LET r == hg.reader
           cumulative == r.cumulative + hg.buckets[r.i]
       IN hg' = IF Reached(cumulative, r.rank)
                THEN [hg EXCEPT !.reader.pc = "done", !.reader.cumulative = cumulative,
                                !.reader.result = Min({bucket_upper_bound(r.i), r.max_seen})]
                ELSE IF r.i = kBucketCount - 1
                THEN [hg EXCEPT !.reader.pc = "done", !.reader.cumulative = cumulative,
                                !.reader.result = r.max_seen]
                ELSE [hg EXCEPT !.reader.cumulative = cumulative, !.reader.i = @ + 1]

ReaderReturns ==
    /\ hg.reader.pc = "done"
    /\ hg' = [hg EXCEPT !.reader = NoReader]

\* The percentile of a histogram at rest.
PercentileAtRest(q) ==
    LET rank == RankOf(q, hg.count)
        Cumulative[i \in 0..(kBucketCount - 1)] ==
            hg.buckets[i] + (IF i = 0 THEN 0 ELSE Cumulative[i - 1])
        reached == {i \in 0..(kBucketCount - 1) : Reached(Cumulative[i], rank)}
    IN IF reached = {} THEN hg.max ELSE Min({bucket_upper_bound(Min(reached)), hg.max})

\* summarize() in finish_run(): the threads that record are joined.
summarize ==
    /\ InFlight = {} /\ hg.reader = NoReader /\ hg.count > 0
    /\ hg' = [hg EXCEPT !.summary =
                [count |-> hg.count, sum |-> hg.sum, min |-> hg.min, max |-> hg.max,
                 p |-> [q \in Quantiles |-> PercentileAtRest(q)]]]

Next_hg ==
    \/ record_us
    \/ \E k \in DOMAIN hg.samples :
          \/ AddBucket(k) \/ AddCount(k) \/ AddSum(k)
          \/ LoadMin(k) \/ ExchangeMin(k) \/ LoadMax(k) \/ ExchangeMax(k)
    \/ reset_hg
    \/ ReadTotal \/ ReadMax \/ ReadBucket \/ ReaderReturns
    \/ summarize

-----------------------------------------------------------------------------
Value(k) == hg.samples[k].value

\* latency_histogram.hpp: the upper bound is the "largest value that maps to
\* bucket index", and the relative error is bounded by 1 / kHalfSubBucketCount.
\* For every value up to and beyond the clamp: its bucket exists, the bucket's
\* upper bound maps back to it, the next value maps to the next bucket, and the
\* bound is too large by at most that fraction.  It is looked at once, when the
\* first sample is about to be recorded.
BucketsRoundTrip ==
    Len(hg.samples) = 1 /\ hg.samples[1].todo = Todo =>
       /\ \A v \in 0..(kMaxValueUs + 2) :
             LET i == bucket_index(v)
                 bound == bucket_upper_bound(i)
             IN /\ i \in 0..(kBucketCount - 1)
                /\ bucket_index(bound) = i
                /\ v <= kMaxValueUs => v <= bound /\ (bound - v) * kHalfSubBucketCount <= v
                /\ bound < kMaxValueUs => bucket_index(bound + 1) = i + 1
       /\ bucket_upper_bound(kBucketCount - 1) = kMaxValueUs

\* What an answer r is worth, with "during" the samples whose record_us overlaps
\* the call or begins in it: up to that many, at least rank samples are at or
\* below the answer; fewer than rank of the samples recorded before lie in buckets
\* below the answer's; and the answer is never above a value that was observed.
PercentileRight(r, samples) ==
    LET during == DOMAIN samples \ r.before
        atOrBelow == {k \in DOMAIN samples : Min({samples[k].value, kMaxValueUs}) <= r.result}
        below == {k \in r.before : bucket_index(samples[k].value) < bucket_index(r.result)}
    IN /\ Cardinality(atOrBelow) + Cardinality(during) >= r.rank
       /\ Cardinality(below) < r.rank
       /\ r.result = 0 \/ \E k \in DOMAIN samples : r.result <= samples[k].value

\* Comment in percentile_ms(): "under concurrent recording the answer is
\* approximate by at most the handful of samples recorded during the scan".
PercentileSound ==
    hg.reader.pc = "done" /\ hg.reader.total > 0 => PercentileRight(hg.reader, hg.samples)

\* The part of a report that comes from the counters shared by the threads:
\* with nobody recording, count and maximum are those of the samples, whatever
\* the order in which the threads' atomic operations interleaved.
SummaryTotals ==
    hg.summary # <<>> =>
        /\ hg.summary.count = Len(hg.samples)
        /\ hg.summary.max = Max({Value(k) : k \in DOMAIN hg.samples})

SumOf(samples) ==
    LET Sum[i \in 0..Len(samples)] == IF i = 0 THEN 0 ELSE Sum[i - 1] + samples[i].value
    IN Sum[Len(samples)]

\* The report of a finished run: the totals above, sum and minimum of the
\* samples, and each percentile is the sample of its rank, too large by at most
\* one bucket, between minimum and maximum.
SummaryExact ==
    LET s == hg.summary
        all == DOMAIN hg.samples
        Ranked(q) == CHOOSE v \in {Value(k) : k \in all} :
                        /\ Cardinality({k \in all : Value(k) <= v}) >= RankOf(q, Len(hg.samples))
                        /\ Cardinality({k \in all : Value(k) < v}) < RankOf(q, Len(hg.samples))
    IN /\ SummaryTotals
       /\ s # <<>> =>
             /\ s.sum = SumOf(hg.samples)
             /\ s.min = Min({Value(k) : k \in all})
             /\ \A q \in Quantiles :
                   LET v == Min({Ranked(q), kMaxValueUs})
                   IN /\ s.p[q] >= v /\ (s.p[q] - v) * kHalfSubBucketCount <= v
                      /\ s.p[q] <= s.max
=============================================================================
