--------------------------- MODULE HistogramBuckets ---------------------------
(***************************************************************************)
(* One histogram of src/src/chromium/metrics/histogram.cc: the bucket       *)
(* ranges its class computes from the arguments of the factory, the samples *)
(* it counts, snapshots of them, and what WriteAscii() prints.  A single    *)
(* thread; the registry is in StatisticsRecorder.                           *)
(*                                                                          *)
(* Floating point is exact here: floor(exp(log_next) + 0.5) is the largest  *)
(* integer m with m - 1/2 at most the real next start.                      *)
(***************************************************************************)
EXTENDS Integers, Sequences, FiniteSets, FiniteSetsExt

CONSTANTS SampleMax,   \* kSampleType_MAX
          Arguments,   \* <<class, minimum, maximum, bucket_count>> of factories
          Customs,     \* custom_ranges of CustomHistogram factories
          Values,      \* samples
          Described,   \* samples that SetRangeDescriptions() names
          MaxSamples   \* bound on the samples

ASSUME HistogramAssumption ==
    /\ SampleMax \in Nat /\ SampleMax > 2 /\ MaxSamples \in Nat /\ Values \subseteq Int
    /\ \A a \in Arguments : a[1] \in {"exponential", "linear"} /\ \A i \in 2..4 : a[i] \in Int
    /\ Customs \subseteq Seq(Int)

VARIABLES
    histogram,  \* its class, bucket_count_, ranges and bucket_description_
    sample_,    \* the SampleSet
    snapshot,   \* a SampleSet copied by SnapshotSample(), with what was added by then
    history     \* the values added so far

histogramVars == <<histogram, sample_, snapshot, history>>

----------------------------------------------------------------------------
(* Loops of the code, as functions of the turns taken.                       *)

SumOf(f, n) ==
    LET sum[k \in 0..n] == IF k = 0 THEN 0 ELSE sum[k - 1] + f[k]
    IN  sum[n]

Power(base, n) ==
    LET power[k \in 0..n] == IF k = 0 THEN 1 ELSE base * power[k - 1]
    IN  power[n]

----------------------------------------------------------------------------
(* Bucket ranges: the start of each bucket 0..n-1, and SampleMax at n.      *)

Ranges(n, start) == [i \in 0..n |-> IF i = n THEN SampleMax ELSE start[i]]

\* The k-th part of the way from current to max on a logarithmic scale, rounded.
NextStart(current, max, k) ==
    Max({0} \union {m \in 1..max : Power(2 * m - 1, k) <= Power(2, k) * Power(current, k - 1) * max})

\* InitializeBucketRange(), turn by turn.
Grown(current, max, k) ==
    LET next == NextStart(current, max, k)
    IN  IF next > current THEN next ELSE current + 1

ExponentialStarts(min, max, n) ==
    LET start[i \in 0..(n - 1)] ==
          IF i = 0 THEN 0 ELSE IF i = 1 THEN min ELSE Grown(start[i - 1], max, n - i)
    IN  start

\* Evenly spaced, (int)(x + 0.5).
LinearStarts(min, max, n) == [i \in 0..(n - 1) |->
    IF i = 0 THEN 0
    ELSE (2 * (min * (n - 1 - i) + max * (i - 1)) + (n - 2)) \div (2 * (n - 2))]

\* The n values in order, the least first.
InOrder(values, n) ==
    LET sorted[i \in 0..(n - 1)] ==
          IF i = 0 THEN Min(values) ELSE Min({v \in values : v > sorted[i - 1]})
    IN  sorted

\* Without repetitions, with 0, and with one more value if there is none.
CustomValues(custom_ranges) ==
    LET values == {0} \union {custom_ranges[i] : i \in DOMAIN custom_ranges}
    IN  IF values = {0} THEN {0, 1} ELSE values

\* A guard bucket right after every valid value.
ArrayToCustomRanges(values) ==
    [i \in 1..(2 * Len(values)) |-> values[(i + 1) \div 2] + ((i + 1) % 2)]

AtLeast(a, b) == IF a < b THEN b ELSE a
AtMost(a, b) == IF a > b THEN b ELSE a

\* FactoryGet() of Histogram and LinearHistogram, with their defensive code.
FactoryGet(class, minimum, maximum, n) ==
    LET min == AtLeast(minimum, 1)
        max == AtMost(maximum, SampleMax - 1)
    IN  [class |-> class, n |-> n, described |-> {},
         ranges |-> Ranges(n, IF class = "exponential" THEN ExponentialStarts(min, max, n)
                              ELSE LinearStarts(min, max, n))]

BooleanFactoryGet == [FactoryGet("linear", 1, 2, 3) EXCEPT !.class = "boolean"]

CustomFactoryGet(custom_ranges) ==
    LET values == CustomValues(custom_ranges)
        n == Cardinality(values)
    IN  [class |-> "custom", n |-> n, described |-> {}, ranges |-> Ranges(n, InOrder(values, n))]

SetRangeDescriptions(h) == [h EXCEPT !.described = IF h.class \in {"linear", "boolean"} THEN Described ELSE {}]

\* What a caller asks for: more than two buckets, no more than there are values.
Proper(a) == a[4] > 2 /\ AtLeast(a[2], 1) < AtMost(a[3], SampleMax - 1)
             /\ a[4] <= AtMost(a[3], SampleMax - 1) - AtLeast(a[2], 1) + 2

ProperCustom(custom_ranges) == \A i \in DOMAIN custom_ranges : custom_ranges[i] \in 0..(SampleMax - 1)

Buckets(h) == 0..(h.n - 1)

\* The binary search of BucketIndex(), turn by turn: it stops when mid is under.
Halve(h, value, search) ==
    LET mid == search.under + (search.over - search.under) \div 2
    IN  IF mid = search.under THEN search
        ELSE IF h.ranges[mid] <= value THEN [under |-> mid, over |-> search.over]
        ELSE [under |-> search.under, over |-> mid]

BucketIndex(h, value) ==
    LET search[t \in 0..h.n] ==
          IF t = 0 THEN [under |-> 0, over |-> h.n] ELSE Halve(h, value, search[t - 1])
    IN  search[h.n].under

----------------------------------------------------------------------------
(* SampleSets.                                                              *)

SampleSet(h) == [counts |-> [i \in Buckets(h) |-> 0], sum |-> 0, redundant_count |-> 0]

Accumulate(s, value, count, index) ==
    [counts |-> [s.counts EXCEPT ![index] = @ + count],
     sum |-> s.sum + count * value,
     redundant_count |-> s.redundant_count + count]

TotalCount(s) ==
    LET n == Cardinality(DOMAIN s.counts)
    IN  SumOf([k \in 1..n |-> s.counts[k - 1]], n)

AddSet(s, other) ==
    [counts |-> [i \in DOMAIN s.counts |-> s.counts[i] + other.counts[i]],
     sum |-> s.sum + other.sum, redundant_count |-> s.redundant_count + other.redundant_count]

Subtract(s, other) ==
    [counts |-> [i \in DOMAIN s.counts |-> s.counts[i] - other.counts[i]],
     sum |-> s.sum - other.sum, redundant_count |-> s.redundant_count - other.redundant_count]

\* The order, and the redundant count with a slop of one.
FindCorruption(h, s) ==
    LET delta == s.redundant_count - TotalCount(s)
    IN  {"order" : i \in {j \in Buckets(h) : j > 0 /\ h.ranges[j - 1] >= h.ranges[j]}}
        \union (IF delta > 1 THEN {"high"} ELSE {})
        \union (IF delta < -1 THEN {"low"} ELSE {})

----------------------------------------------------------------------------
(* WriteAscii(): one line per bucket, an ellipsis for a run of empty ones,  *)
(* nothing for an empty bucket that has a description.                      *)

PrintEmptyBucket(h, i) == h.ranges[i] \notin h.described

\* Fault: one bucket too far.
LastButOne(h, s, i) == Max({j \in i..(h.n - 1) : \A k \in (i + 1)..(j - 1) : s.counts[k] = 0})

\* The end of the run of empty buckets that begins at i.
LastEmpty(h, s, i) == Max({j \in i..(h.n - 1) : \A k \in (i + 1)..j : s.counts[k] = 0})

\* A turn of the loop; a line says what came before it and what remains after.
WriteLine(h, s, w) ==
    LET current == s.counts[w.i]
        last == LastEmpty(h, s, w.i)
        remaining == w.remaining - current
    IN  IF w.i = h.n THEN w
        ELSE IF current = 0 /\ ~PrintEmptyBucket(h, w.i)
        THEN [i |-> w.i + 1, past |-> w.past, remaining |-> w.remaining, lines |-> w.lines]
        ELSE IF current = 0 /\ last > w.i
        THEN [i |-> last + 1, past |-> w.past, remaining |-> w.remaining,
              lines |-> Append(w.lines, [bucket |-> w.i, last |-> last, plotted |-> FALSE, count |-> 0,
                                         past |-> w.past, remaining |-> remaining])]
        ELSE [i |-> w.i + 1, past |-> w.past + current, remaining |-> remaining,
              lines |-> Append(w.lines, [bucket |-> w.i, last |-> w.i, plotted |-> TRUE, count |-> current,
                                         past |-> w.past, remaining |-> remaining])]

WriteAscii(h, s) ==
    LET written[t \in 0..h.n] ==
          IF t = 0 THEN [i |-> 0, past |-> 0, remaining |-> TotalCount(s), lines |-> <<>>]
          ELSE WriteLine(h, s, written[t - 1])
    IN  written[h.n].lines

----------------------------------------------------------------------------

Start(h) ==
    /\ histogram = h
    /\ sample_ = SampleSet(h)
    /\ snapshot = [set |-> SampleSet(h), size |-> 0]
    /\ history = <<>>

HistogramInit ==
    \/ \E a \in Arguments : Proper(a) /\ Start(SetRangeDescriptions(FactoryGet(a[1], a[2], a[3], a[4])))
    \/ Start(SetRangeDescriptions(BooleanFactoryGet))
    \/ \E c \in Customs : \E ranges \in {c, ArrayToCustomRanges(c)} :
         ProperCustom(ranges) /\ Start(CustomFactoryGet(ranges))

\* Fault: up to SampleMax.
ClampedToMax(value) == AtLeast(AtMost(value, SampleMax), 0)

Clamped(value) == AtLeast(AtMost(value, SampleMax - 1), 0)

Add(value) ==
    /\ Len(history) < MaxSamples
    /\ sample_' = Accumulate(sample_, Clamped(value), 1, BucketIndex(histogram, Clamped(value)))
    /\ history' = Append(history, Clamped(value))
    /\ UNCHANGED <<histogram, snapshot>>

SnapshotSample ==
    /\ snapshot' = [set |-> sample_, size |-> Len(history)]
    /\ UNCHANGED <<histogram, sample_, history>>

\* AddSampleSet() of the last snapshot.
AddSampleSet ==
    /\ Len(history) + snapshot.size <= MaxSamples
    /\ sample_' = AddSet(sample_, snapshot.set)
    /\ history' = SubSeq(history, 1, snapshot.size) \o history
    /\ UNCHANGED <<histogram, snapshot>>

HistogramNext == (\E v \in Values : Add(v)) \/ SnapshotSample \/ AddSampleSet
HistogramSpec == HistogramInit /\ [][HistogramNext]_histogramVars

----------------------------------------------------------------------------

\* Every histogram the factories return sorts its samples rightly: each bucket
\* counts exactly the values added from its start to the start of the next, the
\* sum and the redundant count agree, nothing is reported corrupt, and taking a
\* snapshot away leaves the samples added since.  It fails where two starts
\* coincide, where the search stops one off or where a class misses its bounds.
SamplesSorted ==
    LET Fall(values, i) == Cardinality({k \in DOMAIN values :
                             histogram.ranges[i] <= values[k] /\ values[k] < histogram.ranges[i + 1]})
        Describes(s, values) ==
          /\ \A i \in Buckets(histogram) : s.counts[i] = Fall(values, i)
          /\ s.sum = SumOf(values, Len(values)) /\ s.redundant_count = Len(values)
          /\ TotalCount(s) = Len(values)
    IN  /\ Describes(sample_, history)
        /\ FindCorruption(histogram, sample_) = {}
        /\ Describes(Subtract(sample_, snapshot.set),
                     SubSeq(history, snapshot.size + 1, Len(history)))

\* The printed graph accounts for every sample: each bucket is printed once, in
\* order, or is empty (in an ellipsis or with a description); what a line says
\* came before it and remains after it adds up to the total.  "No reason to plot
\* emptiness" (histogram.cc:209): without samples, when the scale of the graph
\* is zero, no bucket is plotted, unless all but the last have descriptions.
GraphComplete ==
    LET lines == WriteAscii(histogram, sample_)
        Plotted == {lines[k].bucket : k \in {j \in DOMAIN lines : lines[j].plotted}}
    IN  /\ \A j, k \in DOMAIN lines : j < k => lines[j].last < lines[k].bucket
        /\ \A i \in Buckets(histogram) : sample_.counts[i] > 0 => i \in Plotted
        /\ \A k \in DOMAIN lines : lines[k].past + lines[k].count + lines[k].remaining = TotalCount(sample_)
        /\ history = <<>> /\ Plotted # {} =>
             \A i \in Buckets(histogram) : PrintEmptyBucket(histogram, i) <=> i = histogram.n - 1
=============================================================================
