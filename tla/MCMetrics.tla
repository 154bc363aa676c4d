------------------------------- MODULE MCMetrics -------------------------------
(* What the metrics library keeps: the registry of histograms, the table of   *)
(* counters in shared memory, one histogram and its samples.  The parts share *)
(* nothing, so a behaviour runs one of them while the others rest.            *)
EXTENDS StatisticsRecorder, StatsTable, HistogramBuckets, TLC

CONSTANTS m1, t1, m2, p1, p2   \* two processes, the first with two threads

VARIABLE part

allVars == <<part, recorderVars, statsVars, histogramVars>>

(* A name for each site, two names of one shape, two shapes of one checksum. *)
SmallNames == "s1" :> "a" @@ "s2" :> "b" @@ "s3" :> "c"
SmallShapes == "a" :> "x" @@ "b" :> "x" @@ "c" :> "y"
SameCrc == "x" :> 1 @@ "y" :> 1

SmallProcesses == m1 :> p1 @@ t1 :> p1 @@ m2 :> p2
SmallDestroyers == p1 :> m1 @@ p2 :> m2
SmallUses == m1 :> 2 @@ t1 :> 1 @@ m2 :> 2

(* Minimum, maximum and number of buckets inside and beyond what is proper.   *)
SmallArguments == {"exponential", "linear"} \X (0..3) \X (2..8) \X (3..8)
SmallCustoms == UNION {[1..n -> {0, 1, 2, 5}] : n \in 0..2}
SmallValues == {-1, 0, 1, 2, 4, 6, 9}

MetricsInit ==
    /\ part \in {"registry", "table", "histogram"}
    /\ RecorderInit /\ StatsInit
    /\ IF part = "histogram" THEN HistogramInit ELSE Start(BooleanFactoryGet)

Only(p, theirs) == part = p /\ UNCHANGED theirs /\ UNCHANGED part

MetricsNext ==
    \/ Only("registry", <<statsVars, histogramVars>>) /\ RecorderNext
    \/ Only("table", <<recorderVars, histogramVars>>) /\ StatsNext
    \/ Only("histogram", <<recorderVars, statsVars>>) /\ HistogramNext

MetricsSpec == MetricsInit /\ [][MetricsNext]_allVars
=============================================================================
