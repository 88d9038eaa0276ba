------------------------------- MODULE Stats -------------------------------
(***************************************************************************)
(* The aggregator of src/coordinator/stats.go: pure operators that combine *)
(* the per-agent throughput and latency replies into one report.           *)
(*                                                                         *)
(* A throughput reply is a record with the fields of                       *)
(* struct throughput_reply that the coordinator reads: Req_count,          *)
(* Duration (of the measurement window) and CorrectIAD.  Rx_bytes and      *)
(* Tx_bytes are summed exactly like Req_count and are only printed, so     *)
(* they are left out.  A latency reply keeps Avg_lat, one percentile       *)
(* (P99, standing for the 24 percentile fields, which are all averaged the *)
(* same way), IsStationary, IsIid, ToReduceSampling and the embedded       *)
(* throughput reply Th_data.                                               *)
(*                                                                         *)
(* Both operators panic in Go on an empty list (replies[0] out of range,   *)
(* division by len(replies) = 0): callers model the panic before using     *)
(* them.                                                                   *)
(***************************************************************************)
EXTENDS Naturals, Sequences, SequencesExt

\* Mutant: a sentinel below the reducers agents send.
ReducerSentinelSmall == 2

\* agg_stats.ToReduceSampling = 1000000 before the minimum is taken.
ReducerSentinel == 1000000

\* The field-wise sum over a sequence of replies, the range loop.
SumOf(replies, f) == FoldLeft(LAMBDA acc, r : acc + r[f], 0, replies)

\* The smaller of the running minimum and one reply's reducer.
MinReducer(m, r) ==
    IF r.ToReduceSampling < m THEN r.ToReduceSampling ELSE m

\* Mutant: the duration of the last reply instead of the first.
ComputeStatsThroughputLastDuration(replies) ==
    [Req_count  |-> SumOf(replies, "Req_count"),
     CorrectIAD |-> SumOf(replies, "CorrectIAD"),
     Duration   |-> replies[Len(replies)].Duration]

\* computeStatsThroughput: sums, and the duration of the first reply.
ComputeStatsThroughput(replies) ==
    [Req_count  |-> SumOf(replies, "Req_count"),
     CorrectIAD |-> SumOf(replies, "CorrectIAD"),
     Duration   |-> replies[1].Duration]


\* The reducer of a non-IID aggregate: the tightest one any agent asked for.
AggReducer(replies) == FoldLeft(MinReducer, ReducerSentinel, replies)

\* computeStatsLatency: truncating means of the scalar fields, sums of the
\* flags, and the reducer only when the summed IsIid is zero (otherwise the
\* zero value of the fresh struct).
ComputeStatsLatency(replies) ==
    LET n   == Len(replies)
        iid == SumOf(replies, "IsIid")
    IN  [Avg_lat          |-> SumOf(replies, "Avg_lat") \div n,
         P99              |-> SumOf(replies, "P99") \div n,
         IsStationary     |-> SumOf(replies, "IsStationary"),
         IsIid            |-> iid,
         ToReduceSampling |-> IF iid = 0 THEN AggReducer(replies) ELSE 0]

\* getRPS compared with bounds: the request rate in units of the duration.
\* Duration 0 makes 1e6*Req/Duration +Inf (Req > 0) or NaN (Req = 0); a
\* NaN compares false with everything, +Inf is above every bound.
RPSAbove(agg, num, den) ==
    IF agg.Duration = 0 THEN agg.Req_count > 0
    ELSE agg.Req_count * den > num * agg.Duration

RPSBelow(agg, num, den) ==
    IF agg.Duration = 0 THEN FALSE
    ELSE agg.Req_count * den < num * agg.Duration
=============================================================================
