------------------------------ MODULE MCStats ------------------------------
(***************************************************************************)
(* Checks the aggregator against reference definitions: the agent replies *)
(* arrive one by one (in the order collectThroughputResults and            *)
(* collectLatencyResults read them) and after each arrival the aggregate   *)
(* of the replies so far is compared with a recursive reference.           *)
(***************************************************************************)
EXTENDS Stats, Integers, FiniteSets

CONSTANTS
    MaxReplies,     \* replies aggregated in one behaviour, both kinds together
    Latencies,      \* values of Avg_lat and P99 an agent may report
    ReducerValues,  \* values of ToReduceSampling an agent may report
    Counts          \* values of Req_count and Duration an agent may report

ASSUME MaxReplies \in Nat \ {0}

VARIABLES thReplies, latReplies

vars == <<thReplies, latReplies>>

ThReply == [Req_count : Counts, Duration : Counts, CorrectIAD : {0, 1}]

LatReply == [Avg_lat : Latencies, P99 : Latencies, IsStationary : {0, 1},
             IsIid : {0, 1}, ToReduceSampling : ReducerValues]

Init == thReplies = << >> /\ latReplies = << >>

ThroughputArrives ==
    /\ Len(thReplies) + Len(latReplies) < MaxReplies
    /\ \E r \in ThReply : thReplies' = Append(thReplies, r)
    /\ UNCHANGED latReplies

LatencyArrives ==
    /\ Len(thReplies) + Len(latReplies) < MaxReplies
    /\ \E r \in LatReply : latReplies' = Append(latReplies, r)
    /\ UNCHANGED thReplies

\* Every agent has replied: the aggregates are final.
AllReplied ==
    /\ Len(thReplies) + Len(latReplies) = MaxReplies
    /\ UNCHANGED vars

Next == ThroughputArrives \/ LatencyArrives \/ AllReplied

Spec == Init /\ [][Next]_vars

\* Reference definitions, written independently of the fold in Stats.
RECURSIVE RefSum(_, _)
RefSum(s, f) == IF s = << >> THEN 0 ELSE Head(s)[f] + RefSum(Tail(s), f)

RefMin(S) == CHOOSE m \in S : \A x \in S : m <= x

TypeOK ==
    /\ thReplies \in Seq(ThReply) /\ Len(thReplies) <= MaxReplies
    /\ latReplies \in Seq(LatReply) /\ Len(latReplies) <= MaxReplies

(* computeStatsThroughput: for any non-empty list of replies the aggregate  *)
(* request count and IAD flag are the sums over all agents, and the         *)
(* duration is the one the first agent reported (spec 4.E).                 *)
ThroughputAggregation ==
    thReplies # << >> =>
        LET agg == ComputeStatsThroughput(thReplies) IN
        /\ agg.Req_count = RefSum(thReplies, "Req_count")
        /\ agg.CorrectIAD = RefSum(thReplies, "CorrectIAD")
        /\ agg.Duration = thReplies[1].Duration

(* computeStatsLatency: every scalar is the truncated integer mean and,    *)
(* when the aggregate is non-IID, the reducer is the smallest any agent    *)
(* asked for (spec 8.3 and 8.4).                                           *)
LatencyAggregation ==
    latReplies # << >> =>
        LET agg == ComputeStatsLatency(latReplies)
            n   == Len(latReplies)
        IN  /\ agg.Avg_lat = RefSum(latReplies, "Avg_lat") \div n
            /\ agg.P99 = RefSum(latReplies, "P99") \div n
            /\ agg.IsIid = 0 =>
                 agg.ToReduceSampling =
                   RefMin({latReplies[i].ToReduceSampling : i \in 1..n})

(* Spec 4.E: "is_iid == 0 on the aggregate signals at least one agent     *)
(* reported non-IID".  computeStatsLatency sums the agents' IsIid flags.   *)
NonIidSignalled ==
    latReplies # << >> =>
        ((ComputeStatsLatency(latReplies).IsIid = 0)
            <=> (\E i \in 1..Len(latReplies) : latReplies[i].IsIid = 0))

=============================================================================
