-------------------------------- MODULE Qual --------------------------------
(***************************************************************************)
(* The qualification state machine of fixedQualPattern                     *)
(* (src/coordinator/coordinator.go): Load -> Measure -> Exit, with retries *)
(* on a probe outside the +-10% band or with a wrong inter-arrival, with   *)
(* sampling-rate reduction on a non-IID measurement, and the budgets       *)
(* maxTries and maxDuration.                                               *)
(*                                                                         *)
(* One action is one iteration of the for/switch loop.  Every command the  *)
(* iteration sends (check_conn_open, startLoad, startMeasure,              *)
(* reportThroughput, reportLatency) either succeeds with the agents'       *)
(* replies, chosen here from what agents can send, or fails, which         *)
(* returns an error from the pattern (the message level is in Proto).      *)
(*                                                                         *)
(* Agents are numbered in the order the Load state collects throughput:    *)
(* thAgents, then ltAgents, then symAgents.  Rates are in requests per     *)
(* second and durations in seconds: getRPS' factor 1e6 against a duration  *)
(* in microseconds cancels.  The sampling rate, a float64, is the exact    *)
(* fraction num/den; dividing it by a reducer multiplies den, and den = 0  *)
(* is +Inf, what dividing by a reducer of 0 gives.                         *)
(*                                                                         *)
(* With ShortReads a report's conn.Read may return fewer bytes than the    *)
(* reply (TCP delivers it in two segments).  The header is complete, so it *)
(* passes the code check, and the body is the zero tail of the freshly     *)
(* made buffer.  The rest of the reply stays in the socket (leftover).     *)
(* Every later Load or Measure iteration commands every agent (load() and *)
(* startMeasure go to all of them), and the first check on that socket    *)
(* reads the leftover body where a reply code belongs, so the iteration   *)
(* fails: after a short read only CommandFails, ExitStep and the loop's   *)
(* end remain.  The socket is kept from one load of stepQual to the next. *)
(*                                                                         *)
(* Loads is the list of loads runExp runs: one for fixedQual, the range of *)
(* stepQual, whose stepPattern calls fixedQualPattern once per load and    *)
(* goes on after an error.                                                 *)
(***************************************************************************)
EXTENDS Stats, Integers, FiniteSets

CONSTANTS
    NTh, NLt, NSym,     \* numbers of throughput, latency, symmetric agents
    Loads,              \* the loads: <<load>> for fixedQual, the range for stepQual
    LatencyRate,        \* -lqps
    MaxTries,           \* maxTries = 10
    MaxDuration,        \* maxDuration = 900 s
    SampleCounts,       \* c.samples values a pattern may give
    SamplingRates,      \* c.samplingRate values, records [num, den]
    ProbeDurations,     \* measurement windows an agent may report
    Reducers,           \* ToReduceSampling values an agent may report
    None,               \* model value: no probe or measurement yet
    ShortReads          \* whether a report may be read short

ASSUME /\ {NTh, NLt, NSym, LatencyRate} \subseteq Nat
       /\ Loads \in Seq(Nat) /\ Loads # << >>
       /\ MaxTries \in Nat \ {0} /\ MaxDuration \in Nat
       /\ SampleCounts \subseteq Nat \ {0}
       /\ SamplingRates \subseteq [num : Nat \ {0}, den : Nat \ {0}]
       /\ ProbeDurations \subseteq Nat /\ Reducers \subseteq Nat \ {0}
       /\ ShortReads \in BOOLEAN

VARIABLES
    state,           \* c.state
    tryCount,        \* tryCount
    maxTimeReached,  \* maxTimeReached
    samplingRate,    \* c.samplingRate as [num, den]
    samples,         \* c.samples
    result,          \* Running, or what fixedQualPattern returned
    lastProbe,       \* history: the last Load probe, or None
    lastMeasure,     \* history: the last measurement, or None
    step,            \* stepPattern: the index of loadRate in Loads
    outcome,         \* stepPattern: what each earlier fixedQualPattern returned
    leftover         \* some agent's socket holds the rest of a short-read report

vars == <<state, tryCount, maxTimeReached, samplingRate, samples, result,
          lastProbe, lastMeasure, step, outcome, leftover>>

\* type coordState: Load, Measure, Exit.
CoordStates == {"Load", "Measure", "Exit"}

Running == "running"
Results == {Running, "nil", "err", "maxTime", "maxTries", "panic"}

\* The loadRate argument of the fixedQualPattern call in progress.
LoadRate == Loads[step]

NAgents == NTh + NLt + NSym
NLoading == NSym + NTh
NMeasuring == NSym + NLt
Kind(i) == IF i <= NTh THEN "th" ELSE IF i <= NTh + NLt THEN "lt" ELSE "sym"

\* runExp: without latency agents the latency rate is forced to 0.
LatencyRateEff == IF NLt = 0 THEN 0 ELSE LatencyRate

\* load(): the rate START_LOAD gives each agent.
PerAgentLoad == IF NLoading > 0 THEN LoadRate \div NLoading ELSE 0
AssignedRate(i) == IF Kind(i) = "lt" THEN LatencyRateEff ELSE PerAgentLoad

\* Mutant: the latency agents' load left out of the expectation.
ExpectedRPSNoLatency == LoadRate

ExpectedRPS == LoadRate + LatencyRateEff

\* The Load check: rps > expectedRPS*1.1 || rps < expectedRPS*0.90.
OutOfBand(agg) ==
    RPSAbove(agg, 11 * ExpectedRPS, 10) \/ RPSBelow(agg, 9 * ExpectedRPS, 10)

\* Mutant: the inter-arrival check dropped.
ProbeAcceptedNoIAD(agg) == ~OutOfBand(agg)

ProbeAccepted(agg) == ~OutOfBand(agg) /\ agg.CorrectIAD # 0

(* What an agent measures in the probe window: the rate it was asked for  *)
(* or half of it (the target server does not keep up), the window, and    *)
(* its inter-arrival check.  The agent is outside src/.                    *)
(* The fourth component says whether the read was short.                 *)
ShortRead == IF ShortReads THEN BOOLEAN ELSE {FALSE}

ProbeOutcomes == BOOLEAN \X ProbeDurations \X {0, 1} \X ShortRead

\* binary.Read of a throughput_reply from the zero tail of data.
ZeroThroughput == [Req_count |-> 0, Duration |-> 0, CorrectIAD |-> 0, achieved |-> FALSE]

ProbeReply(i, o) ==
    LET full == o[1]  d == o[2]
    IN  IF o[4] THEN ZeroThroughput
        ELSE [Req_count  |-> (IF full THEN AssignedRate(i) ELSE AssignedRate(i) \div 2) * d,
              Duration   |-> d,
              CorrectIAD |-> o[3],
              achieved   |-> full]

(* A latency reply as the Measure state reads it; the latency values and *)
(* IsStationary (its check is commented out) do not steer it: fixed.     *)
ZeroLatency ==
    [Avg_lat |-> 0, P99 |-> 0, IsStationary |-> 0, IsIid |-> 0, ToReduceSampling |-> 0]

LatencyReplies ==
    [Avg_lat : {1}, P99 : {1}, IsStationary : {1}, IsIid : {0, 1},
     ToReduceSampling : Reducers]
    \cup (IF ShortReads THEN {ZeroLatency} ELSE {})

\* c.samplingRate < 0.01
RateExhausted(sr) == 100 * sr.num < sr.den

\* c.samplingRate /= float64(agg_lat.ToReduceSampling)
Reduce(sr, r) == [num |-> sr.num, den |-> sr.den * r]

\* Mutant: a retry that does not count.
RetryNoCount == UNCHANGED tryCount

\* The retry bookkeeping of a continue: tryCount += 1.
Retry == tryCount' = tryCount + 1

(* duration := int(math.Ceil(samples / (baseRate * samplingRate/100)))    *)
(* with samplingRate scaled by the measuring agents.  When the divisor is *)
(* zero the quotient is +Inf and int(+Inf) is implementation-defined: the *)
(* minimum int64 on amd64 (modelled by -1) or the maximum on arm64         *)
(* (modelled by MaxDuration + 1).                                          *)
BaseRate == IF NLt > 0 THEN LatencyRateEff ELSE PerAgentLoad

MeasureDurations(sr, n) ==
    LET divisor == BaseRate * sr.num * NMeasuring
    IN  IF divisor = 0 THEN {-1, MaxDuration + 1}
        ELSE {(n * 100 * sr.den + divisor - 1) \div divisor}

Init ==
    /\ state = "Load"
    /\ tryCount = 0
    /\ maxTimeReached = FALSE
    /\ samplingRate \in SamplingRates
    /\ samples \in SampleCounts
    /\ result = Running
    /\ lastProbe = None
    /\ lastMeasure = None
    /\ step = 1
    /\ outcome = << >>
    /\ leftover = FALSE

\* Mutant: the loop condition tryCount <= maxTries.
IteratingOffByOne == result = Running /\ tryCount <= MaxTries

\* for tryCount < maxTries, inside the function that has not returned yet.
Iterating == result = Running /\ tryCount < MaxTries

(* case Load: load(), sleep, startMeasure, sleep, reportThroughput from   *)
(* all agents, then the band and inter-arrival checks.  With no agent at  *)
(* all computeStatsThroughput indexes an empty slice and panics.          *)
LoadStep ==
    /\ Iterating /\ state = "Load" /\ ~leftover
    /\ IF NAgents = 0
       THEN result' = "panic" /\ UNCHANGED <<state, tryCount, lastProbe, leftover>>
       ELSE \E o \in [1..NAgents -> ProbeOutcomes] :
              LET replies == [i \in 1..NAgents |-> ProbeReply(i, o[i])]
                  agg     == ComputeStatsThroughput(replies)
              IN
              /\ lastProbe' = replies
              /\ leftover' = \E i \in 1..NAgents : o[i][4]
              /\ UNCHANGED result
              /\ \/ ~ProbeAccepted(agg) /\ Retry /\ UNCHANGED state
                 \/ ProbeAccepted(agg) /\ state' = "Measure" /\ UNCHANGED tryCount
    /\ UNCHANGED <<maxTimeReached, samplingRate, samples, lastMeasure>>

(* case Measure: startMeasure, sleep for the computed duration,           *)
(* reportLatency from symAgents and ltAgents, then (unless the maximum    *)
(* time is reached) the IID check: reduce the sampling rate and retry, or *)
(* give up reducing below 0.01; then reportThroughput and print, and      *)
(* return "Max time reached" or move to Exit.  Without measuring agents   *)
(* computeStatsLatency divides by len(replies) = 0 and panics.            *)
MeasureStep ==
    /\ Iterating /\ state = "Measure" /\ ~leftover
    /\ IF NMeasuring = 0
       THEN result' = "panic"
            /\ UNCHANGED <<state, tryCount, maxTimeReached, samplingRate, lastMeasure,
                           leftover>>
       ELSE \E d \in MeasureDurations(samplingRate, samples),
               replies \in [1..NMeasuring -> LatencyReplies] :
              LET agg == ComputeStatsLatency(replies)
                  mt  == maxTimeReached \/ d > MaxDuration
                  short == \E i \in 1..NMeasuring : replies[i] = ZeroLatency
              IN
              /\ maxTimeReached' = mt
              /\ leftover' = short
              /\ lastMeasure' = [replies |-> replies, duration |-> d, short |-> short,
                                 exhausted |-> RateExhausted(samplingRate)]
              /\ \/ /\ ~mt /\ agg.IsIid = 0 /\ ~RateExhausted(samplingRate)
                    /\ samplingRate' = Reduce(samplingRate, agg.ToReduceSampling)
                    /\ Retry
                    /\ UNCHANGED <<state, result>>
                 \/ /\ mt \/ agg.IsIid # 0 \/ RateExhausted(samplingRate)
                    /\ IF mt THEN result' = "maxTime" /\ UNCHANGED state
                             ELSE state' = "Exit" /\ UNCHANGED result
                    /\ UNCHANGED <<tryCount, samplingRate>>
    /\ UNCHANGED <<samples, lastProbe>>

(* A command of the iteration fails (write error, deadline, unexpected    *)
(* reply, or connections not open within 60 polls): return the error.    *)
CommandFails ==
    /\ Iterating /\ state \in {"Load", "Measure"}
    /\ result' = "err"
    /\ UNCHANGED <<state, tryCount, maxTimeReached, samplingRate, samples,
                   lastProbe, lastMeasure>>

\* case Exit: sleep and return nil.
ExitStep ==
    /\ Iterating /\ state = "Exit"
    /\ result' = "nil"
    /\ UNCHANGED <<state, tryCount, maxTimeReached, samplingRate, samples,
                   lastProbe, lastMeasure>>

\* The loop condition fails: "Max re-tries or max time reached".
TriesExhausted ==
    /\ result = Running /\ tryCount >= MaxTries
    /\ result' = "maxTries"
    /\ UNCHANGED <<state, tryCount, maxTimeReached, samplingRate, samples,
                   lastProbe, lastMeasure>>

\* Mutant: stepPattern returns the first error (the commented-out line).
NextLoadStopOnError ==
    /\ result = "nil" /\ step < Len(Loads)
    /\ step' = step + 1 /\ outcome' = Append(outcome, result)
    /\ state' = "Load" /\ tryCount' = 0 /\ maxTimeReached' = FALSE
    /\ result' = Running /\ lastProbe' = None /\ lastMeasure' = None
    /\ UNCHANGED <<samplingRate, samples>>

(* stepQual: fixedQualPattern returned; stepPattern prints an error and   *)
(* calls it with the next load.  Its locals start afresh (c.state = Load, *)
(* tryCount, maxTimeReached); c.samplingRate and c.samples are fields of  *)
(* the coordinator and keep their values.                                  *)
NextLoad ==
    /\ result \notin {Running, "panic"} /\ step < Len(Loads)
    /\ step' = step + 1 /\ outcome' = Append(outcome, result)
    /\ state' = "Load" /\ tryCount' = 0 /\ maxTimeReached' = FALSE
    /\ result' = Running /\ lastProbe' = None /\ lastMeasure' = None
    /\ UNCHANGED <<samplingRate, samples>>

\* runExp has returned.
Returned == result # Running /\ UNCHANGED vars

Next ==
    \/ /\ LoadStep \/ MeasureStep
       /\ UNCHANGED <<step, outcome>>
    \/ /\ CommandFails \/ ExitStep \/ TriesExhausted
       /\ UNCHANGED <<step, outcome, leftover>>
    \/ NextLoad /\ UNCHANGED leftover
    \/ Returned

\* The driver is one sequential goroutine whose every wait is bounded.
Spec == Init /\ [][Next]_vars /\ WF_vars(Next)

-----------------------------------------------------------------------------
(* Properties.  They restate what the code should achieve with their own  *)
(* arithmetic, not with the operators above.                               *)

Total(s, f) == FoldFunction(LAMBDA x, y : x + y, 0, [i \in DOMAIN s |-> s[i][f]])

TypeOK ==
    /\ state \in CoordStates
    /\ step \in 1..Len(Loads) /\ outcome \in Seq(Results \ {Running, "panic"})
    /\ tryCount \in 0..MaxTries
    /\ maxTimeReached \in BOOLEAN /\ leftover \in BOOLEAN
    /\ samplingRate \in [num : Nat \ {0}, den : Nat]
    /\ samples \in SampleCounts
    /\ result \in Results
    /\ lastProbe = None \/ DOMAIN lastProbe = 1..NAgents
    /\ lastMeasure = None \/ DOMAIN lastMeasure.replies = 1..NMeasuring

(* Quality gate (spec 8.6, as the code implements it): fixedQualPattern   *)
(* returns nil only if the last Load probe had a correct inter-arrival    *)
(* and a request rate within 10% of load + latency rate, and the last     *)
(* measurement took at most maxDuration and had some agent reporting IID  *)
(* (the flags are summed) or a sampling rate that could not be reduced.   *)
QualityGate ==
    result = "nil" =>
        /\ lastProbe # None /\ lastMeasure # None
        /\ Total(lastProbe, "CorrectIAD") > 0
        /\ LET req == Total(lastProbe, "Req_count")
               dur == lastProbe[1].Duration
               exp == LoadRate + LatencyRateEff
           IN  dur > 0 /\ 9 * exp * dur <= 10 * req /\ 10 * req <= 11 * exp * dur
        /\ \/ \E i \in DOMAIN lastMeasure.replies : lastMeasure.replies[i].IsIid # 0
           \/ lastMeasure.exhausted
        /\ lastMeasure.duration <= MaxDuration

(* Spec 8.6 to the letter: a success report means the final measurement   *)
(* was IID.  The code also succeeds when the non-IID sample cannot be     *)
(* reduced further (samplingRate < 0.01).                                 *)
QualityGateSpec ==
    result = "nil" =>
        \A i \in DOMAIN lastMeasure.replies : lastMeasure.replies[i].IsIid # 0

\* Every agent delivered the rate START_LOAD asked of it, over the same
\* window, with a correct inter-arrival.
FullLoad(p) ==
    \A i \in DOMAIN p : /\ p[i].achieved /\ p[i].CorrectIAD = 1
                       /\ p[i].Duration = p[1].Duration /\ p[1].Duration > 0

(* When every agent achieves exactly the load load() assigned it, the     *)
(* Load probe passes and the machine moves to Measure: the expectation    *)
(* matches what the agents were told to send.                             *)
LoadGateAccepts ==
    [][state = "Load" /\ result' = Running /\ step' = step /\ FullLoad(lastProbe')
         => state' = "Measure"]_vars

(* fixedQualPattern returns an error rather than crashing the             *)
(* coordinator on every agent configuration runExp accepts.               *)
NoPanic == result # "panic"

(* Spec 7 (protocol errors): a malformed record aborts the experiment.     *)
(* collectLatencyResults parses a report that conn.Read returned short    *)
(* from the zeroed rest of its buffer without an error; when no later     *)
(* command of the pattern reads that agent's socket, fixedQualPattern     *)
(* returns nil with the zeroed report in its aggregate.                   *)
MalformedReportAborts == result = "nil" => ~lastMeasure.short

(* Spec 4.F and 9: the measurement runs for the duration that collects   *)
(* the samples; a zero per-agent load must be guarded against.  With a    *)
(* base rate of 0 the code's duration is int(+Inf), negative on amd64, so *)
(* a success can follow a measurement that did not wait at all.           *)
SuccessMeasured == result = "nil" => lastMeasure.duration > 0

(* The pattern always returns, after running every load: each iteration  *)
(* of fixedQualPattern leaves the state machine forward or spends one of  *)
(* the maxTries, and stepPattern goes on to the next load after an error. *)
Termination == <>(result # Running /\ (step = Len(Loads) \/ result = "panic"))
=============================================================================
