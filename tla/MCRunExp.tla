------------------------------ MODULE MCRunExp ------------------------------
(***************************************************************************)
(* Every pattern string of up to five arguments, built one field at a time *)
(* over a few pattern names and small numbers, with and without latency    *)
(* agents, is dispatched by RunExp and compared with the pattern table of  *)
(* spec 4.F.                                                               *)
(***************************************************************************)
EXTENDS RunExp, FiniteSets

CONSTANTS
    Names,     \* pattern names, the spec's and an unknown one
    Nums,      \* numeric field values
    MaxArgs    \* arguments after the name

VARIABLES args, nlt

vars == <<args, nlt>>

Init == args \in {<<n>> : n \in Names} /\ nlt \in {0, 1}

AddField ==
    /\ Len(args) <= MaxArgs
    /\ \E a \in Nums \cup {Bad} : args' = Append(args, a)
    /\ UNCHANGED nlt

\* The string is complete.
Complete == Len(args) = MaxArgs + 1 /\ UNCHANGED vars

Next == AddField \/ Complete

Spec == Init /\ [][Next]_vars

-----------------------------------------------------------------------------
(* The grammar of spec 4.F, and the call it prescribes.                     *)

AllNums(a) == \A i \in 2..Len(a) : a[i] \in Nums

WellFormed(a) ==
    /\ AllNums(a)
    /\ \/ a[1] \in {"fixed", "fixedQual", "fixedSteady"} /\ Len(a) \in 2..4
       \/ a[1] = "fixedRepeat" /\ Len(a) = 2
       \/ a[1] \in {"step", "stepQual"} /\ Len(a) \in 4..6

\* The loads start, start + step, ... up to end, in order.
RangeBy(s, e, d) == SetToSortSeq({s + k * d : k \in 0..(e - s)} \cap s..e, <)

SpecLatencyRate == IF nlt = 0 THEN 0 ELSE LatencyRate

SpecSamples(k) == IF Len(args) > k THEN args[k + 1] ELSE 10000
SpecRate(k) == IF Len(args) > k THEN args[k + 1] ELSE 20

(* runExp passes every well-formed fixed, qualified and step pattern to   *)
(* the pattern the spec names, with the parsed load or range of loads,    *)
(* the samples and sampling rate given (or the defaults 10000 and 20),    *)
(* and a latency rate forced to 0 without latency agents.  fixedRepeat    *)
(* is never reached (see README); with a step of 0 or less the code's loop never   *)
(* ends (StepLoads is "unbounded") and the spec prescribes nothing.       *)
ArgumentsReachPattern ==
    LET r == RunExp(args, nlt) IN
    WellFormed(args) /\ args[1] # "fixedRepeat" =>
      CASE args[1] \in {"fixed", "fixedQual", "fixedSteady"} ->
             r = [call |-> IF args[1] = "fixed" THEN "fixedPattern" ELSE "fixedQualPattern",
                  load |-> args[2], samples |-> SpecSamples(2), rate |-> SpecRate(3),
                  latencyRate |-> SpecLatencyRate]
        [] args[4] > 0 ->
             r = [call |-> "stepPattern", qual |-> args[1] = "stepQual",
                  loads |-> RangeBy(args[2], args[3], args[4]),
                  samples |-> SpecSamples(4), rate |-> SpecRate(5),
                  latencyRate |-> SpecLatencyRate]
        [] OTHER -> TRUE

(* Spec 7: a malformed pattern is a configuration error, reported before  *)
(* any network I/O.  runExp reads patternArgs[1] (fixed family) and       *)
(* patternArgs[1..3] (step family) without checking the length, and every *)
(* later field behind a length test.  So it panics exactly on a known     *)
(* pattern with fewer than its required fields whose present fields all   *)
(* parse -- and on nothing else: an optional field is never an index out  *)
(* of range, and a bad field before the missing one is an error first.    *)
PanicsExactlyOnShortPattern ==
    LET need == IF args[1] \in {"step", "stepQual"} THEN 4 ELSE 2 IN
    RunExp(args, nlt).call = "panic" <=>
      /\ args[1] \in {"fixed", "fixedQual", "fixedSteady", "step", "stepQual"}
      /\ Len(args) < need
      /\ \A i \in 2..Len(args) : args[i] # Bad
=============================================================================
