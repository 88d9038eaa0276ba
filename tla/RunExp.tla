------------------------------- MODULE RunExp -------------------------------
(***************************************************************************)
(* runExp of src/coordinator/coordinator.go: the -loadPattern string split *)
(* at ':' and dispatched to a pattern, and stepPattern's sequence of loads. *)
(*                                                                         *)
(* A pattern string is the sequence of its fields: the name, then the      *)
(* arguments, each a number or Bad (a field strconv.Atoi or ParseFloat     *)
(* rejects).  args[k + 1] is the code's patternArgs[k].  The result is the *)
(* call runExp makes, with the values it passes, or "error" (runExp        *)
(* returns an error) or "panic" (an index out of range).                   *)
(***************************************************************************)
EXTENDS Integers, Sequences, SequencesExt

CONSTANTS
    Bad,          \* model value: a field that does not parse
    LatencyRate   \* -lqps

\* c.samples = initialSamples; c.samplingRate = initialSamplingRate
InitialSamples == 10000
InitialSamplingRate == 20

Has(args, k) == Len(args) > k
Arg(args, k) == args[k + 1]

(* Reading patternArgs[k]: a missing field is an index out of range when  *)
(* the code reads it unconditionally (required) and skipped when it is    *)
(* behind a len(patternArgs) > k test.                                    *)
Read(args, k, required) ==
    IF ~Has(args, k) THEN IF required THEN "panic" ELSE "absent"
    ELSE IF Arg(args, k) = Bad THEN "error" ELSE "ok"

\* The reads in code order stop at the first failure.
FirstFailure(args, reads) ==
    LET fails == SelectSeq([i \in DOMAIN reads |-> Read(args, reads[i][1], reads[i][2])],
                           LAMBDA r : r \in {"panic", "error"})
    IN  IF fails = << >> THEN "ok" ELSE Head(fails)

Opt(args, k, default) == IF Has(args, k) THEN Arg(args, k) ELSE default

\* Mutant: the samples field read without its len(patternArgs) > 2 test.
FixedReadsUnguarded == << <<1, TRUE>>, <<2, TRUE>>, <<3, FALSE>> >>

\* fixed, fixedQual, fixedSteady: Atoi(patternArgs[1]), then [2] and [3]
\* if present.
FixedReads == << <<1, TRUE>>, <<2, FALSE>>, <<3, FALSE>> >>

\* step, stepQual: patternArgs[1..3] unconditionally, then [4] and [5].
StepReads == << <<1, TRUE>>, <<2, TRUE>>, <<3, TRUE>>, <<4, FALSE>>, <<5, FALSE>> >>

(* stepPattern's loop: for loadRate <= endLoad { ...; loadRate += step }. *)
(* With step <= 0 and startLoad <= endLoad it never ends.                  *)
StepLoads(start, end, step) ==
    IF start > end THEN << >>
    ELSE IF step <= 0 THEN "unbounded"
    ELSE [i \in 1..((end - start) \div step + 1) |-> start + (i - 1) * step]

\* Mutant: the latency rate passed on without latency agents.
LatencyRateForAlways(nlt) == LatencyRate

\* if len(c.ltAgents) == 0 { latencyRate = 0 }
LatencyRateFor(nlt) == IF nlt = 0 THEN 0 ELSE LatencyRate

(* The fixed branch.  Its inner test for "fixedRepeat" is inside a branch  *)
(* only the names fixed, fixedQual and fixedSteady enter.                  *)
FixedBranch(args, nlt) ==
    LET f == FirstFailure(args, FixedReads) IN
    IF f # "ok" THEN [call |-> f]
    ELSE [call        |-> CASE args[1] = "fixed"       -> "fixedPattern"
                            [] args[1] = "fixedRepeat" -> "fixedRepeatPattern"
                            [] OTHER                   -> "fixedQualPattern",
          load        |-> Arg(args, 1),
          samples     |-> Opt(args, 2, InitialSamples),
          rate        |-> Opt(args, 3, InitialSamplingRate),
          latencyRate |-> LatencyRateFor(nlt)]

StepBranch(args, nlt) ==
    LET f == FirstFailure(args, StepReads) IN
    IF f # "ok" THEN [call |-> f]
    ELSE [call        |-> "stepPattern",
          qual        |-> args[1] = "stepQual",
          loads       |-> StepLoads(Arg(args, 1), Arg(args, 2), Arg(args, 3)),
          samples     |-> Opt(args, 4, InitialSamples),
          rate        |-> Opt(args, 5, InitialSamplingRate),
          latencyRate |-> LatencyRateFor(nlt)]

\* runExp(pattern) with nlt latency agents.
RunExp(args, nlt) ==
    IF args[1] \in {"fixed", "fixedQual", "fixedSteady"} THEN FixedBranch(args, nlt)
    ELSE IF args[1] \in {"step", "stepQual"} THEN StepBranch(args, nlt)
    ELSE [call |-> "error"]
=============================================================================
