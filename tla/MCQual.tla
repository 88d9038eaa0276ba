------------------------------ MODULE MCQual -------------------------------
(***************************************************************************)
(* fixedQualPattern with small agent populations.  Rates keep the code's  *)
(* magnitudes (default -lqps 4000), so the computed measurement durations *)
(* cross maxDuration after a few sampling-rate reductions.                *)
(***************************************************************************)
EXTENDS Qual

\* fixedQual:10000, stepQual:10000:20000:10000.
MCLoads == <<10000>>
MCStepLoads == <<10000, 20000>>

MCSamplingRates == {[num |-> 20, den |-> 1]}
MCLowSamplingRates == {[num |-> 1, den |-> 50]}
=============================================================================
