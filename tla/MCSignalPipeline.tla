-------------------------- MODULE MCSignalPipeline --------------------------
(* Instances of SignalPipeline for TLC.                                    *)
EXTENDS SignalPipeline, TLC

CONSTANTS s1, s2, s3, c1, c2

\* A signal alone ...
Solo == s1 :> c1
\* ... two that race on one component ...
Pair == s1 :> c1 @@ s2 :> c1
\* ... three of them ...
Trio == Pair @@ s3 :> c1
\* ... or two, beside a third signal on another component.
PairAndOther == Pair @@ s3 :> c2

SwapPair == Permutations({s1, s2})
SwapTrio == Permutations({s1, s2, s3})
=============================================================================
