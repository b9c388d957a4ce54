------------------------------ MODULE MCPromCache ------------------------------
(* Three goroutines, one PromQL string, one range, a cache of two entries    *)
(* and a clock that passes every TTL: the callers are interchangeable.       *)
EXTENDS PromCache, TLC

CallerSymmetry == Permutations(Callers)
================================================================================
