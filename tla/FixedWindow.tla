----------------------------- MODULE FixedWindow -----------------------------
(***************************************************************************)
(* What ratelimit.Memory promises ("admits up to limit requests per window *)
(* per key"), without buckets to evict: a key has at most one open window, *)
(* which closes by itself when its time has passed.                        *)
(***************************************************************************)
EXTENDS Integers

CONSTANTS Keys, Limit, Window, MaxTime, Nil

VARIABLES now, open

vars == <<now, open>>

Init == now = 0 /\ open = [k \in Keys |-> Nil]

Open(k) ==
  /\ open[k] = Nil
  /\ open' = [open EXCEPT ![k] = [count |-> 1, expiresAt |-> now + Window]]
  /\ UNCHANGED now

Count(k) ==
  /\ open[k] # Nil /\ open[k].count < Limit
  /\ open' = [open EXCEPT ![k].count = @ + 1]
  /\ UNCHANGED now

(* Time passes and closes the windows it leaves behind.                      *)
Pass ==
  /\ now < MaxTime
  /\ now' = now + 1
  /\ open' = [k \in Keys |-> IF open[k] # Nil /\ now' > open[k].expiresAt THEN Nil ELSE open[k]]

Next == (\E k \in Keys : Open(k) \/ Count(k)) \/ Pass

Spec == Init /\ [][Next]_vars
===============================================================================
