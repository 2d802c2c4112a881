----------------------------- MODULE TokenBucket -----------------------------
(***************************************************************************)
(* What the gateway promises of each client: a bucket that holds Burst     *)
(* tokens at most, is refilled all the time, is never taken away, and      *)
(* gives one token to each request that is let through.                    *)
(***************************************************************************)
EXTENDS Naturals

CONSTANTS Key, Unit, PerTick, Burst

VARIABLE level  \* what each client's bucket holds, Unit to a token

Full == Burst * Unit

Init == level = [k \in Key |-> Full]

Admit(k) ==
  /\ level[k] >= Unit
  /\ level' = [level EXCEPT ![k] = @ - Unit]

Refill ==
  level' = [k \in Key |-> IF level[k] + PerTick < Full THEN level[k] + PerTick ELSE Full]

Next == Refill \/ \E k \in Key : Admit(k)

Spec == Init /\ [][Next]_level
=============================================================================
