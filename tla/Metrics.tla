------------------------------ MODULE Metrics -------------------------------
(* The u64 counters the components keep; an increment wraps. *)
EXTENDS Naturals

CONSTANT CounterModulus   (* 2^64 in the code *)

ASSUME CounterAssumption == CounterModulus \in Nat \ {0}

Counter == 0 .. (CounterModulus - 1)

Bump(n) == IF n + 1 >= CounterModulus THEN 0 ELSE n + 1
=============================================================================
