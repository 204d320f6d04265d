------------------------------ MODULE MCServices -----------------------------
(***************************************************************************)
(* A small instance of every component of Services.                        *)
(***************************************************************************)
EXTENDS Services

(* With a cap of two pages, which the limiter takes as two bytes, a guest  *)
(* with memory does not start; the others return, trap or never end.       *)
MCGuests ==
    [pages : {0}, work : {1}, traps : BOOLEAN]
    \cup [pages : {0, 1}, work : {3, Endless}, traps : {FALSE}]

(* wasmtime's trap for the epoch is called an interrupt; a guest's function*)
(* may have any name.                                                      *)
MCTrapTexts ==
    [cause \in Causes |-> CASE cause = "fuel" -> {{"fuel"}, {}}
                           [] cause = "epoch" -> {{"epoch"}, {}}
                           [] cause = "guest" -> {{}, {"fuel"}}]

(* Fractions of no, three and nine digits, and a later second.             *)
MCInstants ==
    { << 0, 0, 0, 0 >>, << 0, 1, 0, 0 >>, << 0, 1, 0, 1 >>, << 1, 0, 0, 0 >> }
=============================================================================
