---------------------------- MODULE WasmSandbox ------------------------------
(***************************************************************************)
(* crates/sandbox-wasm: executions that share one engine, each with its own*)
(* fuel, and the engine's epoch, which one bump advances for all of them.  *)
(* External: wasmtime spends fuel as the guest runs, and traps it when the *)
(* fuel is used up, when the epoch has reached the deadline of its store,  *)
(* or when the guest itself goes wrong.  execute sees the TEXT of a trap   *)
(* only, and looks for two words in it; which of them wasmtime writes, and *)
(* which come in with the names of the guest's functions, is TrapTexts.    *)
(***************************************************************************)
EXTENDS Integers

CONSTANTS Slots,         (* executions that may be under way at a time     *)
          Guests,        (* modules: [pages, work, traps]; work, Endless or*)
                         (* finite, and at its end a return or a trap      *)
          Endless,
          TrapTexts,     (* external: cause -> sets of words in its text   *)
          MaxFuel,       (* config.max_fuel                                *)
          PageBytes,     (* bytes of a page, 65536 in the code             *)
          MaxMemory,     (* config.max_memory_bytes                        *)
          MaxEpoch       (* bound on the bumps                             *)

Causes == {"fuel", "epoch", "guest"}

ASSUME WasmAssumption ==
    /\ MaxFuel \in Nat /\ PageBytes \in Nat \ {0} /\ MaxMemory \in Nat /\ MaxEpoch \in Nat
    /\ Guests \subseteq [pages : Nat, work : Nat \cup {Endless}, traps : BOOLEAN]
    /\ TrapTexts \in [Causes -> SUBSET SUBSET {"fuel", "epoch"}]

VARIABLES epoch,         (* of the engine                                  *)
          runs,          (* Slots -> the execution and what it answered    *)
          bumped         (* history: slots whose run has seen a bump       *)

wasmVars == << epoch, runs, bumped >>

Run(state, guest, fuel, deadline) ==
    [state |-> state, guest |-> guest, fuel |-> fuel, deadline |-> deadline,
     cause |-> "none"]

Free == Run("free", Endless, 0, 0)

Running(s) == runs[s].state = "running"

WasmInit ==
    /\ epoch = 0
    /\ runs = [s \in Slots |-> Free]
    /\ bumped = {}

(* memory_page_limit counts pages; the store's limiter takes it as bytes.  *)
MemoryPageLimit == IF MaxMemory < PageBytes THEN 1 ELSE MaxMemory \div PageBytes

Instantiates(g) == g.pages * PageBytes <= MemoryPageLimit

(* Mutant: an absolute deadline. *)
DeadlineFixed == 1

Deadline == epoch + 1

(* execute, up to the call of the guest's function. *)
Execute(s, g) ==
    /\ ~Running(s)
    /\ runs' = [runs EXCEPT ![s] =
            IF Instantiates(g) THEN Run("running", g, MaxFuel, Deadline)
                               ELSE Run("error", g, 0, 0)]
    /\ bumped' = bumped \ {s}
    /\ UNCHANGED epoch

Spent(run) == MaxFuel - run.fuel

GuestEnds(run) == run.guest.work # Endless /\ Spent(run) = run.guest.work

(* Mutant: instructions cost nothing. *)
CostFree == 0

Cost == 1

(* The answer and why; the store is dropped. *)
Outcome(s, state, cause) ==
    /\ runs' = [runs EXCEPT ![s].state = state, ![s].cause = cause,
                            ![s].fuel = 0, ![s].deadline = 0]
    /\ UNCHANGED << epoch, bumped >>

(* How execute answers a trap: any text with "fuel" is an exhaustion, of   *)
(* the others any with "epoch" an interruption, and the rest an Err.       *)
Reported(text) ==
    IF "fuel" \in text THEN "fuel exhausted"
    ELSE IF "epoch" \in text THEN "epoch interrupted"
    ELSE "error"

Trapped(s, cause) ==
    \E text \in TrapTexts[cause] : Outcome(s, Reported(text), cause)

Proceed(s) ==
    LET run == runs[s] IN
    /\ Running(s)
    /\ \/ GuestEnds(run) /\ ~run.guest.traps /\ Outcome(s, "returned", "none")
       \/ GuestEnds(run) /\ run.guest.traps /\ Trapped(s, "guest")
       \/ ~GuestEnds(run) /\ epoch >= run.deadline /\ Trapped(s, "epoch")
       \/ ~GuestEnds(run) /\ run.fuel = 0 /\ Trapped(s, "fuel")
       \/ /\ ~GuestEnds(run) /\ epoch < run.deadline /\ run.fuel > 0
          /\ runs' = [runs EXCEPT ![s].fuel = @ - Cost]
          /\ UNCHANGED << epoch, bumped >>

BumpEpoch ==
    /\ epoch < MaxEpoch
    /\ epoch' = epoch + 1
    /\ bumped' = bumped \cup { s \in Slots : Running(s) }
    /\ UNCHANGED runs

WasmNext ==
    \/ \E s \in Slots : Proceed(s) \/ \E g \in Guests : Execute(s, g)
    \/ BumpEpoch

-----------------------------------------------------------------------------

(***************************************************************************)
(* What ends an execution is its own affair, whatever runs beside it on the*)
(* engine: the deadline traps it exactly if a bump came while it ran (one  *)
(* before it began, or after another's end, never counts), and it executes *)
(* nothing from then on; fuel traps it only if it had more to do than its  *)
(* own fuel pays for; and only a guest that ends, and without a trap, is   *)
(* answered as returned.  (Of the reason REPORTED nothing is claimed: it   *)
(* hangs on words in the trap's text.)                                     *)
(***************************************************************************)
TrapsAreDeserved ==
    \A s \in Slots :
        LET run == runs[s]
            work == run.guest.work
        IN  /\ Running(s) => (s \in bumped <=> epoch >= run.deadline)
            /\ run.cause = "epoch" => s \in bumped
            /\ run.cause = "fuel" => work = Endless \/ work > MaxFuel
            /\ run.state = "returned" =>
                  work # Endless /\ work <= MaxFuel /\ ~run.guest.traps

(* Fuel ends every execution, also of a guest that never returns, with no  *)
(* bump of the epoch to help.                                              *)
ExecutionsEnd == \A s \in Slots : Running(s) ~> ~Running(s)
=============================================================================
