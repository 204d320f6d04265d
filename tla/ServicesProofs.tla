---------------------------- MODULE ServicesProofs ----------------------------
(***************************************************************************)
(* What holds of envelopes, WASM executions, file reads, plugins,          *)
(* credentials and memories, for any set of them: an inductive invariant   *)
(* per component, kept by the component's own steps and by those of the    *)
(* others, which leave it alone.                                           *)
(***************************************************************************)
EXTENDS Services, ListLemmas

-----------------------------------------------------------------------------
(* WASM executions *)

RunStates == {"free", "error", "running", "returned", "epoch interrupted",
              "fuel exhausted"}

Executions ==
    [state : RunStates, guest : Guests \cup {Endless}, fuel : 0 .. MaxFuel,
     deadline : Nat, cause : Causes \cup {"none"}]

(* A running guest has done no more than it has to do, and its deadline is *)
(* at most one bump ahead: it has passed exactly if a bump was seen.       *)
UnderWay(s) ==
    /\ runs[s].guest \in Guests /\ runs[s].cause = "none"
    /\ runs[s].guest.work # Endless => Spent(runs[s]) <= runs[s].guest.work
    /\ runs[s].deadline <= epoch + 1
    /\ s \in bumped <=> epoch >= runs[s].deadline

(* What TrapsAreDeserved says of one slot that is not running. *)
SlotEnded(s) ==
    /\ runs[s].cause = "epoch" => s \in bumped
    /\ runs[s].cause = "fuel" =>
          runs[s].guest.work = Endless \/ runs[s].guest.work > MaxFuel
    /\ runs[s].state = "returned" =>
          /\ runs[s].guest.work # Endless /\ runs[s].guest.work <= MaxFuel
          /\ ~runs[s].guest.traps

SlotInv(s) == IF Running(s) THEN UnderWay(s) ELSE SlotEnded(s)

WasmInv ==
    /\ epoch \in Nat
    /\ runs \in [Slots -> Executions]
    /\ bumped \subseteq Slots
    /\ \A s \in Slots : SlotInv(s)

LEMMA WasmStart == WasmInit => WasmInv
<1> SUFFICES ASSUME WasmInit PROVE WasmInv
  OBVIOUS
<1>1. Free \in Executions
  BY WasmAssumption DEF Free, Run, Executions, RunStates
<1>2. \A s \in Slots : runs[s].state = "free" /\ runs[s].cause = "none"
  BY DEF WasmInit, Free, Run
<1> QED
  BY <1>1, <1>2 DEF WasmInit, WasmInv, Running, SlotInv, SlotEnded

LEMMA WasmBound == WasmInv => TrapsAreDeserved
<1> SUFFICES ASSUME WasmInv, NEW s \in Slots
             PROVE  /\ Running(s) => UnderWay(s)
                    /\ SlotEnded(s)
  BY DEF TrapsAreDeserved, UnderWay, SlotEnded
<1> QED
  BY DEF WasmInv, SlotInv, SlotEnded, UnderWay, Running

(* What one slot does says nothing of the others. *)
LEMMA OneSlotMoves ==
    ASSUME WasmInv, NEW s \in Slots, NEW run \in Executions,
           runs' = [runs EXCEPT ![s] = run], epoch' = epoch,
           bumped' \in {bumped, bumped \ {s}}, SlotInv(s)'
    PROVE  WasmInv'
<1>1. runs' \in [Slots -> Executions] /\ bumped' \subseteq Slots /\ epoch' \in Nat
  BY DEF WasmInv
<1>2. \A t \in Slots \ {s} : runs'[t] = runs[t] /\ (t \in bumped' <=> t \in bumped)
  BY DEF WasmInv
<1>3. \A t \in Slots : SlotInv(t)'
  BY <1>2 DEF WasmInv, SlotInv, SlotEnded, Running, UnderWay, Spent
<1> QED
  BY <1>1, <1>3 DEF WasmInv

LEMMA ExecuteKeeps ==
    ASSUME WasmInv, NEW s \in Slots, NEW g \in Guests, Execute(s, g) PROVE WasmInv'
<1> DEFINE started == Run("running", g, MaxFuel, Deadline)
           refused == Run("error", g, 0, 0)
           run == IF Instantiates(g) THEN started ELSE refused
<1>1. epoch \in Nat /\ MaxFuel \in Nat /\ g.work \in Nat \cup {Endless}
  BY WasmAssumption DEF WasmInv
<1>2. run \in Executions
  <2>1. started \in Executions
    BY <1>1 DEF Executions, RunStates, Deadline, Run
  <2>2. refused \in Executions
    BY <1>1 DEF Executions, RunStates, Run
  <2> QED
    BY <2>1, <2>2
<1>3. runs' = [runs EXCEPT ![s] = run] /\ epoch' = epoch /\ bumped' = bumped \ {s}
  BY DEF Execute
<1>4. runs'[s] = run
  BY <1>3 DEF WasmInv
<1>5. SlotInv(s)'
  BY <1>1, <1>3, <1>4 DEF SlotInv, SlotEnded, Running, UnderWay, Spent, Deadline, Run
<1> QED
  BY <1>2, <1>3, <1>5, OneSlotMoves

(* An execution ends, and what is then said of it holds.                   *)
LEMMA EndingKeepsRuns ==
    ASSUME WasmInv, NEW s \in Slots, NEW state \in RunStates \ {"running"},
           NEW cause \in Causes \cup {"none"}, Outcome(s, state, cause),
           cause = "epoch" => s \in bumped,
           cause = "fuel" => runs[s].guest.work = Endless \/ runs[s].guest.work > MaxFuel,
           state = "returned" => /\ runs[s].guest.work # Endless
                                 /\ runs[s].guest.work <= MaxFuel /\ ~runs[s].guest.traps
    PROVE  WasmInv'
<1> DEFINE run == [runs[s] EXCEPT !.state = state, !.cause = cause, !.fuel = 0, !.deadline = 0]
<1>1. run \in Executions
  <2>1. runs[s] \in Executions /\ 0 \in 0 .. MaxFuel /\ 0 \in Nat /\ state \in RunStates
    BY WasmAssumption DEF WasmInv
  <2> DEFINE ended(e) == [e EXCEPT !.state = state, !.cause = cause, !.fuel = 0, !.deadline = 0]
  <2>2. \A e \in Executions : ended(e) \in Executions
    BY <2>1 DEF Executions
  <2>3. run = ended(runs[s])
    OBVIOUS
  <2> HIDE DEF run, ended
  <2> QED
    BY <2>1, <2>2, <2>3
<1>2. runs' = [runs EXCEPT ![s] = run] /\ epoch' = epoch /\ bumped' = bumped
  BY DEF Outcome
<1>3. /\ runs'[s].state = state /\ runs'[s].cause = cause
      /\ runs'[s].guest = runs[s].guest
  BY <1>2 DEF WasmInv, Executions
<1>4. ~Running(s)' /\ SlotEnded(s)'
  BY <1>2, <1>3 DEF SlotEnded, Running
<1>5. SlotInv(s)'
  BY <1>4 DEF SlotInv
<1> QED
  BY <1>1, <1>2, <1>5, OneSlotMoves

(* Whatever its text, a trap is not answered as a return.                  *)
LEMMA TrapKeepsRuns ==
    ASSUME WasmInv, NEW s \in Slots, NEW cause \in Causes, Trapped(s, cause),
           cause = "epoch" => s \in bumped,
           cause = "fuel" => runs[s].guest.work = Endless \/ runs[s].guest.work > MaxFuel
    PROVE  WasmInv'
<1>1. PICK text \in TrapTexts[cause] : Outcome(s, Reported(text), cause)
  BY DEF Trapped
<1>2. Reported(text) \in RunStates \ {"running", "returned"}
  BY DEF Reported, RunStates
<1> QED
  BY <1>1, <1>2, EndingKeepsRuns

LEMMA ProceedKeeps ==
    ASSUME WasmInv, NEW s \in Slots, Proceed(s) PROVE WasmInv'
<1> DEFINE run == runs[s]
<1>1. /\ run \in Executions /\ UnderWay(s) /\ run.state = "running"
      /\ run.guest.work \in Nat \cup {Endless} /\ run.fuel \in 0 .. MaxFuel
      /\ MaxFuel \in Nat /\ epoch \in Nat /\ run.deadline \in Nat
  BY WasmAssumption DEF WasmInv, SlotInv, Proceed, UnderWay, Running, Executions
<1>2. CASE GuestEnds(run) /\ ~run.guest.traps /\ Outcome(s, "returned", "none")
  <2>1. run.guest.work # Endless /\ run.guest.work <= MaxFuel
    BY <1>1, <1>2 DEF GuestEnds, Spent
  <2>2. "returned" \in RunStates \ {"running"}
    BY DEF RunStates
  <2> QED
    BY <1>2, <2>1, <2>2, EndingKeepsRuns
<1>3. CASE GuestEnds(run) /\ run.guest.traps /\ Trapped(s, "guest")
  BY <1>3, TrapKeepsRuns DEF Causes
<1>4. CASE ~GuestEnds(run) /\ epoch >= run.deadline /\ Trapped(s, "epoch")
  <2>1. s \in bumped
    BY <1>1, <1>4 DEF UnderWay
  <2> QED
    BY <1>4, <2>1, TrapKeepsRuns DEF Causes
<1>5. CASE ~GuestEnds(run) /\ run.fuel = 0 /\ Trapped(s, "fuel")
  <2>1. ASSUME run.guest.work # Endless PROVE run.guest.work > MaxFuel
    <3>1. Spent(run) = MaxFuel
      <4>1. MaxFuel \in Nat /\ run.fuel = 0
        BY <1>1, <1>5
      <4> QED
        BY <4>1 DEF Spent
    <3>2. /\ run.guest.work \in Nat /\ MaxFuel <= run.guest.work
          /\ MaxFuel # run.guest.work
      BY <1>1, <1>5, <2>1, <3>1 DEF UnderWay, GuestEnds
    <3> QED
      BY <1>1, <3>2
  <2> QED
    BY <1>5, <2>1, TrapKeepsRuns DEF Causes
<1>6. CASE /\ ~GuestEnds(run) /\ epoch < run.deadline /\ run.fuel > 0
           /\ runs' = [runs EXCEPT ![s].fuel = @ - Cost]
           /\ UNCHANGED << epoch, bumped >>
  <2> DEFINE after == [run EXCEPT !.fuel = @ - 1]
  <2>1. /\ after \in Executions /\ after.fuel = run.fuel - 1 /\ after.guest = run.guest
        /\ after.state = "running" /\ after.deadline = run.deadline /\ after.cause = run.cause
    BY <1>1, <1>6 DEF Executions
  <2>2. runs' = [runs EXCEPT ![s] = after] /\ runs'[s] = after
    BY <1>6 DEF Cost, WasmInv
  <2>3. after.guest.work # Endless => MaxFuel - after.fuel <= after.guest.work
    BY <1>1, <1>6, <2>1 DEF UnderWay, GuestEnds, Spent
  <2>4. SlotInv(s)'
    <3>1. Running(s)'
      BY <2>1, <2>2 DEF Running
    <3>2. UnderWay(s)'
      BY <1>1, <1>6, <2>1, <2>2, <2>3 DEF UnderWay, Spent
    <3> QED
      BY <3>1, <3>2 DEF SlotInv
  <2> QED
    BY <1>6, <2>1, <2>2, <2>4, OneSlotMoves
<1> QED
  BY <1>2, <1>3, <1>4, <1>5, <1>6 DEF Proceed

LEMMA WasmKept == WasmInv /\ [WasmNext]_wasmVars => WasmInv'
<1> SUFFICES ASSUME WasmInv, [WasmNext]_wasmVars PROVE WasmInv'
  OBVIOUS
<1>1. CASE BumpEpoch
  <2>1. ASSUME NEW s \in Slots PROVE SlotInv(s)'
    <3>1. runs' = runs /\ epoch' = epoch + 1 /\ epoch \in Nat
      BY <1>1 DEF BumpEpoch, WasmInv
    <3>2. CASE Running(s)
      <4>1. s \in bumped' /\ UnderWay(s) /\ runs[s].deadline \in Nat
        BY <1>1, <3>2 DEF BumpEpoch, WasmInv, SlotInv, Executions
      <4> QED
        BY <3>1, <3>2, <4>1 DEF SlotInv, UnderWay, Running, Spent
    <3>3. CASE ~Running(s)
      BY <1>1, <3>1, <3>3 DEF BumpEpoch, WasmInv, SlotInv, SlotEnded, Running
    <3> QED
      BY <3>2, <3>3
  <2> QED
    BY <1>1, <2>1 DEF BumpEpoch, WasmInv
<1>2. CASE UNCHANGED wasmVars
  BY <1>2 DEF wasmVars, WasmInv, Running, UnderWay, Spent, SlotInv, SlotEnded
<1> QED
  BY <1>1, <1>2, ExecuteKeeps, ProceedKeeps DEF WasmNext

(***************************************************************************)
(* For any guests, fuel, number of executions at a time and texts of traps:*)
(* an execution is trapped for its epoch only if a bump came while it ran, *)
(* and does nothing after one; out of fuel only if it had more to do than  *)
(* its fuel pays for; and is answered as returned only if the guest did    *)
(* (sandbox-wasm 116-195).                                                 *)
(***************************************************************************)
THEOREM TrapsDeserved == ServicesSpec => []TrapsAreDeserved
<1>1. ServicesInit => WasmInv
  BY WasmStart DEF ServicesInit
<1>2. WasmInv /\ [ServicesNext]_servicesVars => WasmInv'
  BY WasmKept DEF ServicesNext, servicesVars, RouterStep, TasksStep, MemoryStep,
                  PluginsStep, VaultStep, WasmStep, FilesStep, LimiterStep
<1> QED
  BY <1>1, <1>2, WasmBound, PTL DEF ServicesSpec

-----------------------------------------------------------------------------
(* File reads *)

Files == [kind : {"file", "dir", "missing"}, bytes : Seq(Bytes)]

Readings == [pc : {"idle", "resolved", "measured"}, limit : Nat, size : Nat]

(* While a read is under way there is no answer yet. *)
FilesInv ==
    /\ file \in Files
    /\ reading \in Readings
    /\ reading.pc # "idle" => reply.says = "nothing" /\ counted = "none"
    /\ AnswerIsOfTheFile

LEMMA FilesStart == FilesInit => FilesInv
BY DEF FilesInit, FilesInv, Files, Readings, NoReply, AnswerIsOfTheFile

LEMMA TextIsByByte ==
    ASSUME NEW bytes, NEW n \in Nat
    PROVE  /\ Len(Lossy(bytes, n)) = n
           /\ \A i \in 1 .. n : Lossy(bytes, n)[i] = Decoded(bytes, n, i)
BY DEF Lossy

(* A cut changes at most the byte before it: a lead byte left alone.       *)
LEMMA CutShowsTheFile ==
    ASSUME NEW bytes \in Seq(Bytes), NEW n \in Nat, n <= Len(bytes), NEW i \in 1 .. n
    PROVE  \/ Decoded(bytes, n, i) = Decoded(bytes, Len(bytes), i)
           \/ i = n /\ n < Len(bytes) /\ Decoded(bytes, n, i) = "U+FFFD"
<1>1. bytes[i] \in {"a", "L", "C"} /\ Len(bytes) \in Nat
  BY DEF Bytes
<1>2. CASE bytes[i] # "L"
  BY <1>1, <1>2 DEF Decoded
<1>3. CASE bytes[i] = "L"
  <2>1. \A m \in Nat : Decoded(bytes, m, i) =
            IF i < m /\ bytes[i + 1] = "C" THEN "char" ELSE "U+FFFD"
    BY <1>3 DEF Decoded
  <2> QED
    BY <1>1, <2>1
<1> QED
  BY <1>2, <1>3

LEMMA FailingKeeps ==
    ASSUME FilesInv, Failing, UNCHANGED file PROVE FilesInv'
<1>1. reading' \in Readings /\ reading'.pc = "idle"
  BY DEF FilesInv, Failing, Readings
<1>2. reply'.says = "error" /\ counted' = "error"
  BY DEF Failing, NoReply
<1> QED
  BY <1>1, <1>2 DEF FilesInv, AnswerIsOfTheFile

LEMMA ReadKeeps ==
    ASSUME FilesInv, ReadContent PROVE FilesInv'
<1>1. CASE file.kind # "file"
  BY <1>1, FailingKeeps DEF ReadContent
<1>2. CASE file.kind = "file"
  <2> DEFINE bytes == file.bytes
             cut == Truncated(Len(bytes))
             n == IF cut THEN BytesToRead ELSE Len(bytes)
             text == Lossy(bytes, n)
             notice == IF cut THEN << BytesToRead, reading.size >> ELSE NoNotice
  <2>1. /\ bytes \in Seq(Bytes) /\ Len(bytes) \in Nat
        /\ BytesToRead \in Nat /\ BytesToRead <= reading.limit /\ reading.limit \in Nat
    BY DEF FilesInv, Files, Readings, BytesToRead
  <2>2. /\ reply' = [says |-> "text", text |-> text, notice |-> notice]
        /\ reading' = [reading EXCEPT !.pc = "idle"]
        /\ seen' = bytes /\ counted' = "ok" /\ file' = file
    BY <1>2 DEF ReadContent
  <2>3. cut <=> Len(bytes) > BytesToRead
    BY DEF Truncated
  <2>4. /\ n \in Nat /\ n <= reading.limit /\ n <= Len(bytes)
        /\ n = Len(bytes) <=> ~cut
    BY <2>1, <2>3
  <2>5. IF n = Len(bytes) THEN notice = NoNotice
                          ELSE notice # NoNotice /\ notice[1] = n
    BY <2>4 DEF NoNotice
  <2>6. reading' \in Readings /\ reading'.pc = "idle" /\ reading'.limit = reading.limit
    BY <2>2 DEF FilesInv, Readings
  <2>7. Len(text) = n /\ \A i \in 1 .. n :
            \/ text[i] = Decoded(bytes, Len(bytes), i)
            \/ i = n /\ n < Len(bytes) /\ text[i] = "U+FFFD"
    BY <2>1, <2>4, TextIsByByte, CutShowsTheFile
  <2> HIDE DEF bytes, n, text, notice
  <2>8. AnswerIsOfTheFile'
    BY <2>2, <2>4, <2>5, <2>6, <2>7 DEF AnswerIsOfTheFile
  <2> QED
    BY <2>2, <2>6, <2>8 DEF FilesInv
<1> QED
  BY <1>1, <1>2

LEMMA FilesKept == FilesInv /\ [FilesNext]_fileVars => FilesInv'
<1> SUFFICES ASSUME FilesInv, [FilesNext]_fileVars PROVE FilesInv'
  OBVIOUS
<1>1. CASE FileChanges
  <2>1. file' \in Files
    <3>1. ASSUME NEW b \in Bytes, file' = [file EXCEPT !.bytes = Append(@, b)]
          PROVE  file' \in Files
      <4>1. file.bytes \in Seq(Bytes)
        BY DEF FilesInv, Files
      <4>2. Append(file.bytes, b) \in Seq(Bytes)
        BY <4>1
      <4> QED
        BY <3>1, <4>2 DEF FilesInv, Files
    <3>2. ASSUME NEW kind \in {"file", "dir", "missing"}, file' = [kind |-> kind, bytes |-> << >>]
          PROVE  file' \in Files
      BY <3>2 DEF Files
    <3> QED
      BY <1>1, <3>1, <3>2 DEF FileChanges
  <2> QED
    BY <1>1, <2>1 DEF FileChanges, FilesInv, AnswerIsOfTheFile
<1>2. ASSUME NEW absolute \in BOOLEAN, NEW limit \in Limits, BeginRead(absolute, limit)
      PROVE  FilesInv'
  <2>1. CASE absolute /\ file.kind # "missing"
    BY <1>2, <2>1, FilesAssumption
       DEF BeginRead, FilesInv, Readings, NoReply, AnswerIsOfTheFile
  <2>2. CASE ~(absolute /\ file.kind # "missing")
    BY <1>2, <2>2, FailingKeeps DEF BeginRead
  <2> QED
    BY <2>1, <2>2
<1>3. CASE Measure
  <2>1. CASE file.kind = "file"
    <3>1. reading' = [reading EXCEPT !.pc = "measured", !.size = Len(file.bytes)]
          /\ reading.pc # "idle" /\ UNCHANGED << file, reply, seen, counted >>
      BY <1>3, <2>1 DEF Measure
    <3>2. Len(file.bytes) \in Nat
      BY DEF FilesInv, Files
    <3>3. reading' \in Readings /\ reading'.pc = "measured"
      BY <3>1, <3>2 DEF FilesInv, Readings
    <3> QED
      BY <3>1, <3>3 DEF FilesInv, AnswerIsOfTheFile
  <2>2. CASE file.kind # "file"
    BY <1>3, <2>2, FailingKeeps DEF Measure
  <2> QED
    BY <2>1, <2>2
<1>4. CASE UNCHANGED fileVars
  BY <1>4 DEF fileVars, FilesInv, AnswerIsOfTheFile
<1> QED
  BY <1>1, <1>2, <1>3, <1>4, ReadKeeps DEF FilesNext

(***************************************************************************)
(* Whatever others do to the file between the look at its size and the     *)
(* read, and whatever its bytes: the text stands for no more of them than  *)
(* the client's limit, with the notice exactly if some are left out, and   *)
(* shows them as the whole file would, up to a character cut at its end    *)
(* (mcp/tools.rs 34-78, 203-241).                                          *)
(***************************************************************************)
THEOREM AnswersAreOfTheFile == ServicesSpec => []AnswerIsOfTheFile
<1>1. ServicesInit => FilesInv
  BY FilesStart DEF ServicesInit
<1>2. FilesInv /\ [ServicesNext]_servicesVars => FilesInv'
  BY FilesKept DEF ServicesNext, servicesVars, RouterStep, TasksStep, MemoryStep,
                   PluginsStep, VaultStep, WasmStep, FilesStep, LimiterStep
<1>3. FilesInv => AnswerIsOfTheFile
  BY DEF FilesInv
<1> QED
  BY <1>1, <1>2, <1>3, PTL DEF ServicesSpec

-----------------------------------------------------------------------------
(* The A2A router *)

Cards == [level : Levels, version : Versions]

Envelopes == [recipient : Names, required : Levels, version : Versions,
              card : Cards \cup {NoCard}]

RouterInv ==
    /\ registry \in [Names -> Cards \cup {NoCard}]
    /\ inFlight \subseteq Envelopes

LEMMA RouterKept == RouterInv /\ [RouterNext]_routerVars => RouterInv'
<1> SUFFICES ASSUME RouterInv, [RouterNext]_routerVars PROVE RouterInv'
  OBVIOUS
<1>1. ASSUME NEW n \in Names, Unregister(n) PROVE RouterInv'
  BY <1>1 DEF Unregister, RouterInv
<1>2. ASSUME NEW n \in Names, NEW l \in Levels, NEW v \in Versions, Register(n, l, v)
      PROVE  RouterInv'
  BY <1>2 DEF Register, RouterInv, CardOf, Cards
<1>3. ASSUME NEW from \in Names, NEW to \in Names, NEW r \in Levels,
             NEW v \in Versions, NEW c \in BOOLEAN, SendEnvelope(from, to, r, v, c)
      PROVE  RouterInv'
  <2> DEFINE e == [recipient |-> to, required |-> r, version |-> v,
                   card |-> IF c THEN registry[from] ELSE NoCard]
  <2>1. e \in Envelopes
    BY DEF RouterInv, Envelopes
  <2> QED
    BY <1>3, <2>1 DEF SendEnvelope, RouterInv
<1>4. ASSUME NEW e \in inFlight, RouteMessage(e) PROVE RouterInv'
  BY <1>4 DEF RouteMessage, RouterInv
<1>5. CASE UNCHANGED routerVars
  BY <1>5 DEF routerVars, RouterInv
<1> QED
  BY <1>1, <1>2, <1>3, <1>4, <1>5 DEF RouterNext

(* Raising the level of the card in an envelope keeps it routed. *)
LEMMA MoreTrustRoutes ==
    ASSUME RouterInv, NEW e \in Envelopes, e.card # NoCard, RouteAnswer(e) = "Routed",
           NEW l \in e.card.level .. 4
    PROVE  RouteAnswer([e EXCEPT !.card.level = l]) = "Routed"
<1> DEFINE raised == [e EXCEPT !.card.level = l]
<1>1. e.card \in Cards /\ e.card.level \in Int /\ e.required \in Int /\ l \in Int
  BY DEF Envelopes, Cards, Levels
<1>2. /\ raised.recipient = e.recipient /\ raised.required = e.required
      /\ raised.version = e.version /\ raised.card.level = l
      /\ raised.card.version = e.card.version
  BY <1>1 DEF Envelopes, Cards
<1>3. /\ registry[e.recipient] # NoCard
      /\ e.version = OwnVersion /\ e.card.version = registry[e.recipient].version
      /\ VerifyTrust(e) /\ CanInitiate(e.card.level)
  BY DEF RouteAnswer
<1>4. VerifyTrust(raised) /\ CanInitiate(raised.card.level)
  BY <1>1, <1>2, <1>3 DEF VerifyTrust, CanInitiate, Standard
<1> QED
  BY <1>2, <1>3, <1>4 DEF RouteAnswer

LEMMA RouterTrust == RouterInv => TrustIsMonotone
<1> SUFFICES ASSUME RouterInv PROVE TrustIsMonotone
  OBVIOUS
<1>1. \A e \in inFlight : e.card # NoCard =>
        \A l \in e.card.level .. 4 :
            RouteAnswer(e) = "Routed" => RouteAnswer([e EXCEPT !.card.level = l]) = "Routed"
  BY MoreTrustRoutes DEF RouterInv
<1>2. ASSUME NEW l \in Levels \ {0}, NEW n \in AgentsAtTrustLevel(l)
      PROVE  n \in AgentsAtTrustLevel(l - 1)
  <2>1. n \in Names /\ registry[n] \in Cards /\ registry[n].level >= l
    BY DEF AgentsAtTrustLevel, Known, RouterInv
  <2>2. registry[n].level >= l - 1
    BY <2>1 DEF Cards, Levels
  <2> QED
    BY <2>2 DEF AgentsAtTrustLevel
<1> QED
  BY <1>1, <1>2 DEF TrustIsMonotone

(***************************************************************************)
(* For any registry and any envelopes under way, stale cards included, more*)
(* trust never routes or lists less (a2a/lib.rs 279-323).                  *)
(***************************************************************************)
THEOREM TrustNeverHurts == ServicesSpec => []TrustIsMonotone
<1>1. ServicesInit => RouterInv
  BY DEF ServicesInit, RouterInit, RouterInv
<1>2. RouterInv /\ [ServicesNext]_servicesVars => RouterInv'
  BY RouterKept DEF ServicesNext, servicesVars, RouterStep, TasksStep, MemoryStep,
                    PluginsStep, VaultStep, WasmStep, FilesStep, LimiterStep
<1> QED
  BY <1>1, <1>2, RouterTrust, PTL DEF ServicesSpec

-----------------------------------------------------------------------------
(* Plugins *)

(* The manifests there are, in the file or with the loader: each carries a *)
(* signature that somebody made for the release it names.                  *)
Genuine(m) == << m.signature.signer, m.signature.hash >> \in signed

PluginsInv ==
    /\ manifest # Nothing => Genuine(manifest)
    /\ DOMAIN held = {"manifest", "binary"}
    /\ held.manifest # Nothing => Genuine(held.manifest)
    /\ LoadedAsSigned

LEMMA PluginsStart == PluginsInit => PluginsInv
BY DEF PluginsInit, NothingHeld, PluginsInv, LoadedAsSigned

LEMMA LoadingKeepsPlugins ==
    ASSUME PluginsInv, LoadPlugin PROVE PluginsInv'
<1> DEFINE m == held.manifest
           k == m.signer
<1>1. /\ Genuine(m) /\ k \in trustedKeys /\ held.binary = m.hash
      /\ m.signature = [key |-> k, signer |-> k, hash |-> m.hash]
  BY DEF LoadPlugin, PluginsInv, VerifyPlugin, VerifyManifest
<1>2. << k, held.binary >> \in signed
  BY <1>1 DEF Genuine
<1>3. LoadedAsSigned'
  BY <1>1, <1>2 DEF LoadPlugin, LoadedAsSigned
<1>4. /\ held'.manifest = Nothing /\ DOMAIN held' = {"manifest", "binary"}
      /\ UNCHANGED << manifest, signed >>
  BY DEF LoadPlugin, NothingHeld
<1> QED
  BY <1>3, <1>4 DEF PluginsInv, Genuine

LEMMA PluginsKept == PluginsInv /\ [PluginsNext]_pluginVars => PluginsInv'
<1> SUFFICES ASSUME PluginsInv, [PluginsNext]_pluginVars PROVE PluginsInv'
  OBVIOUS
<1>1. ASSUME NEW k, AddKey(k) PROVE PluginsInv'
  BY <1>1 DEF AddKey, PluginsInv, LoadedAsSigned, Genuine
<1>2. ASSUME NEW k, NEW r, PublishManifest(k, r) PROVE PluginsInv'
  <2>1. /\ manifest'.signature = [key |-> k, signer |-> k, hash |-> r]
        /\ signed' = signed \cup {<< k, r >>} /\ UNCHANGED << trustedKeys, held, loaded >>
    BY <1>2 DEF PublishManifest, SignedManifest
  <2>2. Genuine(manifest)'
    BY <2>1 DEF Genuine
  <2>3. (held.manifest # Nothing => Genuine(held.manifest))'
    BY <2>1 DEF PluginsInv, Genuine
  <2>4. LoadedAsSigned'
    BY <2>1 DEF PluginsInv, LoadedAsSigned
  <2> QED
    BY <2>1, <2>2, <2>3, <2>4 DEF PluginsInv
<1>3. ASSUME NEW k, NEW r, EditManifest(k, r) PROVE PluginsInv'
  <2>1. /\ manifest # Nothing /\ manifest'.signature = manifest.signature
        /\ UNCHANGED << trustedKeys, held, loaded, signed >>
    BY <1>3 DEF EditManifest
  <2> QED
    BY <2>1 DEF PluginsInv, Genuine, LoadedAsSigned
<1>4. ASSUME NEW r, PublishBinary(r) PROVE PluginsInv'
  BY <1>4 DEF PublishBinary, PluginsInv, Genuine, LoadedAsSigned
<1>5. CASE ReadManifest \/ ReadBinary
  <2>1. /\ held'.manifest = manifest \/ held'.manifest = held.manifest
        /\ DOMAIN held' = DOMAIN held
        /\ UNCHANGED << trustedKeys, manifest, loaded, signed >>
    BY <1>5 DEF ReadManifest, ReadBinary, PluginsInv
  <2> QED
    BY <2>1 DEF PluginsInv, Genuine, LoadedAsSigned
<1>6. CASE UNCHANGED pluginVars
  BY <1>6 DEF pluginVars, PluginsInv, Genuine, LoadedAsSigned
<1> QED
  BY <1>1, <1>2, <1>3, <1>4, <1>5, <1>6, LoadingKeepsPlugins DEF PluginsNext

(***************************************************************************)
(* For any keys and releases, and whatever is published, edited and trusted*)
(* between the loader's two reads and its verification: a release that is  *)
(* loaded is one for which somebody with a trusted key signed a manifest   *)
(* (plugin/lib.rs 109-174).                                                *)
(***************************************************************************)
THEOREM LoadsAreSigned == ServicesSpec => []LoadedAsSigned
<1>1. ServicesInit => PluginsInv
  BY PluginsStart DEF ServicesInit
<1>2. PluginsInv /\ [ServicesNext]_servicesVars => PluginsInv'
  BY PluginsKept DEF ServicesNext, servicesVars, RouterStep, TasksStep, MemoryStep,
                     PluginsStep, VaultStep, WasmStep, FilesStep, LimiterStep
<1>3. PluginsInv => LoadedAsSigned
  BY DEF PluginsInv
<1> QED
  BY <1>1, <1>2, <1>3, PTL DEF ServicesSpec

-----------------------------------------------------------------------------
(* The vault *)

Credentials == [name : CredentialNames, secret : Secrets]

VaultInv == credentials \in Seq(Credentials)

LEMMA VaultKept == VaultInv /\ [VaultNext]_credentials => VaultInv'
<1> SUFFICES ASSUME VaultInv, [VaultNext]_credentials PROVE VaultInv'
  OBVIOUS
<1>1. ASSUME NEW n \in CredentialNames, NEW secret \in Secrets, Store(n, secret)
      PROVE  VaultInv'
  <2>1. [name |-> n, secret |-> secret] \in Credentials
    BY DEF Credentials
  <2> QED
    BY <1>1, <2>1 DEF Store, VaultInv
<1>2. ASSUME NEW n \in CredentialNames, RemoveCredential(n) PROVE VaultInv'
  BY <1>2, FilterSelects DEF RemoveCredential, WithoutName, VaultInv
<1> QED
  BY <1>1, <1>2 DEF VaultNext, VaultInv

(* First is the first place a name is stored at. *)
LEMMA FirstIsFirst ==
    ASSUME NEW T, T \subseteq Nat, NEW i \in T, \A j \in T : i <= j
    PROVE  First(T) = i
<1>1. First(T) \in T /\ \A j \in T : First(T) <= j
  BY DEF First
<1>2. First(T) \in Nat /\ i \in Nat /\ First(T) <= i /\ i <= First(T)
  BY <1>1
<1> QED
  BY <1>2

(* Removing one name leaves the others where they stand to each other. *)
LEMMA RemovalKeepsOthers ==
    ASSUME VaultInv, NEW n \in CredentialNames, RemoveCredential(n)
    PROVE  /\ GetSecret(n)' = NoSecret
           /\ \A m \in CredentialNames \ {n} : GetSecret(m)' = GetSecret(m)
<1> DEFINE keep == { c \in ToSet(credentials) : c.name # n }
           after == credentials'
<1>1. /\ credentials \in Seq(Credentials) /\ after = Filter(credentials, keep)
      /\ after \in Seq(Credentials)
  BY FilterSelects DEF VaultInv, RemoveCredential, WithoutName
<1>2. PICK place : Selects(place, after, credentials, keep, Len(credentials))
  BY <1>1, FilterSelects
<1>3. /\ DOMAIN credentials = 1 .. Len(credentials) /\ Len(credentials) \in Nat
      /\ DOMAIN after = 1 .. Len(after) /\ Len(after) \in Nat
      /\ \A m : Places(m)' = { i \in DOMAIN after : after[i].name = m }
      /\ \A m : Places(m) = { j \in DOMAIN credentials : credentials[j].name = m }
  BY <1>1 DEF Places
<1>4. \A j \in DOMAIN credentials : credentials[j] \in keep <=> credentials[j].name # n
  BY DEF ToSet
<1> HIDE DEF keep, after
<1>5. /\ \A i \in DOMAIN after : /\ place[i] \in DOMAIN credentials
                                 /\ after[i] = credentials[place[i]] /\ after[i] \in keep
      /\ \A i, j \in DOMAIN after : i < j => place[i] < place[j]
      /\ \A j \in DOMAIN credentials : credentials[j] \in keep =>
            \E i \in DOMAIN after : place[i] = j
  BY <1>2, <1>3 DEF Selects
<1>6. Places(n)' = {}
  BY <1>3, <1>4, <1>5
<1>7. ASSUME NEW m \in CredentialNames \ {n} PROVE GetSecret(m)' = GetSecret(m)
  <2>1. \A i \in Places(m)' : place[i] \in Places(m)
    BY <1>3, <1>5
  <2>2. CASE Places(m) = {}
    BY <2>1, <2>2 DEF GetSecret
  <2>3. CASE Places(m) # {}
    <3>1. PICK first \in Places(m) : \A j \in Places(m) : first <= j
      <4>1. Places(m) \subseteq Nat
        BY <1>3
      <4> QED
        BY <2>3, <4>1, LeastNatural
    <3>2. PICK i \in DOMAIN after : place[i] = first
      BY <1>3, <1>4, <1>5, <3>1
    <3>3. i \in Places(m)' /\ after[i] = credentials[first]
      BY <1>3, <1>5, <3>1, <3>2
    <3>4. ASSUME NEW j \in Places(m)' PROVE i <= j
      <4>1. j \in Nat /\ i \in Nat /\ place[j] \in Nat /\ first \in Nat
        BY <1>3, <1>5, <3>1, <3>2
      <4>2. ~ (j < i)
        BY <1>3, <1>5, <2>1, <3>1, <3>2, <4>1
      <4> QED
        BY <4>1, <4>2
    <3>5. Places(m) \subseteq Nat /\ Places(m)' \subseteq Nat
      BY <1>3
    <3>6. First(Places(m)) = first /\ First(Places(m)') = i
      BY <3>1, <3>3, <3>4, <3>5, FirstIsFirst
    <3>7. GetSecret(m) = credentials[first].secret
      BY <2>3, <3>6 DEF GetSecret
    <3>8. GetSecret(m)' = after[i].secret
      <4>1. Places(m)' # {}
        BY <3>3
      <4>2. First(Places(m))' = i
        BY <3>6 DEF First
      <4> QED
        BY <4>1, <4>2 DEF GetSecret, after
    <3> QED
      BY <3>3, <3>7, <3>8
  <2> QED
    BY <2>2, <2>3
<1>8. GetSecret(n)' = NoSecret
  BY <1>6 DEF GetSecret
<1> QED
  BY <1>7, <1>8

(***************************************************************************)
(* For lists of every length, with a name stored any number of times: one  *)
(* removal leaves nothing of the name, and what get answers for the others *)
(* stays (security/lib.rs, Vec::retain in remove).                         *)
(***************************************************************************)
THEOREM RemovalsAreComplete == ServicesSpec => RemovalIsComplete
<1>1. ServicesInit => VaultInv
  BY DEF ServicesInit, VaultInit, VaultInv
<1>2. VaultInv /\ [ServicesNext]_servicesVars => VaultInv'
  BY VaultKept DEF ServicesNext, servicesVars, RouterStep, TasksStep, MemoryStep,
                   PluginsStep, VaultStep, WasmStep, FilesStep, LimiterStep, VaultInv
<1>3. VaultInv => \A n \in CredentialNames : RemoveCredential(n) =>
          /\ GetSecret(n)' = NoSecret
          /\ \A m \in CredentialNames \ {n} : GetSecret(m)' = GetSecret(m)
  BY RemovalKeepsOthers
<1> QED
  BY <1>1, <1>2, <1>3, PTL DEF ServicesSpec, RemovalIsComplete

-----------------------------------------------------------------------------
(* Memory *)

MemoryInv ==
    /\ \A e \in episodes \cup pending : e.at \in Instants
    /\ \A s \in summaries : s.at \in Instants

LEMMA MemoryKept == MemoryInv /\ [MemoryNext]_memoryVars => MemoryInv'
BY DEF MemoryInv, MemoryNext, memoryVars, BeginRecord, InsertEpisode, RecordFails,
       ClearMemory, HasRows, SemanticNext, StoreSummary, StoreEmbedding, StoreConcepts

(* The three groups of digits, and how many of them are written. *)
Groups(t) ==
    IF t[4] # 0 THEN 3 ELSE IF t[3] # 0 THEN 2 ELSE IF t[2] # 0 THEN 1 ELSE 0

LEMMA FractionForm ==
    ASSUME NEW t \in Nat \X Nat \X Nat \X Nat
    PROVE  LET f == Fraction(t)
               n == Groups(t)
           IN  /\ f \in Seq(Int)
               /\ n \in 0 .. 3
               /\ Len(f) = IF n = 0 THEN 0 ELSE n + 1
               /\ n >= 1 => f[1] = Dot /\ f[2] = t[2]
               /\ n >= 2 => f[3] = t[3]
               /\ n = 3 => f[4] = t[4]
<1>0. t[2] \in Int /\ t[3] \in Int /\ t[4] \in Int /\ Dot \in Int
  BY DEF Dot
<1>1. CASE t[4] # 0
  <2>1. Fraction(t) = << Dot, t[2], t[3], t[4] >> /\ Groups(t) = 3
    BY <1>1 DEF Fraction, Groups
  <2> QED BY <1>0, <2>1
<1>2. CASE t[4] = 0 /\ t[3] # 0
  <2>1. Fraction(t) = << Dot, t[2], t[3] >> /\ Groups(t) = 2
    BY <1>2 DEF Fraction, Groups
  <2> QED BY <1>0, <2>1
<1>3. CASE t[4] = 0 /\ t[3] = 0 /\ t[2] # 0
  <2>1. Fraction(t) = << Dot, t[2] >> /\ Groups(t) = 1
    BY <1>3 DEF Fraction, Groups
  <2> QED BY <1>0, <2>1
<1>4. CASE t[4] = 0 /\ t[3] = 0 /\ t[2] = 0
  <2>1. Fraction(t) = << >> /\ Groups(t) = 0
    BY <1>4 DEF Fraction, Groups
  <2> QED BY <2>1
<1> QED BY <1>1, <1>2, <1>3, <1>4

(* The text, sign by sign: the offset follows the last group.              *)
LEMMA TextForm ==
    ASSUME NEW t \in Nat \X Nat \X Nat \X Nat
    PROVE  LET x == Rfc3339(t)
               n == Groups(t)
           IN  /\ n \in 0 .. 3
               /\ DOMAIN x = 1 .. (IF n = 0 THEN 2 ELSE n + 3)
               /\ x[1] = t[1]
               /\ n = 0 => x[2] = Plus
               /\ n >= 1 => x[2] = Dot /\ x[3] = t[2]
               /\ n = 1 => x[4] = Plus
               /\ n >= 2 => x[4] = t[3]
               /\ n = 2 => x[5] = Plus
               /\ n = 3 => x[5] = t[4] /\ x[6] = Plus
<1> DEFINE f == Fraction(t)
           n == Groups(t)
           x == << t[1] >> \o f \o << Plus >>
<1>1. /\ f \in Seq(Int) /\ n \in 0 .. 3 /\ Len(f) = (IF n = 0 THEN 0 ELSE n + 1)
      /\ n >= 1 => f[1] = Dot /\ f[2] = t[2]
      /\ n >= 2 => f[3] = t[3]
      /\ n = 3 => f[4] = t[4]
  BY FractionForm
<1>2. t[1] \in Int /\ Plus \in Int
  BY DEF Plus
<1> HIDE DEF f, n
<1>3. /\ x \in Seq(Int) /\ Len(x) = Len(f) + 2 /\ x[1] = t[1] /\ x[Len(f) + 2] = Plus
      /\ \A i \in 1 .. Len(f) : x[i + 1] = f[i]
  <2> DEFINE A == << t[1] >>
             Z == << Plus >>
  <2>1. A \in Seq(Int) /\ Z \in Seq(Int) /\ Len(A) = 1 /\ Len(Z) = 1 /\ A[1] = t[1] /\ Z[1] = Plus
    BY <1>2
  <2>2. x = Between(A, f, Z)
    BY DEF Between
  <2> HIDE DEF x, A, Z
  <2>3. x \in Seq(Int) /\ Len(x) = Len(f) + 2
    BY <1>1, <2>1, <2>2, Around
  <2>4. x[1] = A[1] /\ x[Len(f) + 2] = Z[1]
    BY <1>1, <2>1, <2>2, Around
  <2>5. \A i \in 1 .. Len(f) : x[i + 1] = f[i]
    <3>1. \A i \in 1 .. Len(f) : Between(A, f, Z)[i + 1] = f[i]
      BY <1>1, <2>1, Around
    <3> QED BY <2>2, <3>1, Zenon
  <2> QED BY <2>1, <2>3, <2>4, <2>5
<1> HIDE DEF x
<1>4. /\ n >= 1 => x[2] = Dot /\ x[3] = t[2]
      /\ n >= 2 => x[4] = t[3]
      /\ n = 3 => x[5] = t[4]
  <2>1. ASSUME NEW i \in Nat \ {0}, n + 1 >= i, n # 0 PROVE x[i + 1] = f[i]
    <3>1. i \in 1 .. Len(f)
      BY <1>1, <2>1
    <3> QED BY <1>3, <3>1
  <2>2. CASE n = 0
    BY <2>2
  <2>3. CASE n = 1
    BY <1>1, <2>1, <2>3
  <2>4. CASE n = 2
    BY <1>1, <2>1, <2>4
  <2>5. CASE n = 3
    BY <1>1, <2>1, <2>5
  <2> QED BY <1>1, <2>2, <2>3, <2>4, <2>5
<1>5. DOMAIN x = 1 .. (IF n = 0 THEN 2 ELSE n + 3)
  <2>1. DOMAIN x = 1 .. Len(x)
    BY <1>3
  <2>2. Len(x) = IF n = 0 THEN 2 ELSE n + 3
    BY <1>1, <1>3
  <2> QED BY <2>1, <2>2
<1>6. /\ n = 0 => x[2] = Plus
      /\ n = 1 => x[4] = Plus
      /\ n = 2 => x[5] = Plus
      /\ n = 3 => x[6] = Plus
  <2>1. /\ n = 0 => Len(f) + 2 = 2
        /\ n = 1 => Len(f) + 2 = 4
        /\ n = 2 => Len(f) + 2 = 5
        /\ n = 3 => Len(f) + 2 = 6
    BY <1>1
  <2> QED BY <1>3, <2>1
<1>7. Rfc3339(t) = x
  BY DEF Rfc3339, f, x
<1> QED BY <1>1, <1>3, <1>4, <1>5, <1>6, <1>7 DEF n

(* The two orders, spelt out.                                              *)
LEMMA BeforeSpelt ==
    ASSUME NEW s \in Nat \X Nat \X Nat \X Nat, NEW t \in Nat \X Nat \X Nat \X Nat
    PROVE  Before(s, t) <=>
             \/ s[1] < t[1]
             \/ s[1] = t[1] /\ s[2] < t[2]
             \/ s[1] = t[1] /\ s[2] = t[2] /\ s[3] < t[3]
             \/ s[1] = t[1] /\ s[2] = t[2] /\ s[3] = t[3] /\ s[4] < t[4]
<1>1. Before(s, t) <=>
        \/ s[1] < t[1] /\ \A j \in 1 .. 1 - 1 : s[j] = t[j]
        \/ s[2] < t[2] /\ \A j \in 1 .. 2 - 1 : s[j] = t[j]
        \/ s[3] < t[3] /\ \A j \in 1 .. 3 - 1 : s[j] = t[j]
        \/ s[4] < t[4] /\ \A j \in 1 .. 4 - 1 : s[j] = t[j]
  <2>1. 1 .. 4 = {1, 2, 3, 4}
    OBVIOUS
  <2> QED BY <2>1, Zenon DEF Before
<1>2. 1 .. 1 - 1 = {} /\ 1 .. 2 - 1 = {1} /\ 1 .. 3 - 1 = {1, 2} /\ 1 .. 4 - 1 = {1, 2, 3}
  OBVIOUS
<1> QED BY <1>1, <1>2

LEMMA TextBeforeSpelt ==
    ASSUME NEW x, NEW y, NEW c \in 2 .. 6, DOMAIN x \cap DOMAIN y = 1 .. c
    PROVE  TextBefore(x, y) <=>
             \/ x[1] < y[1]
             \/ x[1] = y[1] /\ x[2] < y[2]
             \/ c >= 3 /\ x[1] = y[1] /\ x[2] = y[2] /\ x[3] < y[3]
             \/ c >= 4 /\ x[1] = y[1] /\ x[2] = y[2] /\ x[3] = y[3] /\ x[4] < y[4]
             \/ /\ c >= 5 /\ x[1] = y[1] /\ x[2] = y[2] /\ x[3] = y[3] /\ x[4] = y[4]
                /\ x[5] < y[5]
             \/ /\ c >= 6 /\ x[1] = y[1] /\ x[2] = y[2] /\ x[3] = y[3] /\ x[4] = y[4]
                /\ x[5] = y[5] /\ x[6] < y[6]
<1> DEFINE FirstDiff(i) == x[i] < y[i] /\ \A j \in 1 .. i - 1 : x[j] = y[j]
<1>1. TextBefore(x, y) <=> \E i \in 1 .. c : FirstDiff(i)
  BY DEF TextBefore
<1>2. (\E i \in 1 .. c : FirstDiff(i)) <=>
          \E i \in {1, 2, 3, 4, 5, 6} : i <= c /\ FirstDiff(i)
  <2> HIDE DEF FirstDiff
  <2>1. \A i : i \in 1 .. c <=> i \in {1, 2, 3, 4, 5, 6} /\ i <= c
    OBVIOUS
  <2> QED BY <2>1
<1>3. (\E i \in {1, 2, 3, 4, 5, 6} : i <= c /\ FirstDiff(i)) <=>
          \/ 1 <= c /\ FirstDiff(1)
          \/ 2 <= c /\ FirstDiff(2)
          \/ 3 <= c /\ FirstDiff(3)
          \/ 4 <= c /\ FirstDiff(4)
          \/ 5 <= c /\ FirstDiff(5)
          \/ 6 <= c /\ FirstDiff(6)
  <2> HIDE DEF FirstDiff
  <2> QED BY Zenon
<1>4. /\ 1 .. 1 - 1 = {} /\ 1 .. 2 - 1 = {1} /\ 1 .. 3 - 1 = {1, 2}
      /\ 1 .. 4 - 1 = {1, 2, 3} /\ 1 .. 5 - 1 = {1, 2, 3, 4} /\ 1 .. 6 - 1 = {1, 2, 3, 4, 5}
  OBVIOUS
<1>5. /\ FirstDiff(1) <=> x[1] < y[1]
      /\ FirstDiff(2) <=> x[1] = y[1] /\ x[2] < y[2]
      /\ FirstDiff(3) <=> x[1] = y[1] /\ x[2] = y[2] /\ x[3] < y[3]
      /\ FirstDiff(4) <=> x[1] = y[1] /\ x[2] = y[2] /\ x[3] = y[3] /\ x[4] < y[4]
      /\ FirstDiff(5) <=> x[1] = y[1] /\ x[2] = y[2] /\ x[3] = y[3] /\ x[4] = y[4] /\ x[5] < y[5]
      /\ FirstDiff(6) <=> /\ x[1] = y[1] /\ x[2] = y[2] /\ x[3] = y[3] /\ x[4] = y[4]
                      /\ x[5] = y[5] /\ x[6] < y[6]
  BY <1>4
<1>6. 1 <= c /\ 2 <= c /\ (3 <= c <=> c >= 3) /\ (4 <= c <=> c >= 4)
      /\ (5 <= c <=> c >= 5) /\ (6 <= c <=> c >= 6)
  OBVIOUS
<1> HIDE DEF FirstDiff
<1> QED BY <1>1, <1>2, <1>3, <1>5, <1>6

(* The order of the texts is the order of the instants.                    *)
LEMMA TextsFollowInstants ==
    ASSUME NEW s \in Nat \X Nat \X Nat \X Nat, NEW t \in Nat \X Nat \X Nat \X Nat
    PROVE  TextBefore(Rfc3339(s), Rfc3339(t)) <=> Before(s, t)
<1> DEFINE x == Rfc3339(s)
           y == Rfc3339(t)
           m == Groups(s)
           n == Groups(t)
           lx == IF m = 0 THEN 2 ELSE m + 3
           ly == IF n = 0 THEN 2 ELSE n + 3
           c == IF lx <= ly THEN lx ELSE ly
<1>1. /\ m \in 0 .. 3 /\ DOMAIN x = 1 .. lx /\ x[1] = s[1]
      /\ m = 0 => x[2] = Plus
      /\ m >= 1 => x[2] = Dot /\ x[3] = s[2]
      /\ m = 1 => x[4] = Plus
      /\ m >= 2 => x[4] = s[3]
      /\ m = 2 => x[5] = Plus
      /\ m = 3 => x[5] = s[4] /\ x[6] = Plus
  BY TextForm
<1>2. /\ n \in 0 .. 3 /\ DOMAIN y = 1 .. ly /\ y[1] = t[1]
      /\ n = 0 => y[2] = Plus
      /\ n >= 1 => y[2] = Dot /\ y[3] = t[2]
      /\ n = 1 => y[4] = Plus
      /\ n >= 2 => y[4] = t[3]
      /\ n = 2 => y[5] = Plus
      /\ n = 3 => y[5] = t[4] /\ y[6] = Plus
  BY TextForm
<1>3. /\ s[1] \in Nat /\ s[2] \in Nat /\ s[3] \in Nat /\ s[4] \in Nat
      /\ t[1] \in Nat /\ t[2] \in Nat /\ t[3] \in Nat /\ t[4] \in Nat
      /\ m = 0 => s[2] = 0 /\ s[3] = 0 /\ s[4] = 0
      /\ m = 1 => s[2] # 0 /\ s[3] = 0 /\ s[4] = 0
      /\ m = 2 => s[3] # 0 /\ s[4] = 0
      /\ m = 3 => s[4] # 0
      /\ n = 0 => t[2] = 0 /\ t[3] = 0 /\ t[4] = 0
      /\ n = 1 => t[2] # 0 /\ t[3] = 0 /\ t[4] = 0
      /\ n = 2 => t[3] # 0 /\ t[4] = 0
      /\ n = 3 => t[4] # 0
  BY DEF Groups
<1> HIDE DEF x, y, m, n
<1>4. c \in 2 .. 6 /\ DOMAIN x \cap DOMAIN y = 1 .. c
  BY <1>1, <1>2
<1>5. TextBefore(x, y) <=>
             \/ x[1] < y[1]
             \/ x[1] = y[1] /\ x[2] < y[2]
             \/ c >= 3 /\ x[1] = y[1] /\ x[2] = y[2] /\ x[3] < y[3]
             \/ c >= 4 /\ x[1] = y[1] /\ x[2] = y[2] /\ x[3] = y[3] /\ x[4] < y[4]
             \/ /\ c >= 5 /\ x[1] = y[1] /\ x[2] = y[2] /\ x[3] = y[3] /\ x[4] = y[4]
                /\ x[5] < y[5]
             \/ /\ c >= 6 /\ x[1] = y[1] /\ x[2] = y[2] /\ x[3] = y[3] /\ x[4] = y[4]
                /\ x[5] = y[5] /\ x[6] < y[6]
  <2> HIDE DEF c
  <2> QED BY <1>4, TextBeforeSpelt
<1>6. ASSUME NEW i \in 0 .. 3, NEW j \in 0 .. 3, m = i, n = j
      PROVE  TextBefore(x, y) <=>
             \/ s[1] < t[1]
             \/ s[1] = t[1] /\ s[2] < t[2]
             \/ s[1] = t[1] /\ s[2] = t[2] /\ s[3] < t[3]
             \/ s[1] = t[1] /\ s[2] = t[2] /\ s[3] = t[3] /\ s[4] < t[4]
  <2>1. CASE m = 0
    BY <1>1, <1>2, <1>3, <1>5, <2>1 DEF Plus, Dot
  <2>2. CASE m = 1
    BY <1>1, <1>2, <1>3, <1>5, <2>2 DEF Plus, Dot
  <2>3. CASE m = 2
    <3>1. CASE n = 0
      BY <1>1, <1>2, <1>3, <1>5, <2>3, <3>1 DEF Plus, Dot
    <3>2. CASE n = 1
      BY <1>1, <1>2, <1>3, <1>5, <2>3, <3>2 DEF Plus, Dot
    <3>3. CASE n = 2
      BY <1>1, <1>2, <1>3, <1>5, <2>3, <3>3 DEF Plus, Dot
    <3>4. CASE n = 3
      BY <1>1, <1>2, <1>3, <1>5, <2>3, <3>4 DEF Plus, Dot
    <3> QED BY <1>2, <3>1, <3>2, <3>3, <3>4
  <2>4. CASE m = 3
    <3>1. CASE n = 0
      BY <1>1, <1>2, <1>3, <1>5, <2>4, <3>1 DEF Plus, Dot
    <3>2. CASE n = 1
      BY <1>1, <1>2, <1>3, <1>5, <2>4, <3>2 DEF Plus, Dot
    <3>3. CASE n = 2
      BY <1>1, <1>2, <1>3, <1>5, <2>4, <3>3 DEF Plus, Dot
    <3>4. CASE n = 3
      BY <1>1, <1>2, <1>3, <1>5, <2>4, <3>4 DEF Plus, Dot
    <3> QED BY <1>2, <3>1, <3>2, <3>3, <3>4
  <2> QED BY <1>1, <2>1, <2>2, <2>3, <2>4
<1> QED BY <1>1, <1>2, <1>6, BeforeSpelt DEF x, y

LEMMA UpToIsNotAfter ==
    ASSUME NEW s \in Instants, NEW t \in Instants
    PROVE  TextUpTo(Rfc3339(s), Rfc3339(t)) <=> ~ Before(t, s)
<1>1. s \in Nat \X Nat \X Nat \X Nat /\ t \in Nat \X Nat \X Nat \X Nat
  BY MemoryAssumption
<1>2. s = << s[1], s[2], s[3], s[4] >> /\ t = << t[1], t[2], t[3], t[4] >>
  BY <1>1
<1>3. /\ Before(s, t) => ~ Before(t, s)
      /\ ~ Before(s, t) /\ ~ Before(t, s) => s = t
      /\ ~ Before(s, s) /\ ~ Before(t, t)
  BY <1>1, <1>2, BeforeSpelt
<1>4. ASSUME Rfc3339(s) = Rfc3339(t) PROVE ~ Before(t, s)
  BY <1>1, <1>3, <1>4, TextsFollowInstants
<1> QED BY <1>1, <1>3, <1>4, TextsFollowInstants DEF TextUpTo

(* No row left out is later than a row returned. *)
LEMMA NewestAreNewest ==
    ASSUME NEW rows, NEW n, \A r \in rows : r.at \in Instants,
           NEW top \in Newest(rows, n), NEW r \in top, NEW other \in rows \ top
    PROVE  ~ Before(r.at, other.at)
<1>1. r \in rows /\ TextUpTo(Rfc3339(other.at), Rfc3339(r.at))
  BY DEF Newest, kSubset
<1> QED BY <1>1, UpToIsNotAfter

LEMMA MemoryAnswers == MemoryInv => QueriesFollowTime
<1> SUFFICES ASSUME MemoryInv, NEW a \in Writers
             PROVE
        /\ \A limit \in 1 .. Cardinality(Episodes) :
              /\ \A top \in Recent(a, limit), other \in EpisodesOf(a) :
                    other \notin top => \A r \in top : ~Before(r.at, other.at)
              /\ \A found \in SUBSET EpisodesOf(a) : \A top \in Search(a, found, limit) :
                    \A r \in top, other \in found \ top : ~Before(r.at, other.at)
        /\ \A top \in ListSummaries(a) : \A r \in top, other \in summaries \ top :
              other.agent = a => ~Before(r.at, other.at)
        /\ \A s, t \in Instants :
              InRange(a, s, t) = { e \in EpisodesOf(a) : ~Before(e.at, s) /\ ~Before(t, e.at) }
  BY DEF QueriesFollowTime
<1>1. \A e \in EpisodesOf(a) : e.at \in Instants
  BY DEF EpisodesOf, MemoryInv
<1>2. ASSUME NEW limit, NEW top \in Recent(a, limit), NEW other \in EpisodesOf(a),
             other \notin top, NEW r \in top
      PROVE  ~Before(r.at, other.at)
  BY <1>1, <1>2, NewestAreNewest DEF Recent
<1>3. ASSUME NEW limit, NEW found \in SUBSET EpisodesOf(a), NEW top \in Search(a, found, limit),
             NEW r \in top, NEW other \in found \ top
      PROVE  ~Before(r.at, other.at)
  <2>1. EpisodesOf(a) \cap found = found /\ \A e \in found : e.at \in Instants
    BY <1>1
  <2>2. top \in Newest(found, limit)
    BY <2>1 DEF Search
  <2> QED BY <2>1, <2>2, NewestAreNewest
<1>4. ASSUME NEW top \in ListSummaries(a), NEW r \in top, NEW other \in summaries \ top,
             other.agent = a
      PROVE  ~Before(r.at, other.at)
  <2> DEFINE rows == { s \in summaries : s.agent = a }
  <2>1. (\A s \in rows : s.at \in Instants) /\ other \in rows \ top
    BY <1>4 DEF MemoryInv
  <2>2. top \in Newest(rows, RowLimit)
    BY DEF ListSummaries
  <2> HIDE DEF rows
  <2> QED BY <2>1, <2>2, NewestAreNewest
<1>5. ASSUME NEW s \in Instants, NEW t \in Instants
      PROVE  InRange(a, s, t) = { e \in EpisodesOf(a) : ~Before(e.at, s) /\ ~Before(t, e.at) }
  <2>1. \A e \in EpisodesOf(a) : /\ TextUpTo(Rfc3339(s), Rfc3339(e.at)) <=> ~Before(e.at, s)
                                 /\ TextUpTo(Rfc3339(e.at), Rfc3339(t)) <=> ~Before(t, e.at)
    BY <1>1, UpToIsNotAfter
  <2> QED BY <2>1 DEF InRange
<1> QED BY <1>2, <1>3, <1>4, <1>5

(***************************************************************************)
(* For any instants, whatever the number of digits their texts have, any   *)
(* rows and any limit: what the ORDER BY and the range on the text column  *)
(* answer follows time (memory/lib.rs, recent, search and range;           *)
(* semantic-memory/lib.rs, list_summaries).                                *)
(***************************************************************************)
THEOREM TextsAnswerForTime == ServicesSpec => []QueriesFollowTime
<1>1. ServicesInit => MemoryInv
  BY DEF ServicesInit, MemoryInit, EpisodicInit, SemanticInit, MemoryInv
<1>2. MemoryInv /\ [ServicesNext]_servicesVars => MemoryInv'
  BY MemoryKept DEF ServicesNext, servicesVars, RouterStep, TasksStep, MemoryStep,
                    PluginsStep, VaultStep, WasmStep, FilesStep, LimiterStep
<1> QED
  BY <1>1, <1>2, MemoryAnswers, PTL DEF ServicesSpec

-----------------------------------------------------------------------------
(* The rate limiter *)

(* Beside the other components the bucket does what it does by itself, so  *)
(* what RateLimiterProofs shows of BucketSpec holds of ServicesSpec.       *)
LEMMA BucketOnItsOwn == ServicesSpec => BucketSpec
<1>1. ServicesInit => BucketInit
  BY DEF ServicesInit
<1>2. [ServicesNext]_servicesVars => [BucketNext]_bucketVars
  BY DEF ServicesNext, servicesVars, RouterStep, TasksStep, MemoryStep, PluginsStep,
         VaultStep, WasmStep, FilesStep, LimiterStep
<1> QED
  BY <1>1, <1>2, PTL DEF ServicesSpec, BucketSpec
=============================================================================
