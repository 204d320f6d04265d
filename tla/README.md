# Ferris Aegis in TLA+

Ferris Aegis is a Rust workspace for running autonomous agents under control:
trust scores, sandboxes, a guard, an audit ledger, sessions and a supervisor,
skills served as MCP tools, agent-to-agent messages, memories, and the plumbing
to call unreliable dependencies. This directory holds TLA+ models of it, TLC
configurations that check them on small instances, and proofs that TLAPS
checks for every value of the constants. Paths are relative to the repository
root (`lib.rs` alone means `crates/resilience/src/lib.rs`).

The workspace does not compile at this commit: `lib.rs:484` reads
`config.capacity` after moving `config`, `policy.rs:313` uses `sorted` after
the loop consumed it, the supervisor's `recommend` moves a finding's kind out
of a reference, the skill loader's `parse` uses `skill` after moving it, and
`wasmtime::Config` has no `max_memory_pages`. The models follow what these
lines evidently mean.

## 1. Inventory

| Component | State it keeps | Operations | What makes it correct |
|---|---|---|---|
| Circuit breaker (`lib.rs` 37-249) | state, failure and probe counts, time of the last failure, totals | `allow_request`, `record_success`, `record_failure`, `force_*`, `reset_counters` | counters fit the state; the documented diagram; recovers |
| `execute_resilient` (`lib.rs` 684-734) | one future per caller; the breaker is behind `Arc<Mutex>` | admit, retry loop with timeouts, record | an open circuit shields the dependency; late outcomes are harmless; calls return |
| Retry policy, timeout (`lib.rs` 252-440) | attempt number, delay | `execute`, `delay_for_attempt`, `with_timeout` | bounded latency, growing delays |
| Rate limiter (`lib.rs` 442-570) | fractional tokens, time of the last refill, totals | `try_acquire`, `acquire`, `refill` | the bucket bound in every window; `acquire` returns |
| Health registry (`lib.rs` 575-680), kernel `health.rs` | registered checks; a report | register, sweep, aggregate | worst status wins, from statuses of different moments |
| Trust kernel (`kernel.rs`) | per agent: score, cached level, attestation | `register`, `reinforce`, `penalize`, `apply_decay`, `attest` | scores in range, level never stale |
| Agent runtime (`agent.rs`) | per agent: status, capabilities; owns the trust kernel | `spawn`, `suspend`, `resume`, `terminate`, `quarantine`, `get_agent_mut` | stopped agents stay stopped, quarantine leaves nothing held before |
| Guard (`guard.rs`) | per agent: counters of the minute, throttle factor; enabled | `record_action`, `record_violation`, `check_trust`, `reset_counters`, (un)register, enable/disable | floods are answered, within what bound |
| Sandbox manager (`sandbox.rs`) | per agent: capability boundary | create, grant, revoke, check, remove | capabilities fit the trust level |
| Policy engine (`policy.rs`) | named policies with priorities in a hash map | add, remove, from file, `evaluate` | priority decides whatever the map's order |
| Audit ledger (`audit.rs`) | hash-chained entries | `append`, `verify_chain`, `latest_hash` | tampering is detected |
| Sessions (`crates/session`) | sessions, their activity | create, advance, (de)activate, clean up, remove | recently used sessions survive cleanup |
| Supervisor (`crates/supervisor`) | the turns of each session in the last minute | inspect, recommend, clear | bursts are suspended |
| Skill loader and validator | none | directories to skills; static and execution checks | what is loaded is what was written |
| Skill registry | main index, two secondary indexes, LRU cache behind its own lock | register, load, get, remove, clear, listings | indexes and cache agree |
| Skill executor, MCP export, tool handler | calls in progress, ledger records, tool list | execute, list and call tools, refresh | records fit answers; refresh is not starved |
| Dependency resolver | visiting and resolved sets | resolve | cycles and missing skills are found, diamonds are not |
| A2A router and tasks | agent cards; tasks | register, route; start, complete, fail, cancel | trust only helps; a result is final (it is not: see the findings) |
| Episodic and semantic memory | SQLite tables | record, recent, range, search, clear; concepts, embeddings, summaries | queries follow time |
| Plugin keyring | trusted keys | add, verify manifest and binary | only what was signed is loaded |
| Vault | list of encrypted credentials | store, get, remove | a removal is complete |
| Allowlist, SSRF guard, injection scanner | a set; two switches | allow, deny, enable, check | the documented rules, whatever was switched before |
| WASM sandbox | an engine and its epoch; fuel per execution | execute, bump the epoch | executions end, and only those trap that deserve it |
| `file_read` tool | none | resolve, measure, read | the answer is of the file and within the limit, truncation is announced |
| Configuration, observability, command line, daemon | settings; metrics | validate; initialise | not modelled, section 5 |

How they interact: the runtime owns the trust kernel and reads its level when
it spawns; the guard reads the trust kernel in `check_trust` and otherwise only
*answers* with an action; the sandbox is handed a trust level once, at
creation; the supervisor *recommends*. No component calls another to carry a
decision out: the embedding program does (`examples/sentinel.rs` 48-117). The
breaker is shared by concurrent callers through a tokio mutex that
`execute_resilient` releases between its check and its record. The tool handler
holds a read lock during a call, under which the executor takes the registry's
lock, the cache's and the trust kernel's one after the other; the executor
writes the ledger and the metrics. Executions of guests share one engine. The
daemon in `src/main.rs` constructs the components; the security gates are
constructed and consulted by no dispatch path, although `allowlist.rs:3-5` says
that every tool call passes them.

The hard behaviours: state read under one lock and used under the next; futures
dropped at an await; retries of a call that started before the circuit opened;
operator calls at any time; fractions of tokens and windows of every length;
verdicts carried out late; several stores of one fact (score and level, two of
capabilities, index and cache, schema list and registry); fixed and sliding
minutes side by side; hash-map order; records between a start and a `?`;
statuses, cards, sizes and timestamps of another moment; writes to several
fields of a hash chain. `PROJECT.json` lists each at its line.

## 2. The models

| Module | Models | State and actions against the code |
|---|---|---|
| `Metrics` | wrapping `u64` totals | `Bump` is `+= 1` |
| `CircuitBreaker` | `struct CircuitBreaker` | a variable per field, an action per method; `last_failure_time` is its age `sinceFailure`, saturating one tick past the timeout, since the code only compares it with the timeout |
| `ResilientCalls` | `execute_resilient` | `Admit`/`Reject` are the first critical section, `AttemptSucceeds`/`AttemptFails`/`Retry` the loop of `execute` around `with_timeout`, `Record` the second critical section, `Cancel` a dropped future; the operator's calls and the clock interleave |
| `BreakerContract` | the abstract breaker of DIAGRAMS.md section 21 | knows phases, counts and "cooled", not callers, clocks or locks |
| `RateLimiter` | `RateLimiter` | tokens in units so that fractions are exact; `Take`/`Miss` are the arms after `refill`; `Acquire`, `Wake`, `DropAcquire` are the turns of `acquire`'s loop and its cancellation |
| `TrustKernel` | `TrustKernel`, `TrustScore`, `TrustLevel` | scores in twentieths: 0.2, 0.5, 0.75, 0.95 lie on the grid; a decayed score is rounded either way |
| `AgentRuntime` | `AgentRuntime`, `AgentStatus` | an operation that returns `Err` changes nothing and is not a step; `Finish`, `GrantToAgent` and `RevokeFromAgent` are what an embedder does through `get_agent_mut`, the latter two in every status, as in the code |
| `Sandbox` | `Sandbox`, `Capability` | a boundary is its set of capabilities; the manager hands out no `&mut SandboxBoundary`, so none is ever locked |
| `Guard` | `Guard` | one action per operation; `ActionAnswer`, `ViolationAnswer`, `TrustAnswer` are the returned values |
| `AegisKernel` | the composition of the four by an embedder | a `Quarantine` answer is held in `owed` until `CarryOut` calls `runtime.quarantine`; everything else may come in between |
| `Sessions`, `Supervisor` | the session manager; the supervisor | `last_active` and the turns of a minute are kept as ages; `Inspection` is the value `inspect_with_trust` returns |
| `Supervision` | guard, sessions and supervisor under one clock | `MinuteEnds` is the call of `reset_counters` "once per minute" that `guard.rs:318` asks for; an observer measures stretches shorter than a minute; a `Turn` is a guarded action, an advance and an inspection, with the documented recommendation obeyed; everything else an embedder may call interleaves |
| `AuditLedger` | `AuditLedger`, `AuditEntry` | SHA-256 taken to be collision-free: a digest *is* what it hashes; `agent`, `action`, `target` are joined as in `compute_hash`; the `Tamper*` actions write through `entries_mut` |
| `SkillLoader` | `loader.rs`, `types.rs`, `validator.rs` | functions from a document (a record of the frontmatter fields something branches on) to a skill, and the predicates that refuse one |
| `SkillRegistry` | `registry.rs` | `Insert` is registration past validation, `LoadNext`/`LoadStops` the loop of a load, `UseCache` the LRU touch of a lookup that got the cache's lock |
| `SkillServing` | `mcp/tools.rs`, `mcp.rs`, `executor.rs` | a task per call: `CallTool`, `Find`, `Start`, `ImplReturns`/`ImplFails`/`Cancel`; `RequestRefresh` queues for the write lock, `Refresh` holds it |
| `SkillResolution` | `DependencyResolver` | the recursion as a stack of frames; one action per branch of its loop |
| `PolicyEngine` | `PolicyEngine` | a rule is the set of requests its patterns match; `evaluate` is taken over every order the sort may leave |
| `RetryPolicy` | durations of one `execute` | `Jittered` is the set of delays the jitter can give after truncation |
| `HealthSweep` | `HealthRegistry`, `HealthReport` | `CheckNext` is one awaited check; components change in between |
| `SecurityGates` | allowlist, SSRF guard, scanner | the address tests as written (octets, masks); `CheckUrl` gives the answers there may be for a URL, through the host `ExtractHost` finds; a text is the set of patterns it matches |
| `A2aRouter`, `A2aTasks` | the router; tasks | an envelope carries the sender's card of the moment it was sent; every transition of a task is unguarded, as in the code, and `results` is what `complete` and `fail` handed out |
| `Memory` | both memories over SQLite | a timestamp is taken by `BeginRecord` and inserted later; `Rfc3339` keeps the varying number of digits that TEXT comparison sees |
| `Plugins` | keyring, manifests | manifest and binary are separate files, replaced one after the other, and the loader (the embedding program) reads them one after the other too; a signature is bound to the key, signer and hash it was made for, and `EditManifest` changes what stands beside it |
| `Vault` | the credential list | `GetSecret` answers with the first of a name, as `find` does |
| `WasmSandbox` | `sandbox-wasm` | fuel per execution, one epoch for all; guests return, trap by themselves or never end. `execute` sees the text of a trap, and `Reported` is its search for two words; which of them a text has is the constant `TrapTexts`, external like Wasmtime itself |
| `FileReads` | `file_read` | three steps with other programs' writes in between; a file is a sequence of bytes that are characters, lead or continuation bytes, and `Lossy` is what `from_utf8_lossy` makes of the part that is shown; an error is a text that says so, in an answer marked as a success |
| `Services`, `Decisions` | the small components side by side, the rate limiter and the ledger among them | `focus` fixes one of them per behaviour: they share nothing, so their states add up instead of multiplying. `BucketSpec` and `LedgerSpec` are the two components by themselves, for their theorems |
| `Filtering` | `Vec::retain`, `Iterator::filter` | one recursive function, shared by the vault, the supervisor, the registry and the scanner, written so that it can be proved about |
| `MC*` | - | values and symmetry for TLC |
| `*Proofs`, `ListLemmas` | - | theorems, and the lemmas on lists and numbers they share; section 4 |

Definitions called mutants in a comment are plausible wrong versions of the
definition below them; each property is known to fail when one of them takes
its place. History variables (`openAttempts`, `forced`, `windowAge`,
`windowAllowed`, `stretchAge`, `seen`, `turnsSeen`, `quiet`, `anchored`,
`tampers`, `given`, `results`, `signed`, `bumped`, `worst`, `best`, `told`, `root`) only
record; no guard of the code's actions reads them, except that `tampers` bounds
the number of writes and `stretchAge` the length of an observation.

## 3. The runs

All bounds are in the `.cfg` files.

| Run | Question | Bounds and why they are enough |
|---|---|---|
| `resilient_calls` | Does the breaker stay consistent, shield an open dependency and implement its diagram through every interleaving? | 3 symmetric callers (one probing, one late, one that trips), thresholds 2 (so counting takes more than one step), 1 retry, counters modulo 2 |
| `resilient_recovery` | Do calls return, and does the circuit close for good when the dependency is healthy? | 2 callers, probe threshold 1 (see the finding below), full fairness |
| `aegis_kernel` | Are floods never forgotten, do stopped agents stay stopped, do quarantined ones hold nothing but what was granted since, is no level stale? | one agent (agents share only `apply_decay`, `reset_counters` and the switch; the proofs cover any number), both thresholds reached and exceeded, scores that visit four levels, one capability granted and revoked by hand (the one spawning gives too, so that it may be held from before the strip, from after it, or both) |
| `skill_serving` | Do indexes, cache, answers, ledger and metrics agree while skills are replaced and removed under running calls, and is a refresh done at last? | two calls (one holds the lock while the other wants in), a cache of one so that every second lookup evicts, two versions of one skill that differ in category, capabilities and trust, a skill that is invalid and ends a load half-way, one that validates and cannot execute |
| `supervision` | How large a burst passes fixed and sliding minutes laid against each other, and what does cleanup spare? | one agent and session, a minute of 3 ticks, guard threshold 3, supervisor limit 1: both bounds are attained |
| `services` | Do the small components keep their promises under late, reordered and interleaved calls; in particular, is the bucket bound kept in every window and does `acquire` return? | two of everything; four instants, with fractions of no, three and nine digits and in a later second; two executions with two units of fuel, guests that fit, return, trap, exceed their fuel or never end, trap texts with and without the words looked for; files of up to three bytes that decode in every way; a bucket of 2, a tick that earns 2/3 of a token, windows up to 5 ticks (the idle time saturates only after the bucket is full) |
| `decisions` | Do the decision procedures answer what they should? | retries: 4 attempts, delays 4, 8, then capped at 12 (the power of two is a recursive function, for the proofs), timeout 5 so that one attempt too many shows; all graphs on 3 skills with lists of up to 2; 3 policies at 2 priorities; 3 components; both sides of every edge of the address blocks; a ledger of 2 entries with identifiers that read the same when joined, and 3 writes, which suffice to change an entry, fit its hash and touch the next (the proofs cover any length) |
| `v_wedged_half_open` | violated | threshold 2, the default |
| `v_quarantine_isolates` | violated | the boundary outlives quarantine |
| `v_listed_tool` | violated | an identifier with an underscore |
| `v_outcome_recorded` | violated | an implementation that answers `Failed` |
| `v_result_final` | violated | one task, completed and started again |

The runs that pass fire every action. The resilience runs take seconds;
`aegis_kernel` (553,394 states), `skill_serving` (173,052), `supervision` (531,200),
`services` (200,233) and `decisions` (564,808) take a minute or two each.

Deadlock is checked except in `decisions`. There the systems really may stop: a
resolution or a retried call ends, and a ledger is full and written to as often as
the bound allows.

### Fairness

`CallsReturn` assumes weak fairness of every running call and of the clock:
`tokio::time::timeout` resolves each attempt, the runtime polls woken tasks, and
tokio's mutex is FIFO. `RecoversWhenHealthy` also assumes that clients keep
calling (a breaker without traffic stays open) and that from some time on no
attempt fails, nobody drops a call and the operator does not open the circuit.
`AcquireReturns` assumes that the clock runs and a task whose timer fired is
polled; it needs a positive rate and capacity.

`RefreshHappens` assumes weak fairness of a call's own steps and of a load that
has begun (it holds `&mut self` and runs to its end), and strong fairness of
`Find` and `Refresh`: both wait for a tokio `RwLock`, a FIFO queue, which a
waiter leaves after finitely many other holders although the lock is not free
all the time. It also assumes that a `SkillImpl` answers some day; one that
never does holds the handler's lock and the refresh for ever: the deadline of
300 s set at `mcp_export.rs:251` is looked at once, before the implementation
starts (`validator.rs:51`). New calls need no fairness: none is
promised to come.

`ExecutionsEnd` assumes weak fairness of each execution (it has a thread of its
own), and none of bumps: fuel alone ends a guest.

### What the findings say

- **The default breaker wedges.** `allow_request` in `HalfOpen` asks for
  `half_open_successes == 0` (`lib.rs:134`), and the default threshold is 2
  (`lib.rs:80`): after the first success nobody is admitted and nothing else
  moves the state. The test at `lib.rs:838` expects the second probe. This is
  why recovery is checked with threshold 1.
- `quarantine` clears `agent.capabilities` and leaves the sandbox boundary, which
  `check_capability` consults.
- A tool listed for a skill whose name has an underscore is answered "Skill not
  found": `tools.rs:109` turns every underscore back into a colon. (This is why
  `skill_serving` uses names without.)
- The ledger records "success" for every execution whose implementation returned
  `Ok` (`executor.rs:274-277`), also when the status in it is `Failed`, `Denied` or
  `TimedOut`; SKILL_SPECIFICATION.md:435-437 wants the outcome. What does hold is
  `LedgerFitsAnswer`: success is recorded once and last, and never for a call that was
  refused, ended in `Err` or was cancelled.
- No transition of a task looks at the state it leaves (`task.rs:101-131`): after
  a result was handed out as the "Final task state" (`task.rs:151`) the task can be
  started, cancelled or ended in another way.

Disagreements that are plain from two lines, on which no run is spent:

- resilience: `lib.rs:50` promises a single probe while any number is admitted
  before the first success; a success admitted before the trip closes a
  half-open circuit (`lib.rs:161`) although `lib.rs:71` speaks of probes; the
  comment at `lib.rs:175` says a success while open cannot happen, and it can;
  the jitter is added after the cap (`lib.rs:306` against `lib.rs:260`); the
  timeout bounds an attempt, not the call (`lib.rs:719` against `lib.rs:688`).
- kernel: `quarantine` moves agents out of terminal states (`agent.rs:328`
  against DIAGRAMS.md:51-53); `create_boundary` gives capabilities above
  `min_trust_level` (`sandbox.rs:302-312` against `sandbox.rs:50-64`) and a
  boundary keeps them when trust falls (`sandbox.rs:36` against
  `sandbox.rs:367`); the ledger's hash omits `id` and `metadata` and joins its
  strings without separators (SPECIFICATION.md:237-238 against `audit.rs:94`); a
  rule's condition is never read; `Effect` has no serde rename, so the shipped
  `policies/*.toml`, which say "deny" and "allow", do not parse.
- sandbox-wasm: `lib.rs:28` says the cap is in bytes, 64 MiB by default;
  `memory_page_limit` (198-200) counts pages and line 126 passes them on as
  bytes, so by default no guest that has a memory instantiates.
- skills: an execution that is refused is not recorded at all; an optional
  dependency that is missing is an error; vendor-neutral documents name their
  dependencies without the "skill:" prefix that identifiers have; the loader
  never sets a signature, so a signed skill does not verify; `sign` writes hex
  where `verify` expects 64 bytes; `aegis skill` loads `./skills` recursively and
  then `./skills/examples` again (`src/main.rs:415-418`), which lists examples twice;
  nothing calls `refresh_skills`, so a server lists no dynamic tool.
- others: the supervisor's rate counts inspections, not turns, and
  `inspect_with_trust` logs its findings twice; `create_session` hands out a copy
  that drifts from the manager's session; a router judges the card the sender
  carries and nothing when there is none, not the registered one; the vault
  serves the first of two secrets stored under a name and never looks at
  `expires_at`; the notice of a truncated file states the size of an earlier
  moment; a `file_read` that fails answers with `CallToolResult::success` and a text
  beginning with "Error:" (`tools.rs:233`).

## 4. The proofs

`tlapm` proves these for every value of the constants that satisfies the named
assumptions of the modules: natural numbers where the code has unsigned ones,
integer priorities (`i32` in the code), a positive token unit, positive
quarantine thresholds, an idle bound that fills the bucket, a positive cache
capacity, dependency lists that are lists of skills, addresses of 4 octets or 8
segments, texts that match patterns of the scanner. `ServingAssumption` says that
loads read lists, and that the constant `Skills` names whatever a load can
register. Every safety invariant and action property of the passing runs is the
statement of a theorem.

**`ResilientCallsProofs`** (any number of callers). `CallsInv` joins the types,
`BreakerConsistent` and, for the shield, a stronger fact:
an attempt started since the circuit opened is one of the caller's retries, so
`openAttempts[c] <= attempt[c]` for a running caller while the circuit is open;
`attempt <= MaxRetries` then gives `OpenShieldsDependency`.
`StepIsMethodCall` shows that every step of the callers is a method call of the
breaker or leaves it alone, so the breaker's own invariant is proved once.
`BreakerImplementsContract` maps each method to a step of the contract or a
stutter; the consistency of the counters is what makes the mapping work (a
closed circuit is below its threshold, so counting a failure is either
`CountFailure` or `Trip`). `LateOutcomesStayOut` is the action property over
the same invariant: the step that makes a caller idle is its own, or a
cancellation, and in `Open` neither method leaves the state.
`SingleProbeNeverWedges` has a hypothesis of its own, a probe threshold below two:
`BreakerConsistent` says that a half-open circuit has counted fewer successes
than the threshold, which is then none, and `allow_request` asks for none. From two
on the statement is false, which `v_wedged_half_open` shows; the hypothesis is
the boundary of the finding, and the theorem says that nothing else wedges it.

**`RateLimiterProofs`** (any capacity, rate and interval). `WindowBound` is not
inductive: the bucket's content is missing. The invariant says that what was
allowed in the window, plus what a refill would now put into the bucket, is at
most a full bucket plus what the window earned; refilling, taking, ageing and
saturation of the idle time each preserve it. The theorems speak of `BucketSpec`;
`BucketOnItsOwn` (in `ServicesProofs`) shows that the composed `Services`, which the
run explores, implements it, and `LedgerOnItsOwn` (in `DecisionsProofs`) the same of
the ledger in `Decisions`.

**`KernelProofs`** (any agents, sessions, thresholds and minute). `KernelInv` is the types,
`LevelMatchesScore`, `QuarantineStrips` and `FloodIsDecided`, one lemma per group
of actions. Capabilities are granted in every status, the quarantined one included,
so a quarantined agent need not be without any: `QuarantineStrips` says that what it
holds was granted since the latest strip (`given`). A suspended or
ended agent never joins the quarantined with its capabilities, because only `quarantine`
leads there, and it clears them. `StoppedForGood` is the action property proved from it.
`FloodBound` needs to know where the reset fell. `MinutesInv` says: while the
stretch has seen no reset, what it saw of an agent is at most what the counter
holds (`WithinTheMinute`); once a reset fell into it, at most the counter plus a
full quota less one (`AcrossTheReset`); and a free agent's counter is below the
threshold. `CleanupSparesRecent` follows from `QuietInv`: a session's age as the
manager knows it never exceeds what it has really been quiet for, up to
saturation. `BurstsAreSuspended` needs `BurstInv`: the last entries of a session's
history are the turns seen in the stretch, none of them older than it
(`Remembers`), and since the stretch is shorter than a minute no `retain` drops one
of them (`FilterKeepsEnd`). So the length the rate check compares with
the limit is at least the turns seen, and past twice the limit its finding is of
the severity that recommends suspension.

**`ServicesProofs`**. One invariant per component, each preserved by its own
steps and untouched by the others': `WasmInv` (a running guest has spent no more fuel
than it has work, and its deadline is reached exactly if a bump came while it ran;
whatever the text of its trap, an execution that traps is not answered as returned),
`FilesInv` (no answer and no count while a read is under way), `RouterInv` (levels in
range), `VaultInv` (the list holds credentials), `MemoryInv` (rows are stamped with
instants), `PluginsInv`. `LoadedAsSigned` is not inductive: that the manifest in hand
passed the check says nothing unless every signature about, in the file or with the
loader, was made by its signer for that release, whatever was edited beside it. That
is what `PluginsInv` adds; a key once trusted stays so.
`AnswerIsOfTheFile` rests on the fact that decoding is local: whether a byte begins,
continues or breaks a character depends on its neighbours, so a cut can change only
what the last byte shown becomes. `RemovalIsComplete` is a fact about filtering: nothing of the
name is left, and the first entry of another name is still the first, because
the places filtering selects are in order. `QueriesFollowTime` takes the texts
apart: whether a fraction has no digits, three, six or nine, comparing two of them
as text is comparing the instants, because the digits left out are zeros and the `+`
that follows the digits sorts before every digit.

**`SkillServingProofs`** (any skills, calls, trees and cache size). `CacheInv`
says that whatever is cached is what is registered; each of register, remove,
clear, touch and eviction keeps it, whichever skills a load brought before it
stopped. `CallsInv` says which records a call may have in which phase; from it
`LedgerFitsAnswer`, and from `CacheInv` that a lookup through the cache and one
past it agree (`LookupIsCurrent`). `IndexesComplete` follows from `IndexInv`: the
identifier of every registered skill is in the lists of its present category and
capabilities. A replacement may leave it in the lists of its earlier version
too, a removal filters it out of lists in which nobody else's is lost
(`FilterMembers`).

**`DecisionsProofs`** (any skills, lists of dependencies, components, retry and
access policies, addresses and texts).
`ResolutionIsRight` is the correctness of the depth-first walk with one shared
visited set. The invariant is the classical one: the stack is a path from
the root and `visiting` is exactly what is on it (`StackInv`); every dependency up
to `done` of a frame has been dealt with or is the frame above it (`FrameOK`); and
what is resolved and not on the stack (`Dealt`) is closed under dependency and free
of cycles. A cycle
below a shared dependency is found because the walk came through it once.
`SweepIsFair` rests on `HealthInv` (what was reported of a component so far,
against what it has been since the sweep began) and on `ReportIsAggregate` (counting
statuses and taking the worst agree). `LatencyBound` comes from `RetryInv`, in
quarters of a millisecond: what has passed is at most a full `Round` (a deadline
and one and a quarter of the cap) for every attempt that failed, plus the
deadline of the one under way. `BackoffGrows` needs a base delay of 2 ms: with 1 ms the delays 0..1
and 1..2 meet, since the code truncates to whole milliseconds
(`lib.rs:308`). `PriorityDecides` is over all orders the sort may leave; that
there is one at all (`SortExists`: without it the statement would speak of no
verdict) is proved by taking a policy of lowest priority off a finite set and
putting it at the end of an order of the others. `GatesFollowTheirRules` compares the code's
octets and masks with the blocks as ranges of the leading 16 bits, for every
address, and `UrlHosts` carries the answer over to URLs whose host `extract_host`
finds whole.

**`AuditLedgerProofs`** (ledgers of any length, any number of writes). Writes may
put anything anywhere, so the invariant types entries over a set that grows,
and keeps only that the anchored ledger verified and is no longer than the
present one. `TipCommits` is then a statement about two chains that verify and
agree in one hash (`HashesCommit`): were there a place before it where the hashes
differ, take the one closest to the tip; its successor has equal digests, hence
equal links, hence the hashes agree after all. The descent uses the well-foundedness
of `Nat` in its set form (`LeastNatural`). `OneWriteIsDetected` goes by the field that was
written: either the hash stayed, and then digest and content did, or the
content did.

**`ListLemmas`**. The library's induction theorems take an operator as parameter,
which the provers cannot instantiate. `NaturalInduction` states induction for a *set* of numbers
instead, from the least element of its complement; the property to prove by
induction becomes a set comprehension. With it: that the recursion of `Filter` and
of `PowerOf2` is satisfied by some function (TLA+ gives a recursive function
no more than a `CHOOSE`, so this must be shown before its equation may be
used), and what filtering keeps.

Only model-checked: liveness (`CallsReturn`, `RecoversWhenHealthy`, `AcquireReturns`,
`RefreshHappens`, `ExecutionsEnd`), which is out of the prover's reach together with
`ENABLED`. That the violations the `v_*` runs show happen is theirs to show.

## 5. Not modelled

Left out of the modelled components, because no decision reads it or because it
changes nothing: interaction counters and timestamps of trust records, attestation
expiry, resource limits, paths and endpoints of boundaries (`check_capability`
does not read them), the guard's alert list (nothing fills it), `AgentState`, the
ledger's read-only queries, a session's context and metadata, the supervisor's log
of past findings, search, statistics and `version_check` of the registry, JSON
schemas of tools, `validate_input` (never called), skill signatures (see above),
keyword extraction, cosine similarity and connection pools of the memories.

What the properties deliberately do not claim, because the code does not give it:

- The reason an interrupted execution reports. It is guessed from words in the
  trap's text (`sandbox-wasm/src/lib.rs:164-171`): Wasmtime calls its epoch trap an
  interrupt, which may be answered as an `Err`, and a trap whose text names a function
  called "fuel" is reported as an exhaustion.
- That the text of `file_read` is a prefix of the file or no longer than
  `max_bytes`: U+FFFD is three bytes long and stands for one. What is claimed is in
  bytes of the file.
- The host of some URLs. An IPv6 literal without a port loses its last part
  in `extract_host` and is then a name (which is safe to the guard) or another
  address; with user information before the host, the guard looks at a name too.
- That a quarantined agent has no capability: `grant_capability` asks for no
  status.
- That the router judges the present card of the sender: it judges the one that came
  with the envelope, and none if there is none.
- That counters outlast a second registration: `register_agent` zeroes those of an
  agent already watched (`guard.rs:243`). `aegis_kernel` lets that happen, and
  `FloodIsDecided` speaks of the counter as it is; `FloodBound` is for embedders that
  register an agent once while it is watched.

Components without a model: the configuration (range checks field by field; it
leaves the guard's settings unchecked and lets NaN pass), observability (set-up of
metrics and tracing), the command line and the daemon (they construct and
print). `register_skill` takes the cache's lock with `blocking_write`, which panics
inside a tokio runtime; the models treat it as the lock it is meant to be.

Hazards no property covers, with the reason in `PROJECT.json`: a wall clock that
is set back (the model's only moves forward), `acquire` with a rate or
capacity of zero (it never returns, and no constructor refuses it), and the second
registration just mentioned.

What could be added next: a health check that never answers (the sweep has no
timeout, so a property would only restate that), the transport of A2A once
`send_task` is implemented, and a refinement of the registry to a single map.
