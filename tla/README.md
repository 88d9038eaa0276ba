# TLA+ models of the Lancet coordinator

These modules model the Go coordinator in `src/coordinator/`. The coordinator
is one goroutine that drives a set of agents over one TCP control connection
per agent. Each command is broadcast to a list of agents and the replies are
then collected in order, with a read deadline on each read. The agents are C
programs and are not under `src/`.

## The system's parts and how they interact

| Part | Source | What it does |
|---|---|---|
| Configuration | `config.go` | Flags become server and experiment configs: agent lists, rates, pattern. |
| Startup | `main.go` | Builds the agent lists (throughput, latency, symmetric), optionally starts agents over ssh (`deploy.go`), dials one connection per agent, calls `runExp`. |
| Control channel | `proto.go` | `broadcastMessage` writes one frame to every agent. `collectAcks`, `collectValues`, `collectThroughputResults` and `collectLatencyResults` read one reply per agent in list order. Their deadlines are 0.5 s, 0.5 s, 5 s and 10 s. |
| Commands | `proto.go` | `check_conn_open`, `startLoad`, `startMeasure`, `reportThroughput`, `reportLatency`: each formats a frame, broadcasts it and collects. |
| Patterns | `coordinator.go` | `load()` polls `check_conn_open` up to 60 times, then starts the load. `fixedPattern` runs one measurement and `fixedQualPattern` is the Load/Measure/Exit qualification loop. `stepPattern` repeats either of them over a range of loads, and continues after an error. `fixedTimePattern` and `fixedRepeatPattern` measure for a fixed time, but nothing reaches them. `runExp` splits the pattern at `:`, parses the fields and dispatches. |
| Aggregator | `stats.go` | `computeStatsThroughput` and `computeStatsLatency` combine the agents' replies, and `getRPS` turns an aggregate into a rate. |
| Reporter | `stats.go` | `printThroughputStats` and `printLatencyStats`. |

Behaviours that make the code hard to test, and that the models reach:

- A collect loop stops at the first failing agent. Replies that miss their
  deadline, and replies of agents after the failing one, stay in the sockets.
  The next command reads them.
- A `Read` may return several coalesced replies. Only the first is parsed and
  the rest of the buffer is dropped.
- `stepPattern` prints an error and goes on to the next load over the same
  connections.
- The qualification loop has two checks. The Load probe must be within ±10 %
  of the expected rate and have a correct inter-arrival. The measurement must
  be IID, and a non-IID measurement lowers the sampling rate. The loop is
  bounded by `maxTries` and `maxDuration`.
- An agent may die. `broadcastMessage` then fails part way through its
  list, and every later collect on that agent times out.
- `runExp` indexes the pattern fields without a length check, and
  `stepPattern` trusts the step it is given.
- A `conn.Read` may return only part of a reply. The rest of the fresh
  buffer is zeros, and `binary.Read` parses it without error.
- `main` launches the agents, sleeps 5 s and dials each one once. Any
  failure exits the program, and `-printAgentArgs` exits after printing.
- The aggregator's edge cases: it divides by the number of replies, indexes
  `replies[0]`, sums the IID flags and starts its minimum from a sentinel.

## Modules

| Module | Models | State and actions |
|---|---|---|
| `Stats` | `stats.go` | Pure operators only. `ComputeStatsThroughput` and `ComputeStatsLatency` are folds over the reply sequence. `AggReducer` is the minimum from the 1000000 sentinel. `RPSAbove` and `RPSBelow` are `getRPS` compared with a bound, with Duration 0 giving +Inf or NaN. |
| `MCStats` | harness for `Stats` | Replies arrive one at a time (`ThroughputArrives`, `LatencyArrives`). After each arrival the aggregate is compared with `RefSum`, a RECURSIVE sum, and `RefMin`, a CHOOSE minimum. |
| `Qual` | `fixedQualPattern` | Variables `state`, `tryCount`, `maxTimeReached`, `samplingRate` (an exact fraction), `samples` and `result`, plus the history variables `lastProbe` and `lastMeasure`. `LoadStep` and `MeasureStep` are each one whole loop iteration, including the agents' replies, the checks, the reduction and the `continue`. `CommandFails` is any command of the iteration returning an error, including load()'s 60 polls running out. `ExitStep` and `TriesExhausted` end the loop. A panic is a result value. `Loads` is the list of loads stepPattern walks, and `step` indexes it. `NextLoad` is stepPattern's next iteration: it leaves `samplingRate` and `samples` as the last load left them, as `c.samplingRate` is. `outcome` records each load's result. With `ShortReads`, a throughput or latency report may be read short: its body is all zeros (`ZeroThroughput`, `ZeroLatency`), and the rest of the reply stays in the agent's socket (`leftover`). Every later Load or Measure iteration commands every agent, so after a short read those iterations can only fail (`CommandFails`); the Exit state sends nothing and can still return nil. A sampling rate with `den` = 0 is +Inf, which is what dividing by a reducer of 0 gives. |
| `Proto` | `proto.go` and the agent | `toAgent[a]` holds requests not yet served and `toCoord[a]` holds reply bytes not yet read. `crashed` is the set of agents whose process has died. `cmd` is the command in progress: kind, id, targets, index, accepted replies and status. `Issue` is the broadcast. Its writes stop at the first crashed agent, or go on when the kernel still takes the bytes. `AgentCrash` kills an agent and its unserved requests are lost. `CollectRead` reads `k ≥ 1` coalesced replies, parses the first and drops the rest. `CollectTimeout` fires when nothing has arrived. `AgentServe` is the agent's FIFO answer. Every reply carries the id of its request, as history only. With `ShortReads`, a 12-byte msg1 reply (CONN_OPEN answer or ACK) may reach the socket as a head and a tail chunk (`Deliveries`). `Parsed` is what `binary.Read` makes of the bytes a read returned: a head alone gives Info 0 or the true Info, a tail alone gives 0, and a tail followed by the next reply gives misaligned header bytes (`InfoClasses`). |
| `Driver` | `main`, `runAgent`, `load`, `fixedPattern`, `stepPattern` | `pc` is the command of `fixedPattern` in progress, `step` is the load of `stepPattern`, `polls` is the loop index of `load()`, and `outcome` is what each call returned. One action per command return: `AfterCheck`, `AfterLoadSym`, `AfterLoadLt`, `AfterMeasure`, `AfterReportTh` and `AfterReportLat`. Each one either returns the error or issues the next command. `StepEnds` records the result and goes on to the next load. `AbstractCmd` is the refinement mapping to `AtomicCommand`. Before runExp come `main`'s steps. `ParseConfig` is the ssh-key check. `LaunchAgent` is one iteration of the launch loops: it records the agent's arguments, launches it with `RunAgent` (which may fail), or only creates it. `LaunchesDone` exits 0 after printing, or goes on to the dials. `RunAgent` may also stall for ever in the ssh handshake (`sshStalled`): `ssh.ClientConfig` sets no timeout. `DialAgent` fails for a crashed or not-yet-started agent. `DialsDone` calls runExp. `gcfg` holds `-runAgents` and `-printAgentArgs`, chosen in `Init`. `printed`, `launched` and `dialed` record which agents each loop reached. |
| `AtomicCommand` | spec 4.C, 4.D, 5 and 8.2 | The abstract command. `AIssue` issues a command, which may fail at once. `ASucceed` returns one answer per target, in order, each to this request. `AFail` returns the answers of a strict prefix of the targets. Weak fairness says every command returns. `Driver` instances it with `acmd <- AbstractCmd`, `aid <- nextId`. `AbstractCmd` hides the accepted replies while a command runs, because the abstract command returns them all at once. |
| `RunExp` | `runExp`, `stepPattern`'s loads | Pure operators. A pattern is the sequence of its fields, and `Bad` is a field that does not parse. `Read` gives a field's outcome: panic, absent, error or ok. `FirstFailure` applies them in code order. `FixedBranch` and `StepBranch` give the call made, with its arguments. `StepLoads` is the loop's list of loads, or "unbounded". `FixedReads` and `StepReads` list which fields each branch reads with and without a length test. |
| `MCRunExp` | harness for `RunExp` | Builds every pattern of up to `MaxArgs` fields, one field at a time (`AddField`), with 0 to 2 latency agents. It then compares `RunExp` with a reference written from spec 7: `WellFormed`, `SpecSamples`, `SpecRate`, `SpecLatencyRate`, and `RangeBy` through `SetToSortSeq`. |
| `MCQual` and `MCDriver` | | Instantiation constants for TLC. `MCQual` defines the load lists, since a cfg cannot hold a sequence. |

Agents are numbered in the order the code concatenates its lists: throughput,
then latency, then symmetric. The agent's reply codes come from a C header
outside `src/`. `MCDriver.cfg` gives them in the order spec 4.A lists them.

## Runs

| Run | Cfg | Checks | Result |
|---|---|---|---|
| stats_aggregation | `MCStats.cfg` | `ThroughputAggregation`, `LatencyAggregation` | pass. Every list of up to 3 replies is aggregated like the reference sums, truncated means and minimum. |
| stats_iid_sum | `MCStats_iid.cfg` | `NonIidSignalled` | violation. Two replies, one IID: the summed flag is 1, so "at least one non-IID" is lost (spec 4.E). |
| qual | `MCQual.cfg` | `TypeOK`, `QualityGate`, `LoadGateAccepts`, `Termination` | pass. This is stepQual over loads 10000 and 20000, and any report may be read short, its rest left in the socket. A success passed the probe band, the inter-arrival check and the IID-or-exhausted gate. A faithful load passes the probe. Every load is qualified and the pattern returns, with the sampling rate carried from one load to the next and reducers of 1 and 0 in play. |
| qual_throughput_only | `MCQual_thonly.cfg` | `NoPanic` | violation. With throughput agents only, Measure divides by zero. |
| qual_two_latency_agents | `MCQual_twolat.cfg` | `LoadGateAccepts` | violation. With two latency agents, expectedRPS undercounts the load, so a faithful probe is rejected. |
| qual_exhausted_non_iid | `MCQual_exhausted.cfg` | `QualityGateSpec` | violation. A non-IID measurement below sampling rate 0.01 returns success. Spec 4.G prescribes this fall-through and spec 8.6 forbids it: the spec contradicts itself, and the code follows 4.G. |
| driver_fixed | `MCDriver.cfg` | `TypeOK`, `ReplyMatchesRequest`, `Termination`, `AtomicSpec` | pass. This covers main's startup and the one-shot fixed pattern, under every combination of -runAgents and -printAgentArgs. Agents may be silent, crash or be unreachable, and writes may fail part way. Every accepted reply answers its own request, and every command behaves as `AtomicCommand` says. The program ends, unless an ssh handshake stalls. In this one-shot run every failed command ends the pattern, so stale replies are never read; the step and short-read runs reach them. |
| qual_zero_rate | `MCQual_zerorate.cfg` | `SuccessMeasured` | violation. With `-lqps 0` and a latency agent the base rate is 0. The duration is int(+Inf), which is negative on amd64, so the load is reported qualified without a measurement. |
| qual_short_read | `MCQual_shortread.cfg` | `MalformedReportAborts` | violation. The rates are the defaults, with a latency and a symmetric agent. One latency report is read short and parses as zeros; the other reports IID, so the summed flag passes. The Exit path sends no command to the short socket, and the pattern returns nil with the zeroed report in its aggregate, where spec 7 says a malformed record aborts the experiment. |
| runexp_dispatch | `MCRunExp.cfg` | `ArgumentsReachPattern`, `PanicsExactlyOnShortPattern` | pass. Every well-formed pattern reaches the pattern it names, with the spec's defaults and the latency rate zeroed when there are no latency agents. runExp panics (index out of range) exactly on a known pattern missing a required field whose present fields parse, e.g. `fixed` or `step:1:2`, where spec 7 calls a malformed pattern a configuration error; every optional field is read behind its length test. |
| driver_step_stale_reply | `MCDriver_step.cfg` | `ReplyMatchesRequest` | violation. A CONN_OPEN reply that missed its deadline in step 1 is taken as step 2's answer. |
| driver_short_read | `MCDriver_short.cfg` | `ReplyMatchesRequest` | violation. The one-shot fixed pattern, with short reads on. The first CONN_OPEN poll reads only the head of a reply, and the second poll takes the tail left in the socket (Info 0) as the agent's answer, so the polls stay one reply behind. With `REPLY_ACK` = 0 a tail also passes as an ACK. |

Each property of a passing run has a mutant in `PROJECT.json`: a plausible bug
in a mapped definition that makes TLC report the property violated. Examples
are a dropped inter-arrival check, a loop condition `<=` instead of `<`, a
collect loop that skips a failed agent, a read without a deadline, a collect
loop that ends one agent early, a stepQual that stops at the first error,
and a samples field read without its length test.

### Bounds

- `MCStats`: up to 3 replies in total, values {1, 4} for latencies,
  {0, 2} for counts and durations, and {1, 4, 1000000} for reducers. Three
  replies are enough for "first", "last" and "minimum" to differ, for a
  truncating mean to round, and for the sentinel to tie.
- `MCQual`: a latency and a symmetric agent, with the code's own rates
  (loads 10000 and 20000, -lqps 4000), `maxTries` = 10, `maxDuration` = 900,
  samples 10000 and reducers {1, 4}. Samples of 10000 cross 900 s after a few
  reductions, so the maxTime path is reached. Reducer 1 makes a retry that
  makes no progress. Two measuring agents let one report be short while the
  other is IID. Two loads make the second one start from a rate the first
  reduced. Short reads are on. The violation runs add a throughput agent or
  change the population, and turn short reads off (except `qual_short_read`),
  so that each trace shows its own cause.
- `MCDriver`: one agent of each kind, so every list of `fixedPattern` is
  non-empty and the orders differ. 2 polls stand in for the code's 60. One
  step is used for the fixed run, and two for the stale-reply run. Short
  reads are off except in the short-read run, so that each trace shows its
  own cause. Any
  agent may crash at any time, so every position of a failed write in a
  broadcast is reached. The four flag combinations, and a failure at every
  launch and dial, are all in the fixed run.
- `MCRunExp`: the six pattern names, plus one unknown name. Fields are from
  {0, 1, 2, Bad} and there are up to 5 fields, so every read of both
  branches, and both optional reads, are present, absent or bad. Start >
  end is included.

### Fairness

The coordinator is one goroutine and every wait in it but one is bounded by
a sleep or a read deadline. The exception is `ssh.Dial` in `runAgent`,
whose `ClientConfig` sets no timeout; `Driver` models a stalled handshake as
the state `sshStalled`, which fairness does not force out of. Its steps are therefore weakly fair (`WF_vars(Coordinator)`
in `Driver`, `WF_vars(Next)` in `Qual`, whose every step is the coordinator's).
The agents are given no fairness, because an agent may never answer, and
`AgentCrash` is allowed at any time. `Termination` must hold whatever they do.
`AtomicCommand` asks for weak fairness of a command's return. `Driver`
justifies it, because every collect read has a deadline.

## Not modelled

- The ssh mechanics of `deploy.go`, `config.go`'s list splitting and flag
  values, the JSON map's content and the printing. These are I/O and
  formatting. Their control flow is in `Driver`.
- The message layout. A msg1 reply is split at most once, and stats
  replies are not split in `Proto` (their short read is in `Qual`), because
  the one-shot pattern never reads a stats reply's tail: the throughput and
  latency reports go to disjoint agents.
- uint32 truncation of the load and sample count in the frames
  (proto.go:197, 221). It needs values far outside the code's magnitudes.
- The 5 s startup sleep against the agents' start time. There is no
  clock, so any dial may fail.
- `collectConvergenceResults`, which no pattern calls.
- `fixedTimePattern` and `fixedRepeatPattern`. runExp's outer test
  (coordinator.go:417) admits only fixed, fixedQual and fixedSteady, so its
  inner test for fixedRepeat (438) is never true: both are dead code, and
  "fixedRepeat:<load>", which spec 4.F lists, is rejected as an unknown
  pattern. This is read off one condition and is not given a run.
- A step of 0 or less. `StepLoads` gives "unbounded" and stepPattern
  never ends (coordinator.go:377). The spec prescribes nothing for it, so no
  property is checked.
- Whether the sampling rate should carry over between loads. The code
  carries it, the spec says only that each step is qualified, and `qual`
  checks that the carried rate keeps the checks and termination intact.
- The agent's restart. A crashed agent stays dead, because the coordinator
  never reconnects.

## State of the project

This is the project's final state. What remains out of reach:

- `Qual` is not composed with `Proto`. Its command failures are
  `CommandFails`, any command of an iteration returning an error. The
  collect loops' own behaviour is checked in `Driver`, which runs the same
  commands; composing the two multiplies the retry loop's states by the
  sockets' and is beyond a five-minute run.
- The remaining hazards without a property (PROJECT.json) are sleeps and
  32-bit wrap-arounds at magnitudes the properties do not compare, an ssh
  start whose result the code never reads, and the ssh handshake without a
  timeout, which `Driver` models (`sshStalled`) but no bound can be checked
  against.
