# rtl-agent in TLA+

rtl-agent lets a coding agent write and repair hardware descriptions (RTL) in bounded turns,
compiles what it wrote, simulates it, and seals the evidence. This directory holds TLA+ modules
that model the program, the configurations that check them with TLC, and proofs that TLAPS checks.
`PROJECT.json` lists components, runs, mutants of every property, the source lines behind every
definition, hazards and theorems.

    tlc -workers 2 -config MCRunPublication.cfg MCRunPublication    # check a model
    tlapm Batch_proofs.tla                                           # check its proofs

Paths below are relative to the repository; `core-loop/` is `packages/core-loop/src/`.

## 1. Inventory

The repository has two systems that share little but conventions: the *workflow domain* of Phase A
(an event-sourced approval workflow, without an executor so far) and the *Core Loop* (runs of an
Agent in a workspace of their own, batches of runs, and the experiments built on them).

| Component | State it keeps | Operations | What is hard | What makes it correct |
|---|---|---|---|---|
| Workflow domain `packages/domain` | none; a task state, its version, its pending review | `decide`, `evolve`, `replay` | decisions on stale states, commands delivered twice, reuse of a review id | a stream replays to its projection, a command acts at most once, a decision meets the review it was made for |
| Store and executor `packages/storage`, `apps/workflow-*` | stubs | append, load | executors that race or crash | one linear history |
| Run orchestrator `core-loop/run-orchestrator.ts` | attempt counter, its limit, feedback files, evidence files, state number | baseline validation, Agent turn, compilation, confirming compilation, simulation, sealing | one counter for two kinds of repair; a workspace others can change; every write may fail | a legal run always gets a verdict; a pass rests on two compilations; sealed evidence is complete; the budget holds |
| Agent adapters `core-loop/agent-adapter.ts`, `pi-agent-adapter.ts` | probed capability, locked configuration, three manifests | `probe`, `runTurn` | files are read one by one while the Agent's leftovers write; outcomes overlap | tampering is reported, nothing else is; one configuration per run |
| Process supervision `core-loop/opencode-process.ts`, `compiler-process.ts` | a child, its group, timers | wait, terminate, release | kills that fail or hang, a close that races a deadline, helpers that hold pipes | answers are honest and always come; nothing of a group survives |
| Compiler adapter `core-loop/compiler-adapter.ts`, `compile-preparation.ts`, `compiler-diagnostics.ts` | a bound request | prepare, probe, compile, classify | the workspace changes between any two scans; ends and diagnostics overlap | the verdict is on the content requested; only design errors are repaired |
| Materialization `core-loop/materialize.ts` | runs root, staging and temporary directories | `createCoreLoopRun` | calls race for names, staged files change, crashes | nothing half is published; a success stays one |
| Batch evaluator `core-loop/batch-evaluator.ts`, `evaluation-metrics.ts` | results so far, failure of hooks, published batch and review | preflight, case execution, hooks, metrics, checkpoint, review | failing cases and hooks, staged checkpoints, zero denominators | every case counted once; PROCEED is earned; a review only lowers |
| Evidence store `core-loop/evidence.ts` | files | exclusive publication, replacement | a failure between two files | a file is published whole, once |
| Memory `core-loop/memory*.ts`, `pi-memory-consolidator.ts` | numbered snapshots with a parent, staging directories, the pool of a build, the pin and the advice of an evaluation | load batches, consolidate, persist, pin, select, render | nothing locks the store: builds race for a number; batches are still being written when they are pooled; best-effort failures | one chain of snapshots that loses no evidence; items of pooled evidence only; an evaluation uses the snapshot it pinned |
| Experience `core-loop/experience*.ts` | summary of a case, audit of what the summarizer read | eligibility, two turns of the summarizer, persistence | a summarizer that reads what it may not, a run that ends after its verdict | an Experience is of an eligible trajectory and of what was read |
| Functional simulation, mismatch analysis `core-loop/verilog-eval-simulation.ts`, `mismatch-analyzer.ts`, `observed-issues.ts` | verdict and RTL of a case, sealed functional result, analyses, the journal of observed issues | simulate, publish, seal, analyze, reanalyze, enter | a verdict older than the RTL, callbacks that throw, two processes that rewrite one journal | verdicts are of the candidate; the sealed result is true; conclusions are of unchanged inputs; the journal loses no entry |
| Coverage experiments `core-loop/*coverage-experiment.ts`, `tools/mutation/target-*.ts` | assets of the workspace, rounds, turns, feedback, repairs left, points of the first round | baseline, turn, capture, simulate, score, repair, result; the guards of a target run | rounds and attempts drift apart; what was measured, kept and reviewed are three directories; a testbench that changes the points it is scored by | a reviewer sees what was measured; feedback is of the last attempt; gains are comparable; one treatment per run |
| Mutation campaigns `tools/mutation/*-campaign.ts`, `resume-fifo-usage.ts`, `family-*.ts`, `verification-preparation-recovery.ts` | four lock files, queues, progress, seals | start, draw, record, stop, seal, resume, release | files checked one after the other, failures between two of them, children that outlive their parent | nothing runs uncovered; no sample twice; a seal is the whole queue; no lock is stolen |
| Work items of verification campaigns `tools/mutation/verification-work-items*.ts` | ledger, history of evidence, files of the context | three turns, capture, golden runs, review | evidence inherited, cited or associated after the files changed; turns that fail halfway | resolved means executed in exactly the files handed over; no item is lost; a result is of the last turn |
| Datasets, providers, CLI, policies, asset tables | none of their own | read, download, compare, wire | | |

How they interact: the CLI wires everything and passes hooks. The batch evaluator asks a provider
for cases, *materialization* for a run per case and the *orchestrator* for its validation and
execution, one case at a time, and calls the completion hook after each. The orchestrator calls an
*Agent adapter* for a turn and the *compiler adapter* for a compilation; both start processes
through *process supervision*. Simulation and Memory selection reach the orchestrator, Experience and mismatch
analysis the batch evaluator, as optional callbacks of `evaluate`; `memory-build` and `reanalyze` are
processes of their own beside it. A coverage experiment uses the same Agent adapters and runners of
its own; campaigns start whole experiments as child processes and share nothing with each other but
lock files. The parts of a run share nothing but its directory, which the Agent,
and anything it leaves behind, writes to as well: that directory is where most hazards of this code
are.

## 2. Modules

| Module | Models | Checked by | Proved in |
|---|---|---|---|
| `WorkflowDomain` | `decide`, `evolve`, `replay`, transition table, invariants | `MCWorkflow` | `WorkflowDomain_proofs` |
| `WorkflowExecutor` | the domain under several executors and one store | `MCWorkflow` | `WorkflowDomain_proofs` |
| `SpecApproval` | abstract specification: what the workflow promises about a review | as PROPERTY of `MCWorkflow` | refinement in `WorkflowDomain_proofs` |
| `RunOrchestrator` | one run, from baseline to sealed result | `MCRunOrchestrator` | `RunOrchestrator_proofs` |
| `EvaluationMetrics` | counters, rates, checkpoint, review, as operators | through `BatchEvaluator` | `Batch_proofs` |
| `BatchEvaluator` | one batch and its review | `MCBatchEvaluator` | `Batch_proofs` |
| `ProcessSupervisor` | both supervisors on both platforms | `MCProcessSupervisor` | `Adapters_proofs` |
| `CompilerAdapter` | preparation and compilation | `MCCompilerAdapter` | `Adapters_proofs` |
| `AgentTurn` | turns of either adapter in one run | `MCAgentTurn.cfg` | `Adapters_proofs` |
| `RunPublication` | several calls of `createCoreLoopRun` | `MCRunPublication` | `Batch_proofs` |
| `MemoryStore` | builds and evaluations on one Memory | `MCMemoryStore` | `MemoryStore_proofs` |
| `MemoryChain` | abstract specification: what a Memory promises its readers | as PROPERTY of `MCMemoryStore` | refinement in `MemoryStore_proofs` |
| `CasePipeline` | simulation, Experience, sealed result, analysis and journal of a batch, with reanalyses beside it | `MCCasePipeline` | `CasePipeline_proofs` |
| `CoverageExperiment` | one experiment of three kinds, plain or as a target run | `MCCoverageExperiment` | `Verification_proofs` |
| `WorkItemLoop` | the three turns of a verification run with work items, and the context it writes | `MCWorkItemLoop` | `Verification_proofs` |
| `CampaignLocks` | jobs of `tools/mutation` and the files that keep them apart | `MCCampaignLocks` | `CampaignLocks_proofs` |

**WorkflowDomain / WorkflowExecutor.** A state is a record of the version, the pending review and
the rest the guards read; `Decide` keeps the order of the code's refusals, `EvolveBatch` its checks.
Phase A commands yield one event, so a batch is one event. The executor and the store do not exist
in the repository: they are external, drawn from what the domain's arguments are for. An executor
loads, decides (with any command and any clock), appends or meets a conflict, and may crash between
any two steps; commands are delivered any number of times.

**RunOrchestrator.** `pc` names the places where the workspace can change under the orchestrator: a
step is the code between two of them, with all evidence it writes. Every write may fail after any
prefix of the writes of its step, every external call may throw. Digests are the contents
themselves. Evidence is a sequence of file names, so order and collisions show. `fault` and
`drifts` are history: whether the environment failed the run, how often rtl/ was changed.

**BatchEvaluator.** A run is one of the results its schema allows. Cases are executed in order;
hooks fail or not; materialization, validation and execution fail or abort the batch. Rates are
compared by cross-multiplication. Review is an action of its own with any set of dispositions.

**ProcessSupervisor.** One child, one helper it may start (which may hold its pipes), a kill routine
with its own control state, and deadlines. Time is abstracted: an armed timer may fire in any step.
Processes end, ignore signals, and `taskkill` fails or hangs.

**CompilerAdapter.** The workspace has one of a few contents and changes between any two steps.
`seen` and `reverted` are history, for the one thing scans cannot notice: a content that comes back.
The compiler ends in any way with any output up to a length, its deadline passes before or after
that, and its termination may fail: in a result the timeout, the signal, the exit code and the
confirmation of the end are fields of their own that hold together. The classification asks for
them in the code's order.

**AgentTurn.** The directory is four files in the order a scan reads them. Each scan reads one file
per step while the Agent (during its process and, if its end was not confirmed, afterwards) and
others write. The Pi adapter's checks of its configuration before and after the process are steps;
a setting may be changed and put back between any two of them. `unwatched`, `touched`, `ran`, `past`
and `restored` are history.

**RunPublication.** Per call: stage, scan, look for a free name, copy, verify, three evidence files,
rename, clean up. Others create and remove directories under the same names (with files, or empty,
which a rename may replace), change the staging directory, and any call may fail or die at any
step.

**MemoryStore / MemoryChain.** A snapshot is what each item has as evidence, its parent and its
author. A build scans each batch it was told to pool and reads its files one by one, comparing
digests, while the evaluation may still create and write them in place: a scan and a read may both
find half a file. What it reads becomes an ordered pool without duplicates, which the operations of
the consolidator name by index: the answer is good, names indexes out of the pool, misses or repeats
some, asks for forbidden or malformed items, adds too much, or does not come. The build repairs,
checks and applies it and publishes: list, stage, rename, load again. An evaluation pins a snapshot,
renders advice before every turn, and in `read_write` mode writes Experiences. There is no lock in the
code and none in the model; every read and write may fail, on intact files as well. `MemoryChain`
knows the items of the snapshots, in order, and nothing of processes.

**CasePipeline.** RTL is known by the attempt that wrote it last, so a verdict can be told to be of
another candidate. The run of a case is what `RunOrchestrator` shows of it: attempts that compile or
not, repairs after mismatches while some are left, an end that need not be a pass. After it come the
callbacks, each of which may throw, the summarizer with its two turns and its audit, the sealed
functional result, and the analysis with its lock and its rewritten journal. A reanalysis does the
last part for this batch or an earlier one, at any time; every process may die at every step.

**CoverageExperiment.** The three programs share their actions and differ where the code does, in
operators named for the kind (`EvalProtectedChanged`, `I2cProtectedChanged`, ...). The workspace
records which attempt wrote the assets and whether DUT and other files are the locked ones; a report
is the set of points a simulator finds and those that were hit, so that a score can be compared or
not. `context` and `captures` are what is on disk, `turns` what each turn was given. A target run
wraps adapter and runner: it freezes a Memory, injects an addendum, and refuses an altered topology
or another set of points.

**WorkItemLoop.** A content stands for the mutable files, a location for lines in them, an observation
for a location that a passing golden run of some attempt executed. An Agent writes any of a set of
ledgers; `Accepts` and `Confirmed` are the review, which the loop makes twice per turn, before and
after the golden run; `history` is the evidence it keeps. Adapter, capture and runner are
dependencies that answer or fail. Before a turn the writer of the context reads every file it ever
wrote again, then writes the missing ones, then the pointer `work-state.json`: one file per step
(`todo` has what is left), with the failures of each. `Spoil` is whoever else writes there, before,
between and behind those steps; `before` remembers what was spoiled when the writer was called.

**CampaignLocks.** One job is one operating system process; its `pc` stands between two awaits. A
job of every kind takes and checks the files in its own order, draws samples with a child process,
records them, stops, seals and releases; a target campaign has a second child per sample, the replay
after the audit. A child ends, is signalled, may leave processes of its own
behind, and may fail to be killed; every write while it runs may fail; a job may die at any point
without a handler. Nobody removes what a dead job left, except the resumption of its own queue.

## 3. Runs

All runs finish within two minutes on two workers.

| Run | Question | Bounds, and why they are enough |
|---|---|---|
| `workflow` | Is every command effective at most once, replay equal to the projection, a decision of the review it was made for though review ids are used again, the abstract approval workflow implemented, under two racing executors? | two executors (races are between a pair), five batches (start, request, reject, request again with the same id, decide), correct envelopes at every version and one envelope per way of being wrong; time 0..1 gives every order of clocks; executors symmetric |
| `run_repair` | Does every legal run get a verdict within its budget, with a confirmed pass, current feedback and complete evidence? | every category with every kind of baseline; up to four turns: repair of compile errors, of mismatches and both mixed; two compilable contents, one refused, one empty; one change of rtl/ by others; two compiler versions |
| `batch_evaluation` | Is every case counted once whatever became of it, and is PROCEED earned, before and after the review? | two cases of the two kinds that differ in their counters (blank, prompted); three profiles: lenient, strict, with a recovery threshold; every run result the schema allows. One case is too few to mix valid and invalid, two mix them; other categories differ in the counter they go to only |
| `process_supervision` | Are answers honest and do they always come? | both tools on both platforms, one process and one helper: the state is finite, nothing is cut |
| `compiler_adapter` | Is a verdict on the requested content, and only a design error repaired, whatever timeout, signal, exit code and failed termination come together? | three contents, so a change is noticed, returns or meets an include; every combination of the fields of a result that the supervisor can report; outputs up to two lines of every kind with room for two issues; changes are not bounded |
| `agent_turn` | Is tampering reported whatever else happened, and the innocent not blamed? | two turns (what a turn leaves for the next), two writes of the Agent per turn (tamper and change RTL), one write or change of a setting by others |
| `run_publication` | Is what is published whole, a success definitive, and does every call end? | two calls that collide, one with more names than it may try and one with no other, so both ways of running out happen; two contents |
| `memory_store` | Is what the store publishes one chain of earned evidence, are answers of builds true, and is advice of the pinned snapshot? | two builds (races are between a pair) that share a batch its `read_write` evaluation is still writing, one of them with another batch and an Experience both batches have; a `frozen` evaluation; two Experiences of two cases, so an operation can name one, both or an index out of the pool; three snapshots, two items: one to extend and one to add; nine answers, one per way of being right or wrong; one ADD and one selected item, so both limits are met |
| `case_pipeline` | Is a verdict, an Experience, a sealed result, a conclusion and an entry of the journal what it says, with a reanalysis at work beside the evaluation? | two cases, of which one may be invalid or not materialized; two attempts and one functional repair, so an attempt can follow the verdict; one reanalysis, of this batch or of an earlier one, by the other backend |
| `coverage_experiment` | Does a reviewer see what was measured, a turn what happened last, a gain what is comparable? | eleven setups: each kind with and without threshold and with the limits where rounds and attempts differ, and five treatments; points of two lines, a branch and a toggle, with another line, another instance and a DUT without lines among the reports |
| `campaign_locks` | Is nothing running uncovered, no sample drawn twice and a seal the whole queue? | eight jobs of seven kinds, three at a time in nine mixes: every two kinds that can meet do; queues of one to three samples, resumed at the second |
| `work_items` | Is resolved work executed in the files handed over, no item lost, the result of the last turn, and the Agent told the truth? | three turns, as in the code; three contents, so files change, return to the baseline or drop what was done; three items, one more than allowed; some forty ledgers, one per way of being right or wrong; both conditions with and without advice of a source; five files of the context, one of each kind the writer treats differently, of which one at a time is somebody else's (`MaxSpoiled`): one is enough to mislead, and the steps at which it is written are not bounded |

All runs pass. Five more properties stand in the modules and no run lists them, because the code does
not keep what a document of the repository says; TLC refutes each when it is added to the
configuration named, most quickly with the smaller constant given:

* `RunOrchestrator!FirstPassPreserved` (`MCRunOrchestrator.cfg`, with `Configs <- SimulatedConfigs`): a
  functional repair turn that no longer compiles uses up the budget, and the result reports no passing
  attempt although one was confirmed (`docs/decisions.md:2187`).
* `RunOrchestrator!SealedRtlIsCompiled` (`MCRunOrchestrator.cfg`, with `Configs <- PlainConfigs`): the final manifest is scanned again
  and not compared with the compiled one (`docs/tasks/R04-bounded-repair-loop-and-evaluation.md:246`).
* `BatchEvaluator!ReviewSampleComplete` (`MCBatchEvaluator.cfg`, with `Profiles <- OneProfile`): the review of an INCONCLUSIVE batch is published with part of the sample unreviewed
  (R04:236).
* `ProcessSupervisor!TreeGone` (`MCProcessSupervisor.cfg`, with `Supervisors <- AgentSupervisors`): on Windows the forced kill of the tree is
  skipped when the process itself closed (`docs/tasks/R02-opencode-rtl-agent-protocol.md:245`).
* `CompilerAdapter!DesignErrorIsReported` (`MCCompilerAdapter.cfg` with `Outputs <- NoisyOutputs`): a
  design error behind as many warnings as issues are kept is TOOL_ERROR
  (`docs/tasks/R03-fixed-non-authoritative-compile-adapter.md:165`).

The modules state further properties that hold in the same configurations, and that no run lists to
keep the list to what says most: `ReplayFailsClosed`, `HistoryIsLinear`,
`EvidenceNeverCollides`, `CompletedMeansEvaluated`, `ReviewOnlyLowers`,
`HooksFollowExecution`, `HookFailureKeepsResult`, `ConfigPinned`, `TreatmentIsPure`,
`LocksAreNotStolen`, and the type invariants. Those of them that are proved are in section 5.

Every property of a passing run has a mutant: a plausible bug in a mapped definition (a dropped
guard, another order, a missing reset) that TLC finds with the same configuration. The bugs stand in
the modules next to what they change, as operators no specification uses.

**Deadlock.** It is checked except where the system stops: `process_supervision` and
`compiler_adapter` end when the answer is given, `memory_store`, `case_pipeline`,
`coverage_experiment`, `work_items` and `campaign_locks` when their processes have ended or died. Elsewhere the
stopped state is a step of its own (`Over` in `AgentTurn`) or others go on writing.

### What modelling showed

Places where code and documents disagree, or where the code is weaker than it looks, that no
configuration is kept for:

* `docs/coverage-experiment.md:52-53` calls failures of the simulation and timeouts terminal; the code
  sends them back for repair. `:54-55` says that an exhausted budget after a successful round stops as
  MAX_AGENT_ATTEMPTS; with the default of two rounds a failing third attempt gives FAILED, and only
  three rounds reach that reason. In the I2C experiment the same clause cannot be reached, and its
  document's "stops at 90%" needs `--coverage-threshold`.
* The project experiment keeps the baseline's coverage when `coverage-round-1.json` cannot be written,
  though its comment says a failed baseline stays null; the next turn is then refused its input.
* In the "eval" experiment only `rtl/dut.sv` is compared after a turn.
* A family command looks for the campaign lock before it writes its marker, a campaign for the marker
  after it took the lock: both may run until the next tick of the monitor (500 ms). The target campaign
  never reads the marker.
* The usage campaign and its resumption release the lock on a result even if a child left processes
  behind; the directed one keeps it, with a comment that says why. The target campaign always unlinks.
  `EveryProcessIsCovered` therefore asks for left-over processes of the directed campaign only.
* A log opened before the `try` of a family command leaves the marker behind when it fails.
* A usage campaign can be resumed once: the resumption claims a directory that a second one finds.
* `docs/memory-v1.md:303` says that a failed publication publishes no new snapshot. The snapshot is
  renamed into place before it is loaded again: when that last read fails (`memory.ts:562`), the build
  answers FAILED, its snapshot is published and stays, and the next build extends it.
* The Pi adapter takes digests of the shared configuration, credentials and tool policy before and
  after its process (`pi-agent-adapter.ts:625-640`): what is changed and put back in between goes
  unnoticed, which `ConfigPinned` says. Its extension file and guidance are not compared again at all.
* The context of a verification run is checked before its pointer is written
  (`verification-workflow-context.ts:141-195`): a file written in between is told to this turn's Agent
  and noticed before the next. `ToldByTheHarness` therefore promises one misled Agent at most, not none.
* The eligibility reason REPAIR_COMPILE_FAILED of an Experience is never reached, and a second
  summary in the same workspace fails.

## 4. Fairness and liveness

* `RunOrchestrator` states safety only. That a run ends follows from `BudgetRespected`, from the
  timeouts of its external calls (`ProcessSupervisor!AlwaysAnswered` shows it of processes) and from
  its control flow, which goes back to a turn only with a new attempt number.
* `BatchEvaluator`: weak fairness of the batch's work, not of the review: nobody has to review. No run
  lists a liveness property of it.
* `ProcessSupervisor`: weak fairness of armed timers and settled promises. Neither the process nor
  the kill has to end. `AlwaysAnswered` holds all the same.
* `RunPublication`: weak fairness of each call's operations without the failures, so a call that
  could only end by failing would show. `EveryCallEnds`.
* The others state safety only: their processes may die at any step, and nothing restarts them.

## 5. Proofs

Every listed theorem but the lemma `DecideOutcome` is `Spec => []P`, an action property or a
refinement, for all values of the constants under the named assumptions of its module
(`CommandsAssumption`, `CommandIdsIdentify`, `BoundsAssumption`, `SupervisorsAssumption`,
`CompilerAssumption`, `PublicationAssumption`, `ConstantsAssumption`, `MemoryAssumption`,
`JobsAssumption`, `LoopAssumption`, `CoverageAssumption`, `BatchAssumption`, `AgentTurnAssumption`, `PipelineAssumption`, and the assumptions that `None` and its like are no ordinary
values), which TLC evaluates in the runs. None of them bounds a number of processes, turns, items or
samples. Every inductive invariant was checked by TLC, with the constants of the runs or smaller
ones, before it was proved.

* **Workflow** (`WorkflowDomain_proofs`). `TypeOK`, `HistoryIsLinear`, `AtMostOnce`,
  `DecideNeverCorrupts` and the refinement of `SpecApproval`, for any number of executors, commands,
  tasks and reviews. `AtMostOnce` is not inductive: a held batch may name a command that somebody
  appended since it was decided. `IInv` adds that the versions of stream and projection agree, that
  what an executor holds is what `decide` answered to the state it loaded (`HeldIsDecision`), that
  loaded states are valid, and that every appended batch was decided at the version its command
  expects (`EffectsExpected`); a store that compares versions then leaves no room for the second
  append. The lemma `DecideOutcome` does the
  work once: from a valid state, `decide` returns a batch that leads to a valid state, or a refusal
  that is no integrity error.

  `ProjectionIsReplay`, `ReplayFailsClosed` and `DecisionMeetsItsReview` are proved as well, although
  `Replay` is a recursive function and induction over a stream is out of reach. What is provable is
  one step of it: `Unfolds` says of a function that it satisfies the recursion on a stream, `ReplaysTo`
  that there is such a function and what every one of them ends with, and `ReplayGrows` that
  appending a batch applies `evolve` once more. `StreamInv` then follows the recursion along the
  history: the induction is the one over steps, which an invariant is for. It also carries that event
  ids are used once (`IdsFresh`) and that a pending review is of the last event (`PendingIsLast`).
* **Process supervision** (`Adapters_proofs`). `SupervisorTypeOK`, `HonestAnswer`, `GroupGone` on
  every platform. The invariant adds that a closed process stays closed (`CloseIsFinal`), that a kill
  routine that finished has done its work (`DoneMeansKilled`) and what the supervisor may conclude in
  each of its states (`Knowledge`).
* **Compilation** (`Adapters_proofs`). `CompilationTypeOK`, `VerdictIsOfRequest`,
  `OnlyDesignErrorsAreRepaired`, for all contents, outputs and combinations of the fields of a process
  result. The latter rests on what the supervisor can report of an end (`Reported`), carried through the
  scans after it to the chain of questions. The invariant `BindingInv`: while a
  request is bound, the workspace equals it and no content came back, the compiler has read nothing
  else. The three adapters stand in one module of proofs because each is small; they share neither
  variables nor constants, so every theorem is about the specification it names.
* **Agent turns** (`Adapters_proofs`). `TypeOK`, `TamperingIsReported`, `InnocentNotBlamed`,
  `ConfigPinned`, for either adapter, any number of turns and any writes. A manifest is taken file by
  file, so the invariant says of every file what the scan that passed it can and cannot have missed:
  `ScanInv` of the files read so far, `WatchInv` that a file which differs from a manifest was written
  since it was read, or in the gap that no pair of scans spans (`unwatched`), `TouchInv` that manifests
  which disagree owe it to a write during the turn. `PinInv` follows a setting through the process: one
  that departed from what the first turn locked, and has never been put back, is still different when
  the digests are taken again, and the turn is refused; `PastInv` says which versions were in force.
* **Publication** (`Batch_proofs`). `PublicationTypeOK`, `PublishedIsWhole`,
  `SuccessIsDefinitive`, for any number of calls, names, contents and collisions. The invariant adds that a staging directory
  exists until the clean-up (`StagingInv`) and what a temporary run is worth at each step
  (`TemporaryInv`): complete only at the rename, of the digested content since its verification.
* **A batch** (`Batch_proofs`). `TypeOK`, `EveryCaseCounted`, `ProceedIsEarned`,
  `CompletedMeansEvaluated`, `ReviewOnlyLowers` and `HooksFollowExecution`, for any number of cases and
  any evaluation profiles, results and reviews. `PreflightInv` and `CaseInv` say that the preflight
  leaves no case without a validation and the execution no valid case without a result, `AssessedInv`
  that what is published was computed of what the batch still says. The rest is arithmetic of finite
  sets: `SliceTotal` (the counters partition a slice), `FirstMany` (the cases with fewer than n before
  them are n, or all: ranks are a bijection with an interval, so no induction is needed),
  `SampleFacts` (so a sample without pending reviews is as large as the plan asks), and
  `InconclusiveStays` (what makes a checkpoint INCONCLUSIVE does not depend on reviews).
* **A run** (`RunOrchestrator_proofs`). `TypeOK`, `IncompleteOnlyOnFault`, `FeedbackIsCurrent`,
  `PassIsConfirmed`, `BudgetRespected` and `SealedEvidenceComplete`, for every configuration of
  attempts and iterations the schemas accept and any compiler and Agent. The invariant has two layers.
  `LoopInv` is about the loop; its heart is `BudgetInv`: `attemptLimit` is `maxAttempts` until the
  repair of mismatches begins and then a fixed distance from where it began, which is what keeps every
  attempt number within the schemas and so makes the INCOMPLETE result after the loop unreachable.
  `ObservationsInv` numbers the compilations (at most one per attempt and phase), without which "the
  last two compilations" would not be the two of the last attempt; `FeedbackInv` and `ContextInv`
  follow a feedback file from the attempt that caused it to the turn that reads it. `EvidenceInv`
  rests on it: which files there must be follows from what was observed (`AttemptsInv`), and the state
  files number without a gap (`NumbersInv`). That a step publishes what its plan says (`PublishedMore`)
  is the lemma all actions share.
* **Memory** (`MemoryStore_proofs`). `TypeOK`, `EvidenceIsEarned`, `AnswersAreTrue`, `AdviceIsPinned`
  and the refinement of `MemoryChain`, for any number of builds and evaluations and any answers of the
  consolidator. Nothing is locked, so the invariant says what a process knows at each of its steps:
  the number it publishes under is the successor of the snapshot it listed last (`ProcessInv`), a draft
  is what the recorded operations make of its parent (`BuildInv`, `Consolidated`), and whoever published
  a snapshot has not begun anything else since (`WellPublished`). That the evidence of such a draft is
  that of accepted Experiences, and that each accepted one is found in the item of its operation, are
  lemmas about the operators (`AppliedIsEarned`, `AcceptedIsFound`): they need that the operations
  handle every index of the pool exactly once. A rename that finds its number free has then extended the
  latest snapshot, since the numbers have no gap (`ChainInv`).
* **Campaigns** (`CampaignLocks_proofs`). `TypeOK`, `EveryProcessIsCovered`, `SampledOnce`,
  `SealIsTheQueue` and the action property `LocksAreNotStolen`, for any jobs, started in any mix, dying
  anywhere. `CoverInv` says of one job which file it holds at each step and where a process of its may
  still run. `ResumeInv` is what a resumption needs: it rewrites a lock without holding it, which is
  sound because the lock is of a campaign that stopped at a boundary and left no child (`Abandoned`),
  and because the directory it claims lets one resumption in. Since only the holder of a lock draws,
  `QueueInv` can count the draws of every queue; `ProgressInv` carries the count from the stopped
  campaign to the resumed one.
* **Work items** (`Verification_proofs`). `ResolvedIsObserved`, `ItemsAreKept`, `ResultIsOfTheLastTurn`
  and `ToldByTheHarness`, for any contents, ledgers and simulations and any number of turns and
  items. None is inductive. `HistoryInv` (one golden run per attempt, nothing observed by a failed one)
  is why an inherited observation of the same files can be trusted; `KeepInv` relates the previous
  ledger to every ledger accepted before; `TurnInv` empties the result at the start of a turn, which is
  why a turn that fails halfway cannot answer with the snapshot or the ledger of an earlier one. For
  `ToldByTheHarness` the invariant says at each step of the writer which files it has still to read
  again: what was spoiled before it was called and is not among them stops it.
  `NoneAssumption` says that `null` is neither a snapshot nor a ledger.
* **Coverage experiments** (`Verification_proofs`). `ReviewedAssetsAreMeasured`,
  `FeedbackIsOfTheLastAttempt`, `GainIsComparable`, `TreatmentIsPure` and the types, for any experiments
  of the three kinds, any coverage points and reports, and a catalog that changes at any moment. The
  invariant `ExperimentInv` relates what an experiment keeps in different places: the workspace to the
  assets kept as evidence (`AssetsInv`: protected files are compared before anything else is done
  with them), turns to attempts (`TurnsInv`) and rounds to attempts (`RoundsInv`: at most one round per
  attempt, none of an attempt under way, so the two counters drift apart in one direction only).
  `LoopInv` says what the next turn will be given, and that no attempt is sent back for repair after
  the last one: without it a budget could be spent on assets that were never measured, and still ask
  for review. `GuideInv` keeps what no condition asks for out of the workspace. The DUT's coverage
  points must be finite sets to have a score.
* **Cases of a batch** (`CasePipeline_proofs`). `TypeOK`, `VerdictIsOfTheCandidate`, `ExperienceIsEarned`,
  `SealedBatchIsTrue`, `ConclusionsAreGrounded` and the action property `JournalNeverLoses`, for any
  number of cases, attempts, repairs and reanalyses. A verdict is published three steps after the
  simulation it is of, with an attempt that may not compile in between; `RunInv` (every simulation is of
  what its attempt left behind), `HandoverInv` (the last simulation is of the last attempt exactly if the
  run passed) and `CaseInv` (cases before the one that runs stay as they ended) carry it there.
  `SealInv` relates the sealed counts to the cases; that they add up is a fact about a partition
  of the cases by their verdict (`ResultFacts`). The journal is read in one step and replaced whole in
  another, perhaps two turns of an analyzer later: `LockInv` says that in between nobody else holds
  the lock and the copy in hand is the journal on disk, `AnalysisInv` what the directory of an analysis
  is worth while tries fail in it, `JournalInv` that what an entry was drawn from is not written again
  (an accepted analysis is reused, a sealed result stays). Steps of the evaluation and
  steps on the journal touch disjoint parts, which two frame lemmas state once (`EvaluationStepKeeps`,
  `JournalFrame`).

Every invariant, action property and refinement a run checks is proved. Only model-checked are the
two liveness properties, `AlwaysAnswered` and `EveryCallEnds` (the provers do not do liveness under fairness), and the further properties
of section 3 that the bullets above do not name.

## 6. Not modelled

Texts (prompts, feedback, messages, diagnostics' wording), schemas beyond what they accept or refuse
here, reading of datasets, downloads, and the command line. Digests are the contents they are of. Within
modelled components: batches of several events (Phase A refuses them); medians and the coverage of
diagnostics; the allocation of a batch's directory; the projection of the
Agent's transcript and its permissions (one step that may fail); reuse of process numbers; the
evidence of the simulator; texts and metadata of Memory items; the reuse of an existing selection,
consolidation or summary (one call per directory); fixtures and formats of coverage reports; the
evaluators and the witness script of `tools/mutation`, which run the same commands in another order;
the liveness of campaigns. The dataset is assumed not to be written while it is read
(`validatedSources` digests the files before it reads them). Outside writers of a workspace are modelled
where a run reads it more than once (`RunOrchestrator`, `AgentTurn`, `CompilerAdapter`, the context of
`WorkItemLoop`, the staging of `RunPublication`), not again in `CasePipeline` and
`CoverageExperiment`: there `rtl/` changes by the turns of the Agent only. Batches of earlier
evaluations are taken to be as their evaluation left them, so of `ConclusionsAreGrounded` the first
conjunct says something of the running batch only. The components without a module are
listed in `PROJECT.json` with the reason.

## 7. Plan

1. A composition of `BatchEvaluator` with an abstract run, and `RunOrchestrator` shown to implement
   that abstract run (created, validated, answered or dropped, sealed last).
2. Restarts of campaigns, and with them their liveness.
