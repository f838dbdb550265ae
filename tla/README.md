# Verification of the autonomous trading strategy factory

TLA+ models of the factory's durable state machines, TLC runs that check them
on small instances, and TLAPS proofs for every size.  The subject is the Python
package `src/src/atsf`; paths below are relative to it.

The factory evolves trading strategies, evaluates them, admits the good ones to
paper trading, degrades and replaces them when their equity disappoints, and
can carry a qualified strategy through a chain of human approval, risk
certificate and order intent to an execution in a sandbox.  Nearly all of it is
sequential Python over one SQLite file.  What is hard is not any one function
but what several of them do to the same tables: processes that interleave
between two statements, crashes between two commits, exceptions that leave a
transaction open, retries of what was already done.

## 1. Inventory

### Live authority chain (`live_authorization`, `live_risk_gateway`, `live_execution_intent`)
- State: none; immutable records that carry fingerprints of what they rest on.
- Operations: authorize a strategy (human approval, requested capital), issue
  and validate a risk certificate (window, capital, loss limit, nonce), build an
  order intent under a certificate.
- Interaction: each layer sees only the record before it; the execution core
  validates the certificate again.
- Correct when: no fill goes beyond what was approved, or out of the window.

### Sandbox execution core (`sandbox_execution`, `sandbox_execution_journal`, `live_execution_intent_store`)
- State: a table of intents (CREATED, CONSUMED) and a hash-chained, append-only
  journal of events per intent.
- Operations: `record`, `consume`, `execute` with or without a journal,
  `append` of an operator's event.
- Hard: `execute` reads journal and intent unlocked and writes later; two
  processes race for one intent; journal and store are written by two classes in
  one transaction; a crash before or after the commit; lock timeouts.
- Correct when: at most one fill per intent, a fill is durable, store and
  journal change together, a closed journal is never filled, calls end.

### Strategy lifecycle (`lifecycle`, `lifecycle_store`, `lifecycle_integration`, `research_lifecycle`)
- State: the stage of each strategy and the history of its transitions.
- Operations: save, transition, synchronize with an evaluation's outcome.
- Hard: the guard reads the stage, the UPDATE does not compare it; the event's
  hash is unique, so a transition made a second time raises after the UPDATE and
  leaves the transaction open.
- Correct when: stages follow the table, every stage was logged.

### Paper admission (`paper_admission`, `paper_admission_record`, `paper_admission_store`, `successor_paper_handoff`, `research_paper_handoff`)
- State: admission records, one per run and strategy.
- Operations: admit a promoted strategy under a run's certificate; hand a
  successor over.
- Hard: transition and record belong to two stores that share a transaction.
- Correct when: PAPER and the admission record commit together or not at all.

### Paper health and control plane (`paper_health`, `control_plane`, `feedback*`, `monitoring`, `paper_replay_feedback`)
- State: the control state of a strategy (ACTIVE, DEGRADED, HALTED), replacement
  requests, feedback events.
- Operations: assess paper equity, process a health report, halt.
- Hard: a chain of separate commits, each a place to crash; a halt that arrives
  between the read and the write of a report.
- Correct when: what is degraded has a durable request; a halt stays.

### Replacement research (`research_registry`, `research_queue`, `replacement_*`)
- State: requests and completed replacement cycles; a queue in memory.
- Operations: find requests that are ready, generate and evaluate successors,
  move the source back to RESEARCH, record the cycle.
- Hard: minutes pass between reading the source's stage and moving it; the
  steps commit one by one.
- Correct when: a recorded cycle really happened.

### Research runner and its ledgers (`research_runner`, `research_control_plane`, `research_cycle_registry`, `research_checkpoint*`, `research_history`, `research_cycle`, `research`)
- State: a registry of generations with a hash-chained audit log, checkpoints,
  an in-memory history.
- Operations: run, resume from the store, persist a generation, verify.
- Hard: the chain's head is read before the lock is held; resume after a crash
  or behind another runner; two writers of one ledger (`research.py:112`).
- Correct when: registry and checkpoints are paired, the chain is intact, a
  resumed run continues exactly the one that stopped.

### Research planning (`portfolio_feedback`, `research_director`, `research_budget`, `research_planner`, `research_queue`, `research_executor`, `research_pipeline`)
- State: a priority queue in memory, shared by callers; the rest is pure.
- Operations: turn the evidence of a generation into signals, rank them, divide
  a budget, queue the requests, make and consume work items.
- Hard: rounding of budgets at their limits; an offer that improves a queued
  request; an entry removed before it is compared; a plan that fails half way.
- Correct when: the budget is spent within its limits, the queue keeps the best
  offer, a caller loses nothing to itself.

### Experiment registry, paper execution, certificates (`registry`, `portfolio_paper`, `paper`, `paper_risk`, `execution_lineage`, `ledger_replay`, `portfolio_executor`, `portfolio_replay`, `reproducibility`, `provenance_graph`)
- State: portfolios, their paper runs with ledger and attribution, the research
  evidence, one certificate per run.
- Operations: save a portfolio, execute it in paper mode, verify a run by
  replaying it, certify it; rewrite evidence.
- Hard: the ledger is explained, reconciled and attributed by code that repeats
  the run by other means and must agree with it, halted or not; a portfolio may
  be replaced while it is executed; evidence is overwritten.
- Correct when: what is persisted can be replayed; a certificate answered is the
  certificate stored.

### Portfolio lifecycle (`portfolio_health`, `portfolio_lifecycle`, `portfolio_lifecycle_store`)
- State: an append-only ledger of health decisions per portfolio.
- Operations: assess, append, verify, show the latest.
- Hard: the latest generation is read before the write lock is held; the reader
  verifies and reads in two statements.
- Correct when: only a race disorders the ledger; what is shown is the newest.

### Data ingestion (`data_cache`, `cached_provider`, `provider`, `ingestion_registry`, `dataset_registry`)
- State: a data file and a manifest per key, a registry of dataset versions.
- Operations: load through the cache, register what was loaded.
- Hard: two files replaced one after the other through temporary names that all
  writers of a key share; a crash between any two of the steps.
- Correct when: whatever is returned was given by the provider.

### The rest
- Population and evolution (`population`, `genome`, `selection`, `successor`,
  ...): candidate generation; bounded loops and uniqueness of identifiers.
- Evaluation pipeline (`backtest`, `walk_forward`, `validation`, `robustness`,
  `promotion`, ...): floating-point work over price series, no state kept.
- Portfolio construction: weights and correlations, no state.
- HTTP API (`api`): handlers in threads over ONE connection.
- Live path audit: a read-only check.

PROJECT.json lists all of them with their files, and every hazard at its line.

## 2. Modules

| module | what it is |
|---|---|
| `LiveAuthority` | the policy layers as operators over their records |
| `SandboxExecution` | processes, one database, the execution core; EXTENDS `LiveAuthority`, whose layers are its actions `Authorize`, `Issue`, `Build` |
| `OnceOnlyExecution` | the abstract promise: an intent is admitted, spent and handed over once, in that order |
| `SandboxExecutionProps` | properties, and the refinement mapping to `OnceOnlyExecution` |
| `SandboxExecutionProofs` | theorems |
| `MCSandboxExecution` | instance for TLC |
| `StrategyLifecycle` | lifecycle, admission, health, control plane and replacement over one database |
| `StrategyLifecycleProps` | properties |
| `StrategyLifecycleProofs` | theorems |
| `MCStrategyLifecycle` | instance for TLC: the wiring of workers to connections |
| `ResearchGenerations` | one generation of research as a function of the state before it |
| `LinearResearch` | the abstract promise: the checkpoints are those of one uninterrupted run |
| `ResearchRunner` | runs, crashes and resumptions over the two research ledgers; EXTENDS `ResearchGenerations` |
| `ResearchRunnerProps` | properties, and the refinement mapping to `LinearResearch` |
| `ResearchRunnerProofs` | theorems |
| `MCResearchRunner` | instance for TLC |
| `MarketDataCache` | one cache key: loads, provider, put, registration |
| `MarketDataCacheProofs` | theorem |
| `ResearchPlanning` | signals, ranking and budget as operators |
| `ResearchWork` | the shared queue and the callers that work through their plans |
| `PaperExecution` | the paper run of a portfolio and what is recomputed from its fills, as operators |
| `PortfolioRuns` | portfolios, runs and certificates in the registry; EXTENDS `PaperExecution` |
| `PortfolioLifecycle` | the ledger of health decisions |
| `PortfolioLifecycleProofs` | theorems |
| `TradingFactory` | composes the five above: EXTENDS `PortfolioRuns` and `ResearchPlanning`, INSTANCEs the others |
| `MCTradingFactory` | instance for TLC |
| `FoldTheorems` | induction along a fold, for an operator that is a constant of the module |
| `PaperExecutionProofs` | the paper run over any market, and what its lineage and attribution say of it |
| `TradingFactoryProofs` | theorems about certificates, paper runs, the queue and the budget; carries the theorems about single stages over to the composition |

Definitions named `...Committing`, `...Unkeyed`, `CheckTableOnly` and so on,
commented "Faulty variant", are not part of a specification.  Each is what a
definition would be after a plausible mistake in the code; with it in place of
the definition TLC violates the property PROJECT.json names beside it.

### 2.1 How SQLite is modelled

Both machines have three variables for the database: `disk` (last commit), `db`
(as the holder of the write lock sees it) and `lock`.  A read sees `db` when
the reader's connection holds the lock and `disk` otherwise.  The first write of
a transaction takes the lock; a write while another holds it either happens
later or raises "database is locked" (`Busy`).  A commit copies `db` to `disk`,
a rollback or a crash does the opposite.  The tables' own constraints (PRIMARY
KEY, UNIQUE, the WHERE of an UPDATE) are guards of the write step, evaluated on
`db`; everything the code checks before is evaluated on what it read earlier.

In `SandboxExecution` every worker has a connection of its own, because its
operations are `with connection:` blocks.  In `StrategyLifecycle` a connection
may be shared and transactions outlive operations: `LifecycleStore.transition`
has no `with`, so an exception leaves the UPDATE in the open transaction, and
the constructor of the next store commits it (`Open`).

### 2.2 Sandbox execution core: state and actions

`store` and `journal` of a database are the two tables.  `pc` is the step a call
is at, `seen` the journal it read, `delivered` a history of the fills callers
have got.  `Record`/`Insert` are `record`; `Consume`/`ConsumeInTransaction` are
`consume`; `Execute`, `Open`, `Judge`, `Lookup`, `Stage`, `Validate`,
`AdmitStep`, `ConsumeInTransaction`, `Settle`, `FillStep` and `Reject`, `Refuse`
are the statements of `execute` in their order; `OperatorAppend`/`AppendStep`
are `append`; `Commit`, `Reply`, `Busy`, `Crash` end a call.

Abstractions: fractions and times are naturals; an event is its state, its
sequence number and chain are its place in the sequence; fingerprints of equal
records are equal; inputs that only refuse a call (kill switch, symbol, damaged
fingerprint) are one flag `clear`; a call in LIVE mode, which returns at once,
is left out.

### 2.3 Strategy lifecycle: state and actions

A database holds the row (stage and reason) of each strategy, its events, the
admissions, requests, cycles, control states and feedback events.  A worker's
operation is one of `sync`, `admit`, `handoff`, `assess`, `feedback`, `replace`,
`control`; `move` is the transition it is making and `resume` where it goes on
after a commit.

| code | actions |
|---|---|
| `LifecycleStore.transition` | `Check`, `Update`, `AppendEvent`, `Commit` |
| `LifecycleStore.save` | `Create`, `InsertRow`, `CreateEvent`, `Commit` |
| `synchronize_candidate_lifecycle` | `Load`, then a transition, then `AfterMove`, `AfterSync` |
| `admit_to_paper` | `Lookup`, `Existing`, a transition without commit, `Save`, `Insert`, `Commit` |
| `handoff_successor_to_paper` | `Preflight`, `Present`, then `admit_to_paper` |
| `assess_paper_health` | `Health`, `SaveRequest`, `NewRequest`, a transition, `Control`, `Mark`, `Provenance`, `Publish` |
| `process_strategy_health` | `Restore`, `Control`, `Mark`, `SaveRequest`, `NewRequest` |
| `run_replacement_cycle` | `Verify`, `Source`, a synchronization of the successor, a transition of the source, `SaveCycle`, `RecordCycle` |
| operator's halt | `Control`, `Mark` |

Abstractions: a request id is the tuple it hashes; an event's hash is the event;
the integrity hashes of intact rows match; the three successors of a cycle are
one, and what it stores on the way (strategies, experiments, lineage) is left
out; the in-memory `StrategyLifecycle` an operation works on is loaded afresh by
each call; the INSERT OR REPLACE of a control state and the INSERT of its event
are one step, being under one lock; certificate, replay and portfolio checks
that can only refuse an admission are inputs; reports that are not degraded
change nothing.

### 2.4 Research runner: state and actions

`cycles`, `audit` and `checkpoints` are the three tables, `proc` the processes:
runners (`research_runner.py`) and evolvers (`research.py`, which writes cycles of
its own into the same registry).  `starts` bounds the instance; `alone` is a
history: the processes beside which nobody else has committed.

| code | definitions |
|---|---|
| `run_research` (runner) | `RunResearch`, `Enter` |
| `resume_research_from_store`, `resume_research` | `ResumeFromStore`, `ResumeSupplied`, `EnterResumed`, `Bound` |
| `_run_from_state`, top of the loop | `Verify`, `CountAtHead`, `Evaluate`, `EvaluationFails` |
| `run_research_cycle`, `record_generation` | `After`, `RecordGeneration`, `CanRecord` |
| `persist_generation` | `Follows` (in `Evaluate`), `Verify`, `Read`, `Write`, `Reload` |
| `save_cycle_in_transaction`, `save_in_transaction` | `CycleFits`, `CheckpointFits`, `AddCheckpoint` |
| `ResearchCycleRegistry.verify` | `RegistryVerifies` and, by a second SELECT, `Counted` |
| `verify`, `verify_generation`, `_validate_pair` | `ControlVerifies`, `GenerationVerifies`, `PairIsValid` |
| `run_research` of `research.py`, its cycles | `Evolve`, then `Verify`, `Read`, `Write` |

Abstractions: evaluation and evolution are deterministic, so a population is
named by the one it descends from and shows its best fitness; digests are what
they digest; a generation's INSERTs and commit are one step, being under the
write lock; the backfill of cycles that predate the audit table is left out, for
it happens once, before there is a second row.

### 2.5 The stages around the runner

Four machines that share no table, file or object; what one leaves, the next
gets as an argument, and these arguments are enumerated.  `TradingFactory` puts
them side by side: `stage`, chosen in the initial state, says which one a
behaviour runs.  An invariant of one stage cannot see the steps of another, so
running one at a time loses none of its states, and the interleavings that
matter, between the processes of one stage, are all there.  The research runner
is not among them because its run needs liveness and a refinement.

**Data** (`MarketDataCache`).  `get` is `Exists`, `ReadManifest`, `ReadData`: three
file operations; `put` is `Open`, `Close` for data and manifest, then two `Rename`.
A file is named by `final` or `temp` and holds a frame or is `Torn`; a writer
keeps the file it opened even when the name has moved on, which is what the
operating system does.  `Lookup` and `Insert` are `DatasetRegistry.register`.

**Planning** (`ResearchPlanning`, `ResearchWork`).  `Signals`, `Prioritize`,
`Allocate` and `Plan` are `build_research_plan` and what it calls, with scores
in thousandths.  `Execute` is `execute_research_plan`, `Consume` is
`consume_research_work`; each is one step, since the queue is an object of one
process and callers take turns.  `offered`, `last` and `lost` are histories.

**Portfolio** (`PaperExecution`, `PortfolioRuns`).  `PaperRun` is
`run_paper_portfolio` over integer money: allocation, trading by sleeve, the
drawdown guard, liquidation.  `Lineage`, `Reconciles` and `Attribution` are the
three recomputations of that run.  In `PortfolioRuns`, `Publish`/`Replace` are
`save_portfolio`; `ReadDefinition`, `ReadMembers`, `Run`, `Insert` are
`execute_persisted_portfolio`; `ReplayVerifies` is
`verify_persisted_portfolio_run`; `VerifyRun`, `Research`, `Graph`,
`SaveCertificate`, `InsertCertificate` are the certificate handler.  Quantities
are rounded down to whole units: the properties compare two computations that
round alike, as the code's two computations use the same broker.

**Lifecycle** (`PortfolioLifecycle`).  `Compare` is `persist_portfolio_health` up to
its comparison with `latest`, `Insert` the transaction; `Verify` and `Show` are
the two reads of the handler.

## 3. Runs

| cfg | states | question |
|---|---|---|
| `SandboxJournal` | 151,163 | do store and journal stay one unit, do journals verify, do calls end |
| `SandboxOnce` | 682,707 | at most one fill, durable, and does the core implement the abstract promise |
| `SandboxAuthority` | 22,315 | do the layers compose to "within what was approved" |
| `RecordRetry` | - | violation: `record` of an identical intent |
| `LifecycleAlone` | 836,532 | one process, every operation, crashes and open transactions |
| `LifecycleProcesses` | 472,169 | two processes with connections of their own |
| `ResearchRuns` | 156,740 | are the two ledgers paired, do crashes and resumptions amount to one uninterrupted run, do runs end |
| `FactoryStages` | 524,450 | the stages around the runner: cache, planning, portfolio, lifecycle |
| `LifecycleHistory`, `LifecycleHalt`, `LifecycleHealth`, `LifecycleApi` | - | violations, see section 6 |

### 3.1 Bounds

**SandboxJournal**: two journaled workers, one intent, and an operator who
appends CREATED, VALIDATED and CANCELLED by hand.  Two writers are enough for
every stale read, one value of each limit for every refusal, since the limits
are the subject of another run.  FILLED and CONSUMED are never the operator's.

**SandboxOnce**: one worker with and one without a journal, two certificates and
two intents that claim the same intent id.  Two claims of one id are what the
primary key decides; two ids never meet in the code, so one id is enough.

**SandboxAuthority**: one worker, two strategies, capital 0..3 around the limits
2 and 1, loss 1..2 around 1, times 0..2, so that every comparison is met below,
at and above its limit.  This is the one run with CHECK_DEADLOCK FALSE: a
certificate that no intent may be built under uses up the bound on certificates
and the instance has nothing left to do.

**LifecycleAlone**: one process; a strategy `s1` whose paper equity is assessed
and its successor `s2`; one cause and number of observations, so that a second
degradation repeats the first one's request and events, which is the case that
raises; two reasons of an admission, so that records can be equal or conflict;
all outcomes of evaluations.

**LifecycleProcesses**: two processes, of which both may admit `s1`, one also
evaluates it and the other assesses and replaces it.  Evaluations pass all
gates here (`ClearVerdict`), and only `s1` is evaluated for itself: failed ones
are in LifecycleAlone and only take strategies out of the race.

Nothing in the lifecycle counts, so its runs need no bound in a guard: event
hashes are unique, hence histories are finite.

**ResearchRuns**: two runners with a checkpoint store and different stop policies
on a population that stagnates, one with a registry alone on a population that
improves, and an evolver of one generation.  `Starts = 3` processes are started
in all, so three run beside each other, or one is killed and resumed twice.
Targets of three generations give every checkpoint that may be met: the first,
one in the middle, the last, and one that stopped.  A supplied checkpoint is any
of this ledger or the first of another run.  Processes end, so CHECK_DEADLOCK is
FALSE.

**FactoryStages**: *data*: two loaders, two frames the provider may give, four
loads; six files are more than names and writers can hold, so `Free` always
finds one.  *Planning*: two callers, three plans, seven units within 2..5 per
request: with four requests the minimum exceeds the total, with one the maximum
falls short.  *Portfolio*: every market of three bars with closes 8 or 12 and
every entry and exit of the first strategy, for a lone executor; then two scenes
of concurrent processes, a publisher against two executors and two certifiers
against an executor and a reviser.  Three bars are the first (allocation without a
signal), one between, and the last (sold at the end of the sample); 12 to 8
breaches the drawdown limit of ten percent.  *Lifecycle*: two writers, a reader,
two portfolios, two generations, three rows: enough for a disorder, and for an
orderly writer behind it.  Loads, plans and rows are bounded, so
CHECK_DEADLOCK is FALSE.

### 3.2 Fairness

`CallsEnd` and `RunsEnd` need it.  `FairSpec` asks weak fairness of `Advance`: a call
that has begun keeps executing statements, as a Python thread does, and a
statement that waits for the write lock raises when the connection's timeout has
passed.  Nothing is asked of callers, operators or crashes.  Without the timeout
(`NeverBusy`) the property is false.

`RunsEnd` asks weak fairness of `Step(a)` for each process of research: a process
that is not killed executes its next statement.  Nobody has to start a process,
and crashes may happen at any time, a crash being an end too.

## 4. What the passing runs show

- `AtMostOneFill`, `FillIsDurable`, `ImplementsOnce`: the compare-and-set in
  `consume_in_transaction` decides every race; who has a fill also has the
  committed CONSUMED record of exactly that intent.
- `ExecutionIsAtomic`, `JournalVerifies`, `AppendOnly`, `ClosedNeverFills`: an
  execution is whole or absent in both tables, each event extends what was
  committed, and closing a journal is final when every adapter has one.  With an
  adapter that has no journal the last one is not promised and not checked.
- `FillWithinAuthority`: no fill beyond capital, loss and window approved.
- `CallsEnd`: no call hangs.
- `PaperIsAdmitted`, `AdmissionIsLogged`: PAPER, its event and its admission
  record are committed together.  It holds through a subtle case: an event that
  is refused as a duplicate leaves the UPDATE behind and a later commit
  publishes it, but then the same admission was recorded the first time.
- `StageWasLogged`: what an exception leaves behind is a stage the strategy had
  been moved to before, with the same reason.
- `DegradedIsRequested`: no strategy is degraded by its health without a durable
  request.
- `CycleIsBacked`: what is recorded as a cycle moved its source and evaluated its
  successor.
- `StageFollowsTable`: for ONE process.  With two it is false, a limit of the
  design: both read PROMOTED, one moves to PAPER, the other's UPDATE wins.

- `CheckpointsPaired`, `OneUninterruptedRun`, `MemoryIsDurable`: whoever crashes,
  resumes from an old or stopped checkpoint, or races, each checkpoint has the
  cycle that made it and the durable sequence is that of one run; a runner
  that finds a row in place of its own carries on from that very state.
- `ForksOnlyBesideEvolvers`: between runners with a store the audit chain cannot
  fork, because an equal or conflicting primary key stops the one that read a
  stale head.  Beside an evolver it does fork (ids differ, keys do not
  collide), and then every verification fails: see section 6.
- `EvidenceFailsOnlyInCompany`: crashes alone never make a ledger unusable.
- `RunsEnd`: a run that is not killed ends.
- `LoadsAreProvided`: the fingerprint in the manifest is what makes a pair of
  files that do not belong together a miss; torn files, stolen temporary names
  and crashes never surface as data.
- `BudgetKept`: the total is met unless the limits of the requests forbid it.
- `QueueKeepsBest`, `LostOnlyToAnotherPlan`: the queue keeps the best offer; a
  consumption that removes an entry and then fails loses what another caller
  offered, never what the same caller did.
- `ExecutionReplays`: every persisted run passes the replay verification, over
  every market of the instance, while the portfolio is the one executed; and it
  stays that one unless a save and an execution overlapped.
- `RefusedOnlyAfterExit`: the one way a run is lost between execution and
  persistence is a halt after a sale on an exit signal.
- `AttributionIsOfTheRun`: the sleeve replay adds up to the run when the run was
  not halted and every purchase of the first bar had an entry signal.
- `AnswersAreStored`: an answered certificate is the stored one, one per run.
- `DisorderOnlyByRace`, `ShownIsNewest`: a row that does not increase the
  generation was written behind its writer's back; a reader never shows an older
  decision than the ledger it verified had.

## 5. What is proved

All for any number of strategies, workers, connections, intents, rows and loads
and any values of the limits, from the named assumptions of the modules alone
(`NumbersAssumption`, `WorkersAssumption`, `OperatorAssumption`,
`WiringAssumption`, `JobAssumption`, `FitnessAssumption`, `PlanningAssumption`,
`EvidenceAssumption`, `ExecutionAssumption`, `RunsAssumption`, which TLC evaluates
in every run of their modules; `LifecycleAssumption`, `CacheAssumption` and
`WorkAssumption`, which the theorems that need them state and `MCTradingFactory`
asserts of its instance).  Some theorems take a hypothesis on who works on the database:
`Separate` (every process has its connection), `Solitary` (one process at a
time), `Journaled = Worker` (every adapter has a journal).  Each is a way the
code is really used, and for each the README says what goes wrong without it.
`FactoryExecutionReplays` takes one on the numbers, `WholeMarkets`, which
`MCTradingFactory` asserts of its instance too; see below for why it is needed.

**Sandbox execution core.**
`Typing`: TypeInv is TypeOK plus the fact that the step of a call belongs to its
operation; without it a step could read an argument the call does not have.

`OneFill`, `DurableFill`, `Refinement` rest on
`OnceInv == TypeInv /\ LockInv /\ StoreInv /\ FlightInv /\ PendingInv /\ DeliveredInv`.
`AtMostOneFill` alone is not inductive: it says nothing about fills under way.
`LockInv` says who is writing, `StoreInv` that a transaction changes at most the
record of its own intent and only by one legal step, `FlightInv` that a worker between its compare-and-set and its commit
holds the lock and has the intent spent in `db`, `PendingInv` that a worker with
a committed FILLED answer not yet delivered is the only one for its intent and
nobody was served before,
`DeliveredInv` the durable record behind each fill.  The refinement maps `status`
to the committed record and `fills` to the length of `delivered`: the commit of a
call is `Admit` or `Spend`, `Reply` is `HandOver`, all else stutters.

`AtomicExecution`, `VerifiableJournals`, `CommittedOnlyGrows` and, when every
adapter has a journal, `ClosedStaysClosed` rest on
`JournalInv == OnceInv /\ ExecutionIsAtomic /\ JournalVerifies /\ SeenInv /\ TransactionInv /\ AnswerInv`.
A worker chooses its event from a journal it read before it had the write lock,
and the code notices only a journal of another length.  That this is enough is
`SeenInv`: what a worker saw is the beginning of what it would read now, so a
read of the same length is the same journal (`Extends`).  `TransactionInv` says
that a transaction extends the journal of its own intent and is between CONSUMED
and FILLED only at the step `fill`; `AnswerInv` that a fill not handed over yet
is journaled, as the last event.  So a journal that ends in anything else has no
fill on its way: an execution that had consumed the intent meanwhile finds the
sequence number of its event taken and rolls back.

`WithinAuthority`: AuthInv carries each limit from the record that established it
to the next: authorizations are approved and within their limit, certificates
come from one of them, intents fit their certificate, a worker past `Judge` has
validated the certificate of its own intent at its own time.

**Strategy lifecycle.**
`LifecycleTyping`: TypeInv adds to TypeOK, for each worker, that its operation
has the arguments its step and its `resume` read, and that it has a move where
the step reads one.  It holds for any wiring, shared connections included.

`PaperAlwaysAdmitted`, `AdmissionAlwaysLogged`, `StageAlwaysLogged` assume
`Separate`: no two workers share a connection.  LifecycleApi shows that the first
one needs it.  The three are proved together because each is broken in the middle
of a transaction and mended by a step that relies on the others:
- `Sound(D, s)` is the three relations for strategy `s` in database `D`, with
  AdmissionIsLogged strengthened to an equivalence: there is an admission exactly
  when PROMOTED -> PAPER is in the history.  The reverse direction is what saves
  a duplicate event: it was logged before, hence an admission exists.
- `Held(w)` is what the database shows the worker that holds the lock: for a
  worker between two statements (`Midway`), that all other strategies are sound
  and what is missing for its own; for all others, that `db` is sound, also
  when the lock was left behind by an exception.
- `MoveInv(w)`: only an admission moves a strategy to PAPER, its own, out of
  PROMOTED.
- `LockInv`: without a lock holder `db` is `disk`, and who is between two
  statements holds the lock.
`SafeInv` is their conjunction with `AllSound(disk)`.  Lemmas on the tables
(`RowSound`, `LogSound`, `LogPaper`, `LoggedSound`, `AdmissionSound`) say what
each statement does to soundness, lemmas on jumps (`JumpKept`, `JumpCommitted`,
`JumpRolled`, `Wrote`) how a step of one worker leaves the others alone, and one
lemma per action or group of actions puts them together.

`DegradedAlwaysRequested` and `CycleAlwaysBacked` assume `Separate` too and rest
on `CycleInv`.  Neither property says anything of a worker that has read the
request, or its successor's stage, some commits before it relies on them; the
invariant adds, per step of a worker, what it has found and still counts on
(`CountsOn`) and what its transition is for (`Purpose`).  Both survive the steps
of everybody else because what is read is never taken back (`Later`): requests
and events are only added, and a strategy nobody monitors, as every successor is
when it is evaluated, never returns to RESEARCH.  A request is committed before
the transition it justifies, a source moved and committed before its cycle is
recorded; so each crash between two commits leaves the weaker record alone.

`StageAlwaysFollowsTable` assumes `Solitary` and rests on `TableInv`: what the
lock holder sees follows the table from the committed stage, the two differ only
at the steps of a transaction (`Unsettled`), among them those an exception leaves
it open at, and a worker at its UPDATE has checked the committed stage.  With a
second worker the last conjunct fails, because the UPDATE does not name the
stage that was checked.

**Research runner.**
The six properties are proved of one invariant,
`RunInv == Types /\ LedgerInv /\ \A a \in Process : ProcInv(a)`, over any number
of runners, evolvers, jobs and generations.  `LedgerInv` is what the primary keys
and the checks of the two tables make of them: a cycle id names one row, the
audit names each cycle once, one checkpoint per generation.  To these it adds
what none of the properties says and all of them need: the generations of the
runners have no gap (`CyclesInv`).  A runner that read a stale head would
otherwise find its own row free and fork the chain; since there is no gap, the
rows it missed are of its own generation or later ones, hence its own row is
there already and the key refuses it (`NoGap`, `WriteInv`).
`RunnerInv` says that a runner computes from the origin of its job or from a
state some generation made, `MemoryInv` that with a store this state is durable,
`CompanyInv` that a process nobody wrote beside has counted the audit rows as
they are.  The proof of the one step that writes, `Write`, is split by what it
did (`WriteCases`), table by table (`CyclesKept`, `AuditKept`,
`CheckpointsKept`), then for the writer and for everybody else.
`RunsImplementOneRun` maps the checkpoints, ordered by generation, to the
sequence of `LinearResearch`: `ChainInv` says each follows the one before it,
and only a committed generation makes a step, the next one of its seed.

**Ledger of health decisions.**
`OnlyRacesDisorder` and `ReadersSeeNewest` rest on
`HistoryInv == LedgerInv /\ WriterInv /\ ReaderInv /\ DisorderOnlyByRace`.
Neither property is inductive: the first needs to know of a writer on its way to
the INSERT that its row is newer than all rows it had read (`WriterInv`), the
second of a reader between its two SELECTs that its portfolio still has a row,
and of one after them that the rows it verified have not changed (`ReaderInv`).
That there is a latest row at all (`FirstRow`) is an induction over the ledger;
it is proved by the least prefix that would have none, with the least-number
principle `LeastNat`.  `StillNewer` is the step from the comparison with the
latest row to the comparison with all.

**Market data cache.**
`LoadsAlwaysProvided` rests on `CacheInv == DiskInv` and `Sane` for every load:
each file holds a frame that was given or is torn; a load that is about to read
found both names, which never lose their file again; one that is writing holds a
given frame and has its file.  The data file may at any time be torn or hold
another frame than the manifest: only the comparison in `Hit` makes what is
returned a given frame.  `FileIsFree` (counting the files in use) says that the
choice of a fresh file never fails.

`TradingFactoryProofs` states these results of the composition, whose
invariants the run checks: a step of the factory is a step of the stage or a
stutter of its variables.  Instances of one module have definitions of their own
for the prover, so its first steps identify the two.

**Certificates.**
`FactoryAnswersAreStored` rests on `CertificateInv`: a process that found a
certificate, or inserted one, holds a row that is still there, and there is one
row per run.  The race of two certifications is decided at the INSERT: the one
that loses is refused by the unique run id and answers nothing.

**Paper runs.**
`FactoryRefusedOnlyAfterExit` and `FactoryAttributesTheRun` rest on `PaperInv`: every
row, on its way or persisted, is one `execute_persisted_portfolio` makes of weights
that were once valid and of the market of its bundle.  What such a row says is
`PaperRunExplained`, about the operators alone, over any closes and signals.
- A bar visits each strategy once (`VisitsAll`, from `FoldTheorems`): its sleeve is
  what the visit made of it and the fills of the bar are those of the visits
  (`TradeIs`; `LiquidateIs` for the sales of a halt).
- `Going` is what holds after a bar that was not refused: all fills are signalled,
  and, unless one was a purchase without a signal, every sleeve is that of the
  replay of the attribution (`ArePlays`), since after the first bar both obey the same
  signals (`OrdersWithoutAllocation`).  `Halting` is what holds once the guard
  refused.  `BarGoes` is the step, `RunGoes` the induction over the bars.
- Why a halted run has a fill at its last bar, which the lineage takes for the halt:
  a run that holds nothing has the equity it had when the guard last let it pass
  (`Calm`, `QuietBar`), so the guard can refuse only at a bar at which something
  was traded or is held, and what is held is sold there.  Hence what a halted run sold at its
  last bar is `risk_halt`, and a fill without a reason (`ReasonIs`) is an exit before it.
- An unhalted run that was replayed sleeve by sleeve ends with the reserve and
  the sleeves' last equity (`EndsWhole`).

**Replays.**
`FactoryExecutionReplays` joins two arguments.
- The protocol: `MatchInv` says that a process nobody has written past (`alone`)
  holds the bundle and the weights the registry has, or a run of them, or a new
  definition while there is no run; so every run is of the portfolio there is until
  a save and an execution have overlapped.  After an overlap the property speaks
  only of the runs that match, and these replay like any other.
- The books (`PaperRunReplays`, over any market): `Booked` says that the fills so
  far, posted from the allocations by `Post`, are accepted and give the sleeves of
  the run.  A fill is appended to the ledger and settled at once, and posting one
  more fill is one more `Post` (`FoldAppend`); it is accepted because it `Fits`, a sale
  of what is held or a purchase the broker could afford, whose fee included
  (`AffordableCovers`, `CostGrows`).  `TradeBooked`, `LiquidateBooked`, `BarKept` and
  `RunKept` carry this over sleeves and bars.  The run ends flat, so its equity is
  the reserve and the cash of the books.
- The reasons: a halted run has its halt at its last fill (`EndsHalted` above), which
  is where the verification looks for it (`LineageReproduces`).

The verification also refuses a run whose strategies together end with nothing
(`ledger_replay.py:19`), so the theorem needs what keeps a sleeve worth something: `WholeMarkets`.  A commission of 100% or more, which the
executor does accept, eats a sale, and is excluded; the other two conditions,
one percent of the capital is a unit and a sale is not rounded down to
nothing, concern the whole units of the model alone, where the code has floats.

**Folds.**  The queue is filled, the budget corrected and sums are taken by loops,
which the models write as folds.  What a fold computes is an induction over data,
and the library's induction theorems take the statement as an operator
parameter, which no installed prover can instantiate.  `FoldTheorems` gets around
it twice: the operator of the fold is a CONSTANT of the module, so that `INSTANCE
FoldTheorems WITH Op <- ...` gives the theorems for one loop, and the statement is a
family of sets, I[k] being what may be said after k steps.  `FoldTrace` says that
a fold is the last of a sequence of values each made from the one before it;
`FoldInduction` that a family the steps respect holds of the result.  Below both
is the least-number principle (`LeastNatural`, `UpTo`), and a construction of the
function the definition of FoldLeft CHOOSEs (`FoldsExist`).

**The research queue.**
`FactoryQueueKeepsBest` and `FactoryLostOnlyToAnotherPlan` rest on `WorkInv`.  What
a plan makes of the queue is `Filled`, the family of sets for `Enqueue`: after k
requests each entry is an old one or one of the k, and none is worse than what
was there or was offered.  `Offers` turns this into the property: the priority of
an entry is one of its offers and no offer is better.  `Undisputed` is what the
second property needs of work not consumed yet: an item whose priority is no
longer that of the queue belongs to a caller who was not the last to offer it.
The invariant needs plans to be well-formed (`PlansAreTyped`), hence all of
planning, from `EvidenceAssumption`: the scores a plan is made of are finite and
not negative, as `build_research_plan` makes them and `allocate_budget` demands.

**The budget.**
`FactoryBudgetKept` follows the code.  `RankedIs`: ranking lists each key once,
because the order of merit, reason and strategy is total on the keys
(`AheadIsOrder`) and a total order on a finite set has one element for each place
(`PlacesTaken`).  `CheaperIs`: comparing scores per unit by cross products is
transitive as long as no request has zero units (`CrossProducts`), which is why
the minimum must be positive; so the request each loop picks exists
(`FirstOfTied`).  `ReduceIs`, `GrowIs`: one step moves exactly one unit and stays within the
limits, or no request can move (`SumExcept` says what a changed unit does to the
sum).  `ReducedIs`, `GrownIs` are the two loops by `FoldInduction`, `AllocateIs` puts
them together: the second loop only runs when the first has not stopped above
the total.

**Types of the stages.**  `FactoryTypes` puts together `CacheInv`, `HistoryInv`,
`PaperInv` and, for the queue, `WorkTyped` on top of `WorkInv`: a priority is 1000
less a merit (`PlansAreRanged`), and work in hand is of requests somebody offered.

**Model-checked only:** `CallsEnd` and `RunsEnd`; liveness is out of the prover's
reach.  Every invariant and every action property a passing run checks is the
statement of a theorem.

## 6. Where code and words disagree

- `RecordRetry`: `record` compares the whole payload, status and clock included;
  an identical retry at a later time raises, although the docstring says it
  returns the durable record.
- `LifecycleHistory`: a transition repeated with the same reason raises on the
  event's unique hash after the UPDATE; the next commit publishes a stage that
  the history does not end with.
- `LifecycleHalt`: a health report that read the control state before a halt
  overwrites HALTED with DEGRADED.
- `LifecycleHealth`: a crash between the transition and the feedback event loses
  the event; the retry takes another path and returns normally.
- `LifecycleApi`: the API serves all requests over one connection; one handler's
  commit publishes another's half-made admission, and a crash leaves it so.

Design limits that no document promises otherwise: nothing adds up the capital of
several intents under one certificate; the kill switch and the clock are values a
caller passes, so a switch thrown during a call is not seen; a process that
catches an exception of `transition` keeps the write lock until its next commit;
after a crash between the move of a source and the record of its cycle the
request is neither done nor ready until the source is degraded again.

Limits of the research ledgers and the stages, each one modelled:
- an evolver that writes a cycle of a generation a runner has, or chains to a
  head a runner passes at the same time, makes `verify_generation` or `verify`
  fail from then on, and no run can be resumed in that database
  (`research_control_plane.py:160`, `research_cycle_registry.py:125`);
- runs with a registry alone leave cycles that a later run with another seed or
  population meets under its own ids: it is refused as a conflict;
- `save_portfolio` looks for a run before its transaction begins, and
  `get_portfolio` reads definition and members apart: "immutable after paper
  execution" can be raced past (`registry.py:213`);
- a certificate takes the research twice (`reproducibility.py:143`): evidence
  rewritten in between makes one certificate of two states;
- a halted run that had sold on an exit signal before is refused by its own
  lineage and can never be persisted (`execution_lineage.py:39`);
- the sleeve replay neither buys at the first bar without a signal nor stops at a
  halt: the attribution of such a run is that of another one;
- a portfolio ledger once out of order answers 409 for ever (`api.py:316`);
- a put whose temporary file was taken raises, and the frame the provider had
  already given is lost to the caller (`cached_provider.py:46`); two
  registrations of a new version meet the primary key and one gets an
  IntegrityError (`dataset_registry.py:50`);
- a repeated research run that arrives at a portfolio already executed stops with
  "portfolio is immutable" in the middle of its loop (`research.py:68`), and one
  whose selection drops an eligible candidate saves more experiments than members,
  which the executor refuses (`research.py:66`);
- the budget divides by the last signal of a key, the ranking took the best one
  (`research_planner.py:79`);
- `consume_research_work` calls itself atomic and removes before it compares.

## 7. Not modelled

Floating-point evaluation, indicators, optimisation of weights; network clients
(`alphavantage`, `external_data`); file formats, HTTP routing, code generation.
The single-strategy paper runner and its replay (`paper_runner`, `paper_replay`,
`replay`, `accounting`, `paper_qualification`): a smaller sibling of the
portfolio run, which buys without the affordability limit (`paper_runner.py:43`)
and raises where the portfolio runner buys less.  `research_health` and
`research_scheduler`: reports nobody acts on.  The supervisor loop around a
replacement cycle only chooses which request is next.  Population and evolution,
the evaluation pipeline and portfolio construction are functions of their
arguments over real numbers, which these tools have no theory for; the runner
takes them as a deterministic function, which is what their seeds make them.
The live path audit reads and reports.  Within modelled parts: the backfill of an
old registry, hand-edited rows, external snapshots, the read-only integrity
check of a stored certificate.

## 8. Plan

Done: execution core, lifecycle, research runner, the stages, and the theorems
of all four.  Still to come:

1. The single-strategy runner beside `PaperExecution`; the order of
   `process_strategy_health` (`feedback_loop.py:38`), now modelled without a
   property of its own.
