# TLA+ models of neuron-core

This directory holds TLA+ models of the Go sources under `src/`, the TLC
configurations that check them, and TLAPS proofs about the processor, the
package logger, the logger wrapper, the internal controller and the GET
handler. Every
module is translated from the code. `PROJECT.json` maps each definition to
the lines it models, lists the runs, mutants, findings and hazards, and names
the theorems.

## 1. The system and its parts

neuron-core turns JSON:API-style query strings into validated query
descriptors ("scopes"). It then runs each scope through a configurable chain
of named processing steps against a storage interface. The parts in this
snapshot of the source:

| Part | Source | State | Operations | Interacts with |
|---|---|---|---|---|
| Process registry and processor | `query/processor.go` | the `processes` map; one chain per verb; per scope, the store (`ProcessError`, previous process) and the transaction | `RegisterProcess`, `init`, `newProcessor`, `Create/Get/List/Patch/Delete` | configuration; the repositories (through the process functions); handlers |
| Bracket parser | `common/brackets.go` | local scan state | `SplitBracketParameter` | scope builder (not in src) |
| Pagination | `query/pagination.go` | type and two values | `newPagination`, `FormatQuery`, setters | scope builder; links |
| Service | `core/service.go` | the service's options, server, controller; Run's goroutine, channels and signals | `New`, `Initialize`, `Run`, `CloseAll` | controller; repositories; the server; the OS |
| Internal controller | `internal/controller/controller.go` | `defaultController`; per controller: schemas, repositories, config | `Default`, `New`, `newController`, `setConfig`, `RegisterModels`, `RegisterRepositories` | logger; schemas; repositories |
| Package logger | `log/logger.go` | `logger`, `currentLevel`, the module loggers | `SetLevel`, `SetLogger`, `New`, `Default`, logging functions | wrapper; the module loggers |
| Logger wrapper | `log/wrapper.go` | the wrapped logger and its kind | `newLoggerWrapper`, 21 logging methods | any third-party logger |
| GET handler | `gateway/handler/get.go` | per request: build outcome and response | `HandleGet` | scope builder; processor; marshaler |

The filter, sort, fieldset and include builders of spec.md 4.2–4.6 are not
part of this snapshot of the source. Neither are the module loggers'
code, the logging interfaces, or `internal/query/paginations`.

Hard behaviours in the code:

- **Continue-on-error chains.** A chain continues past failing steps. The
  error is kept in the scope's store, and later steps guard on it. The
  transaction's commit-or-rollback step reads the same store.
- **State that outlives a chain.** The scope's store is never cleared.
- **Fail-fast construction.** Re-registering a process, or naming an
  unknown one in the configuration, panics.
- **Concurrency in `Service.Run`.** Serving happens on a goroutine, with a
  buffered error channel. A select waits on context, signal or error, then
  Shutdown runs with a timeout.
- **Unsynchronised lazy init.** `Default()` creates the default controller
  with no lock.
- **Partial failures.** `Initialize`, `RegisterModels`,
  `RegisterRepositories` and `SetLevel` all return midway.
- **Sentinel arithmetic** in the bracket scan.
- **"Zero means unset"** in pagination.

## 2. Modules

| Module | Models | State (variables) | Actions |
|---|---|---|---|
| `Processor` | registry, chain assembly, the verb methods' loop; the process functions from spec.md 4.7 (marked spec-modelled) | `registry`, `phase`, `chains`; per scope `status`, `verb`, `pc`, `procErr` (the local `processError`), `storeErr`/`storePrev` (the scope store), `tx`, `result`; history `outcomes` | `RegisterProcess`, `NewProcessor`, `Invoke` (a verb method's entry), `Step` (one loop iteration), `Finish` (`return processError`), `Halted` (after a panic) |
| `MCProcessor` | a create chain begin → create → commit-or-rollback and a get chain, with two scopes | | |
| `ChainSpec` | the abstract contract of a verb call: one step from the call to its return, with one result per configured step and the last failure as its error | `phase`, `status`, `verb`, `result`, `history` | `Build`, `Panic`, `Start`, `Return` |
| `ProcessorProofs` | TLAPS proofs about `Processor`, the refinement of `ChainSpec` included | | |
| `Service` | `core/service.go` | `svc`, `svcServer` (the `Server` field), `opts`, `cfgOk`, `done`/`dialed` (Initialize), `run`, `runResult`, `serve`, `serveErr`, `errorChan`, `shutdown`, `ctxDone`, `signaled` | `New`, `Literal` (a struct literal), `Initialize`, `CloseAll`, `RunDirect`/`DirectReturn`, `RunStart`, `ServeReturns`, `ServeClosed`, `SendErr`, `Select`, `Shutdown`; environment `CancelContext`, `Signal` |
| `Logger` | `SetLevel`, `SetLogger`, `New`/`Default`, and the 16 logging functions | `logger` (a record: LevelSetter?, SubLogger?, DebugLeveledLogger?, its level), `currentLevel`, `modLogger`, `modLevel`, `setLevelErr`, `debugLeveled`, `isDebugLeveled`, `lastCall` (history: the last logging call) | `SetLevel(l)`, `SetLogger(l)`, `Default`, `Log(f)`, `Exited` |
| `LoggerProofs` | TLAPS proofs about `Logger` | | |
| `Controller` | `Default()` and `NewDefault()` under concurrency, through `newController` and `setConfig` on the shared `DefaultConfig`; `RegisterModels` | `dcfg` (the shared config), `defaultCtrl`, `created`; per goroutine `caller`, `pc`, `got`; per controller `namer`, `createTag`, `patchTag`, `registered`, `mapped`, `lastOk`; `calls` | `Call`, `DefaultCheck`, `Lower`, `Validate`, `SchemaDefault`, `CreateDefault`, `CreateTag`, `PatchDefault`, `PatchTag`, `DefaultAssign`, `DefaultReturn`, `Register` |
| `ControllerProofs` | TLAPS proofs about `Controller` | | |
| `Brackets` | `SplitBracketParameter`, one action per loop iteration, and the contract of spec.md 4.1 stated without a scan | `bracketed`, `i`, `startIndex`, `endIndex`, `values`, `err`, `returned` | `ScanOpen`, `ScanClose`, `ScanOther`, `Finish` |
| `BracketsProofs` | TLAPS proofs about `Brackets` | | |
| `Pagination` | `newPagination`, `FormatQuery`, and the reading of page keys in spec.md 4.4 | `p`, `given`, `query`, `formatted` | `Format` |
| `PaginationProofs` | TLAPS proofs about `Pagination` | | |
| `Wrapper` | `newLoggerWrapper` and the dispatch of all Wrapper methods | `logger` (its method set), `current`, `last` | `Call(m)` |
| `WrapperProofs` | TLAPS proofs about `Wrapper` | | |
| `GetHandler` | `HandleGet` composed with `Processor`: each request builds its own scope and runs the get chain | Processor's variables, plus `build` and `resp` per request | `HandleGet`, `Respond`, the processor's own actions |
| `MCGetHandler` | a get chain of two steps, the second guarded; two requests | | |
| `GetSpec` | the abstract contract of a GET request: rejected at build with a client or internal error, or run to a clean or failed chain and then answered with data or a database error | `answer`, `ran` per request | `Reject`, `Run`, `Answer` |
| `GetHandlerProofs` | TLAPS proofs about `GetHandler`, built on those of `Processor`, the refinement of `GetSpec` included | | |

The abstraction choices:

- **Processor.**
  - An error is the position of the step that returned it. That makes "the
    last failing step" observable.
  - A process function is abstracted to "may succeed or fail". The
    exceptions are the transaction steps and guarded steps, which return nil
    without acting: when a transaction is already open (begin), when none is
    open (commit-or-rollback), or after a stored error (guarded). This is
    the contract spec.md 4.7 gives the steps.
  - The store and the transaction belong to the scope. Like the code, the
    model never resets them when a verb method is called again.
- **Service.** The server, repositories, context and OS signals are
  nondeterministic environment actions. `Options` is abstracted to the
  booleans the code branches on.
- **Processor refines ChainSpec.** The mapping shows a scope's step results
  only once its call has returned (`visibleHistory`): while the loop runs,
  the abstract history is empty, and `Finish` is the abstract `Return`.
  `Invoke` maps to `Start`, `Step` to a stutter, a panicking
  `RegisterProcess` or `NewProcessor` to `Panic`, a successful
  `NewProcessor` to `Build`.
- **Logger.** A logger is a record of the interfaces the code asks about.
  A logging call is recorded in `lastCall` with the logger it was made
  under: a history variable the code does not have, so that a property
  can compare where the call went with the logger of the time.
- **Controller.** A controller is named by the goroutine that created it.
  The `ControllerConfig` is the four fields `setConfig` reads and writes,
  with Go's `""` as `Unset`. `setConfig` is one action per statement that
  touches the shared config, so other goroutines' steps interleave at
  every field access. A field access itself is atomic: Go gives no such
  guarantee for a racing string read, and torn reads are not modelled.
  The configuration validates and `newController`'s other constructors do
  not fail on `DefaultConfig`, so their error paths are left out.
- **Wrapper.** A logger is its set of methods, and the interfaces are the
  method sets the code calls on them. A method is a pair of its base name
  and its suffix, the empty suffix being `Plain`.
- **Pagination.** A `url.Values` is abstracted to its page keys.

## 3. Runs

| Run | Config | Expect | Checks | Shows |
|---|---|---|---|---|
| processor_core | `MCProcessor.cfg` | pass | `TypeOK`, `ChainContract`, `FailFast`, `IInv`, `TxCommitOnlyClean`, `ImplementsChain` | Every finished chain ran all its steps and returned the last failure. A commit only follows a run in which no step has failed. Nothing runs before all names are registered and the chains built. The inductive invariant holds. The processor implements `ChainSpec`. |
| processor_stale_store | `MCProcessorStale.cfg` | violation | `CleanRunNotRolledBack` | A scope re-invoked after a failed chain skips its guarded write and rolls back, yet returns nil. |
| service_run | `MCService.cfg` | pass | `ServeGoroutineEnds`, `ServeFailureReturns` (liveness) | The serving goroutine always ends once Run has returned. A Serve failure always makes Run return. |
| service_new_panics | `MCServiceNew.cfg` | violation | `NewAcceptsValidOptions` | `New` panics even with valid options. |
| logger_levels | `MCLogger.cfg` | pass | `ModulesFollowLevel`, `CallsReachLogger` | Module levels follow the package level over any call sequence once the logger takes levels; every logging call reaches the logger of the time, and debug-level methods are only called on a DebugLeveledLogger. |
| logger_level_report | `MCLoggerLevel.cfg` | violation | `SetLevelFailsCleanly` | `SetLevel` on a logger that is no LevelSetter returns an error and has still changed the level `Level()` reports (`logger.go:63`); neither the logger nor the modules took it. |
| controller_register | `MCController.cfg` | pass | `MappedAfterRegister`, `ConfiguredFromDefault` | However two goroutines' `setConfig` steps interleave on the shared config, every controller created has a namer and the config's validator aliases, and no default is left unset. A successful `RegisterModels` leaves every registered model mapped, even after an earlier failed call. |
| controller_default_race | `MCControllerRace.cfg` | violation | `DefaultIsShared` | Concurrent `Default()` calls can return different controllers. |
| brackets_contract | `MCBrackets.cfg` | pass | `MatchesContract` | The scan agrees with spec.md 4.1 on all 1,365 strings of up to 5 characters over `[`, `]`, `a`, `b`. |
| pagination_roundtrip | `MCPagination.cfg` | pass | `RoundTrip` | Formatting into a new query and reading the keys back gives the pagination, with zero values unset. |
| wrapper_dispatch | `MCWrapper.cfg` | pass | `CallsExist`, `KeepsLevel` | For every combination of the interfaces, no type assertion panics and every method logs at its level. |
| get_handler | `MCGetHandler.cfg` | pass | `ResponseMatchesOutcome`, `DataOnlyAfterCleanChain`, `ImplementsGet` | The GET response agrees with the build outcome and the chain's result. The handler implements `GetSpec`. |

Every property of a passing run has a mutant in `PROJECT.json`: a plausible
slip in a mapped definition that TLC then catches. The mutants cover:

- storing the wrong value as ProcessError;
- leaving out the store;
- `return err` inside the loop;
- `processError = err` without the nil check (it breaks both
  `DataOnlyAfterCleanChain` and the refinement);
- skipping unknown names;
- an unbuffered `errorChan`;
- not sending the Serve error;
- SetLevel not updating the modules;
- SetLogger assigning debugLeveled only when the cast succeeds;
- lower-casing the naming convention into a local variable;
- mapping only the new models;
- dropping the second close-bracket check;
- writing zero values;
- swapping the interface numbers;
- Errorln calling Debugln as its comment says;
- ignoring the error of `s.Get()` (it breaks both `ResponseMatchesOutcome`
  and `ImplementsGet`).

Bounds, and why they are enough:

- **Processor.**
  - Chains have 1 and 3 steps, enough for a step failing before, between
    and after others.
  - Two scopes are enough for interleavings of two requests.
  - Re-invocation is unbounded: the state space is finite, because the
    history is rewritten from the current step.
- **Service.** The options are every boolean combination, 128 initial
  states. The environment acts at any point.
- **Logger.** Three levels, two modules, every logger kind (8) and all 16
  logging functions. Call sequences are unbounded: the state space is
  finite.
- **Controller.** Two goroutines is the smallest race, and each may call
  `Default()` or `NewDefault()`. The initial config ranges over every
  combination of a given or default naming convention and unset, default
  or custom schema and aliases (54 initial states). Two models and three
  `RegisterModels` calls reach a failed call followed by a successful one.
- **Brackets.** Strings of up to 5 characters contain every pattern of up to
  two bracket pairs, plus the unmatched and nested cases at each position.
- **Pagination.** Values 0..2 and every subset of page keys.

`CHECK_DEADLOCK FALSE` is used where the program really ends:

- the bracket scan and `FormatQuery` return;
- the goroutines of the Controller run have returned and the registration
  bound is reached.

The processor and service runs check deadlock. Their models end in explicit
stopped states (`Halted`, `Stopped`, `Served`).

## 4. Fairness

`Service` assumes weak fairness of `Select`, `Shutdown`, `SendErr` and
`ServeClosed`:

- The Go scheduler runs every runnable goroutine.
- `http.Server.Serve` returns `ErrServerClosed` as soon as `Shutdown` is
  called.
- `Shutdown` itself returns within its 20-second timeout.

The context and the signals get no fairness: they may never come.

## 5. Proofs (TLAPS)

Five modules hold the proofs. Each extends the module it is about and
TLAPS, and has one lemma per action for the inductive invariant. Each lemma
is split into one step per conjunct the action can disturb.

**`ProcessorProofs`** proves, for every configuration satisfying
`ConfigAssumption` and any number of scopes:

- `IInvariant`: `Spec => []IInv`;
- `TypeCorrect`: `Spec => []TypeOK`;
- `ChainContractHolds`: `Spec => []ChainContract`;
- `FailFastHolds`: `Spec => []FailFast`;
- `TxCommitOnlyCleanHolds`: `Spec => TxCommitOnlyClean`, an action
  property;
- `Refinement`: `Spec => ImplementsChain`, that is `Spec => Chain!Spec`.

`ConfigAssumption` says several things:

- there are verbs;
- the configuration maps each verb to a sequence of names;
- the two transaction steps are distinct names;
- the sentinels are fresh.

`ChainContract` is not inductive. A step changes `pc`, `procErr` and
`outcomes` together, and `Finish` copies `procErr` into `result`. The
strengthening `IInv` is needed so that `Finish` can conclude the contract.
It has these conjuncts:

- `TypeOK`;
- `ChainsResolved`: built chains are the configuration, over registered
  names;
- `StartedAfterBuild`;
- `RunningChain`: while a chain runs, `outcomes` has `pc - 1` entries and
  `procErr` is its last failure;
- `StoreRecordsFailures`: a scope whose store holds no ProcessError has
  only clean outcomes in its current chain. This is what makes the
  commit-or-rollback step commit only after a clean chain.

TLC checks `IInv` as an invariant in processor_core.

Per action, the proof has lemmas `InitIInv`, `RegistryStepIInv`,
`InvokeIInv`, `StepIInv` and `FinishIInv`. It also has a lemma
`LastFailureAppend`: appending an outcome to the history updates "the last
failure" as `RecordResult` updates `processError`. "Last failure" is the
relation `IsLastFailure`, not a `CHOOSE` of a maximum, so no induction over
sequences is needed.

`TxCommitOnlyClean` follows from `NextCommitClean`:
`IInv /\ [Next]_vars => [CommitClean]_vars`. Only `Step` can commit, and
it does so only when the stored error is nil.

The refinement is proved as `InitRefines` plus `NextRefines`:
`IInv /\ [Next]_vars => [Chain!Next]_Chain!vars`. `Finish` is the one step
that needs `IInv`. Its witnesses for `Chain!Return` are the scope's
outcomes and its `procErr`: `RunningChain` says they have the chain's
length and that the error is their last failure.

**`LoggerProofs`** proves the following for every set of levels and
modules: `LoggerTypeCorrect`, `ModulesFollowLevelHolds` and
`CallsReachLoggerHolds`. The inductive invariant `LInv` conjoins the
three properties with `DebugConsistent`:
`isDebugLeveled` holds exactly when the logger is a DebugLeveledLogger,
and `debugLeveled` is nil or of the logger's kind. It holds because
`SetLogger` assigns all three variables in one call, and `SetLevel`
changes only the level.

**`ControllerProofs`** proves the following for any number of goroutines
and models: `ControllerTypeCorrect`, `MappedAfterRegisterHolds` and
`ConfiguredFromDefaultHolds`. `ConfiguredFromDefault` speaks of created
controllers only. It is not inductive, because a goroutine inside
`setConfig` has not created its controller yet. `CInv` records, for each
goroutine, what `setConfig` has established once the goroutine has passed
each step (`Passed(g, S)`): the shared field has its default, and the
controller's namer or tag agrees with it. These facts are stable under
other goroutines' steps because every write to the shared config only
replaces an unset field, or lower-cases a lower-case name. TLC checked
`CInv` on the controller_register instance before it was proved.

**`WrapperProofs`** proves `CallsExistHolds` and `KeepsLevelHolds` for every
logger that implements at least one of the four interfaces. `WInv` says
three things: `currentLogger` names an interface the logger implements
(`KindIface`), and the last call asserted that interface and called one of
its methods (`CalledIface`, a case analysis over the switch and the 21
methods). `KeepsLevel` depends on `currentLogger` alone, and `LevelKept`
proves it for each of the four cases.

**`GetHandlerProofs`** proves `ResponseMatchesOutcomeHolds` and
`DataOnlyAfterCleanChainHolds` for any get chain and number of requests.
Every `GetHandler` step is a `[Next]_vars` step of the processor
(`HNextIsNext`), so `IInv` carries over. `HInv` adds the handler's
bookkeeping:

- a request whose build failed never started a chain;
- a built request runs the get verb;
- an answer given after `s.Get()` agrees with the result it read.

`ChainContract` then turns a nil result into a chain of clean steps.

The refinement `GetRefinement == HSpec => ImplementsGet` maps the
handler to `GetSpec` with `resp` as `answer` and `Ran` as `ran`: a request
has run clean or failed once its build succeeded and its chain returned,
according to the chain's result. `HandleGet` with a failed build is
`Reject`, a successful one a stutter; the processor's `Finish` for a built
request is `Run` (`FinishRefinesGet`), its other steps stutters; `Respond`
is `Answer`. `HInv` supplies that `Finish` only ends a chain that a built
request started. TLC checks `ImplementsGet` on get_handler; the mutant
that answers data whatever the chain's error breaks it.

**`BracketsProofs`** proves `MatchesContractHolds` for any alphabet that
contains both brackets. spec.md 4.1 describes the values with a scan;
`Brackets` states it without recursion: the bracket before position `p` is
the last bracket in `1..p-1` (a `CHOOSE` of a maximum), a bracket is out
of turn when it repeats that one, the first out-of-turn bracket names the
error, and the `k`-th value lies between the `k`-th `]` and the bracket
before it. The earlier form with `SelectSeq` is a recursive operator that
the provers cannot unfold; TLC checked the two forms equal on every string
of up to 7 characters over `[`, `]`, `a` before the first was replaced.
The loop invariant `Scanned` says that no bracket scanned so far is out of
turn, `startIndex` and `endIndex` are the last `[` and `]` scanned, and
`values` holds one value per `]` scanned. Lemmas `ClosesStep`, `PrevAt`
and `FirstBad` say how each of those sets and indices moves with `i`;
`ValuesAtEnd` turns `Scanned` at `i = Len + 1` into `RefValues`.

**`PaginationProofs`** proves `RoundTripHolds` for every set of values.
`FormatKeys` says which keys `FormatQuery` writes into an empty query
(those of the pagination's family with a non-zero value), and
`FormatRoundTrip` reads them back. `PInv` says that `p` is a pagination
`newPagination` builds and `query` is `FormatQuery`'s result.

Only model-checked:

- the liveness properties of `Service`, because TLAPS cannot prove
  liveness or `ENABLED`;
- the contract of the bracket scan in the `SelectSeq` form of spec.md 4.1
  (see `BracketsProofs` above for the form that is proved);
- the finding of service_new_panics, a violation that TLC shows with a
  trace (a theorem states what holds, not what fails).

## 6. Not modelled

- **The scope builder (spec.md 4.2–4.6).** Its code is not in this snapshot
  of the source.
- **The public controller and `internal/query/builder.go`.** They are
  constructors with defaults and an external validator.
- **The rest of the internal controller.**
  - `New` only adds `log.SetLogger` before `newController`, and
    `SetLogger` is modelled in `Logger`.
  - `SetDefault` is one assignment.
  - `RegisterRepositories` and `RegisterRepository`, and the schema and
    repository lookups, forward to packages that are not in src. Their
    behaviour (what makes a registration fail, what `MapModel` needs) is
    stated nowhere in the source or spec.md.
- **The mapping accessors.** They wrap reflection, an external collaborator
  per spec.md. `pkg/mapping/structfield.go`'s `FieldKind()` returns
  `s.FieldKind()`, calling itself forever, so any caller overflows the
  stack. It is a plain bug that needs no model.
- **The repository interfaces.** They are declarations only.
- **Mocks, generated code and tests.**
- **What a logger does with a message,** and the HTTP marshaling: this is
  I/O.

Observations that no run checks:

- `log.Fatal` with no logger set returns silently. `Fatalf` prints and
  exits, and `Panic` panics. `Logger`'s `NilOutcome` models all three.
  No source states what `Fatal` should do.
- The hazards at `service.go:89`, `service.go:151` and `pagination.go:124`
  (see `PROJECT.json`) are shown by the models, but no source states the
  behaviour a property would check.
- The hazard at `logger.go:102`: which modules get subloggers depends on
  when modules join relative to `SetLogger`, but the module registry (the
  `modules` variable) is not in this snapshot of the source. With a fixed
  set of modules, giving them subloggers is one assignment, so no property
  checks it.

## 7. Plan

Done so far:

- the inventory and all modules above with their runs;
- the abstract `ChainSpec` and the processor's refinement of it;
- the `setConfig` race on `DefaultConfig`;
- the logging functions;
- proofs of every safety property of `Processor`, `Logger`, `Controller`
  and `GetHandler`, and of `Wrapper`, `Brackets` and `Pagination`;
- the abstract `GetSpec` and the handler's proved refinement of it.

Next:

1. `Service.Initialize` composed with `Controller`: `DialAll`,
   `RegisterModels`, and the `NonRepositoryModels` removal by collection
   name.
2. The scope builder of spec.md 4.6 (include tree, error budget of 5,
   pagination exclusivity), spec-modelled, feeding `GetHandler`'s build
   outcome.
3. A safety invariant of `Service` beside its liveness properties: the
   serving goroutine's send on `errorChan` never finds the buffer full.
   It would be checked in service_run and proved.
