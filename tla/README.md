# AI Bootstrap: a verification project

TLA+ models of `ai_engineering_bootstrap`, checked with TLC and proved with
TLAPS. Paths below are relative to `src/src/ai_engineering_bootstrap/` unless
they begin with `src/`.

## 1. The system

A user asks for an engineering environment (tools, Python packages). The program
audits the machine, reconciles what is there with what is wanted, lets a planner
(deterministic, or an LLM whose output is validated) choose installation
strategies, builds an execution plan, collects a human decision on every action,
and runs the approved ones through validation, an approval gate, a default-deny
safety gate, typed handlers and independent verifiers. A failure may be retried
a bounded number of times and re-planned a bounded number of times.

| Component | State it keeps | Operations | Talks to |
|---|---|---|---|
| HTTP server, `ApplicationBackend` (`backend/server.py`, `service.py`) | none of its own; one thread per request | one method per endpoint | session service, LLM settings, pipeline |
| Session service (`backend/session_service.py`, `runtime_session_service.py`) | `_running` and its lock; writes the session objects | create, plan, approve, reject, skip, start, start_async, cancel, reads | repository, reconciler, strategy planner, plan builder, bootstrap service |
| Session repository (`environment/session_repository.py`) | dictionary of session objects | create, get, update, list | shared by all request and worker threads; `get` returns the object itself |
| Session model (`environment/session_models.py`) | status, plan, approval states, events, evidence | set_approval_state, add_event, add_execution_evidence | written by several threads without a lock |
| Bootstrap service (`bootstrap/service.py`) | locals of one run: results, rejected actions, last result | run | pipeline, approval provider, approval callback |
| Pipeline engine (`pipeline/engine.py`) | locals of one call: current plan, executor, replan count | run, _approval_gate | planner or agent, validator, provider, executor |
| Executor engine (`executor/engine.py`) | locals of one execution: results, attempt | execute, verify | safety gate, registries, handlers, verifiers, retry policy |
| Safety gate, validator, registries (`executor/policy.py`, `validator.py`, `registry.py`, `verifier.py`) | constant tables | evaluate, validate, get_handler | consulted by the three above |
| Approval provider (`approval/provider.py`) | requests and their status | request, approve, reject, status | pipeline and bootstrap service |
| Intent parser, normaliser, merge (`agent/intent_parser.py`, `agent/intent_normalizer.py`, `backend/runtime_session_service.py`) | none | text to lists, lists to a request | session service, LLM |
| Reconciler, strategy planner, decision validator, plan builder (`environment/reconciler.py`, `agent/strategy_planner.py`, `agent/decision_validator.py`, `backend/execution_plan_builder.py`) | none | pure functions around one LLM call | session service |
| Handlers and verifiers (`executor/handlers/`) | the machine: packages, a daemon, a virtual environment | execute, verify | subprocesses, HTTP downloads |
| Failure classification (`executor/recovery.py`) | none | classify_failure | executor, on the text of a message |
| LLM settings (`backend/llm_settings.py`) | a file, the last probe result | get, update, test_connection, models, provider_config | request threads share it; the session service chooses its provider by it |
| JSON session store (`environment/session_store.py`) | files and an index | create, get, update, append_event, delete, list | nothing; exported only |
| Audit, probes, readiness; recovery agent; LLM provider; catalogues; CLI, GUI, generation | mostly none | | see `components` in PROJECT.json |

What is hard, and what correctness means there:

* **Sessions.** A `ThreadingHTTPServer` runs one thread per request and every
  accepted start runs in a daemon thread. All of them read and write the same
  session object; only the check of `_running` is under a lock. The hard
  behaviours are check-then-act on the plan and the status, a decision that
  arrives while a worker reads the decisions, a cancel that races a worker, and
  exceptions in a worker. Correct means: one run per session at a time; no real
  handler without an approval the user gave; a run acts on the user's last word;
  the evidence is true; every start ends; a terminal session stays as it is.
* **Pipeline.** Retries, replans and rejections interact: an approval is bound
  to an action, a plan and a run, and a recovery plan meets the approvals given
  for the plan before it. Correct means: consent for exactly what is executed,
  failure stops the loop, refused actions do not stop it, nothing is dropped,
  and recovery is bounded.
* **Tables.** Four tables and three functions that map an instance identifier
  such as `install_cursor:cursor` to a canonical name have to agree; where they
  do not, an approved action is silently not executed.
* **Machine.** A handler is a sequence of commands that may fail half way or
  outlive their timeout (killing `sudo` does not kill `apt-get` under it), and
  the machine changes by itself between a handler and its verifier. Correct
  means: no retry beside the command it repeats; no change, however late,
  without the consent for it; a verdict is about its own action, and what it
  certifies was not gone before its verifier began.
* **Settings.** Request threads load, merge and replace one file and one probe
  result without a lock. Correct means: what is published is the whole of what one
  update computed, a stored key is kept, a connection status is about settings
  like those it is shown with.
* **Store.** A session file and an index are rewritten in place by a process that
  may crash, or meet an error of the disk, between or inside the writes. Correct
  means: what was acknowledged survives, what was deleted stays away, and memory,
  index and files agree but for the session an operation failed on.
* **Planning.** Three parsers read one goal and split it differently; the lists
  they fill, the audit, the reconciler, a catalog or an LLM and the builder each
  filter what the one before produced. Correct means: what the user refuses is
  never installed, what is healthy is left alone, what is missing is planned or
  the plan is blocked, and an action installs what its identifier says. The last
  two the code keeps in part only: see sections 3 and 6.

`hazards` in PROJECT.json lists these at their lines.

## 2. Modules

| Module | Models | Reads as |
|---|---|---|
| `ActionPolicy` | the tables and identifier functions | constants and predicates, no state |
| `BootstrapOutcomes` | what one iteration of the bootstrap loop can hand back in REAL mode for an approved action | `RealOutcomes(a)`, a set of records |
| `SessionService` | session service, runtime session service, repository, the threads | one action per access to a shared attribute |
| `SessionContract` | what the session service promises whoever talks to it | the abstract specification of `SessionService`: requests and the steps of one run, each atomic |
| `BootstrapLoop` | what `EnvironmentBootstrapService.run` promises the session service | the abstract specification of `Pipeline` |
| `Pipeline` | bootstrap loop, pipeline engine, executor, approval provider, one thread | one action per decision, handler call or verification |
| `Intent` | intent parser (both kinds), normaliser and merge | operators from a goal to the lists of a request |
| `PlanBuilding` | one session from the request to its plan | `Create`, then `PlanByCatalog` or `PlanByLlm` over operators for each stage |
| `FailureClassification` | `classify_failure`: ordered rules over the words of a message | operators, no state |
| `ExecutorContract` | what `ExecutorEngine` promises the pipeline | the abstract specification of `Handlers`, and of the executor inside `Pipeline` |
| `HandlerContract` | what an attempt at an action can report | `HandlerResults(a, mode)`, a set of records |
| `Handlers` | the executor with the real handlers and verifiers, on one machine | one action per command outcome or verdict; `Land` and `Remove` are the machine |
| `LLMSettings` | the settings file, the probe, the choice of a provider, request threads | one action per file or probe access |
| `SessionStore` | the JSON store, the program that uses it, crashes | one action per file or index access, after a table of steps |
| `SessionServiceProofs`, `SessionRunProofs` | theorems about `SessionService` | |
| `PipelineProofs`, `PipelineLoopProofs` | theorems about `Pipeline` | |
| `PlanBuildingProofs`, `HandlersProofs`, `LLMSettingsProofs`, `SessionStoreProofs` | theorems about the module of that name | |
| `MCSession`, `MCPipeline`, `MCPlanBuilding`, `MCHandlers`, `MCLLMSettings`, `MCSessionStore` | values for the constants | |

How they compose, from the machine upwards: `Handlers` implements
`ExecutorContract` (property `ImplementsExecutor`, theorem `ExecutorImplemented`),
whose attempts report what `HandlerContract` allows; the executor inside
`Pipeline` takes exactly the steps of that contract (theorems `ExecutorIsContract`
and `ExecutorIsRun`); `Pipeline` implements `BootstrapLoop` (run
`pipeline_session`, theorem `SessionsRunTheLoop`); `SessionService` runs on
`BootstrapOutcomes`, the outcomes of one iteration of that loop, and implements
`SessionContract` (property `ImplementsContract`, theorem `ServiceKeepsContract`).
The plans `PlanBuilding` ends in are of the type of the constant `Plans` of
`SessionService` (theorem `PlanTypeCorrect`).

### SessionService and the code

Variables `status`, `plan`, `approval`, `stamped`, `timeline`, `history` are the
attributes `status`, `plan`, `approval_states`, `completed_at`, `events`,
`execution_history` of the session object; `running` is `_running`. The timeline
is kept as a tally per event kind, because nothing reads it back and its
properties are about which events there are. `session_failed` and
`session_completed` are split by origin (`worker_raised` for a start that fails
before `session_started`, `nothing_to_run` for one that completes without it),
so that the tally can tell a run that was closed from one that never began.

A request handler is a sequence of the actions of one client thread
(`RequestX` takes the request and does its first read; `BuildPlan`, `Register`,
`Decide`, `Spawn`, `Cancel` are its later steps). A worker goes through
`Begin`, `Examine`, `Require`, `Snapshot`, `ReadDecision`, `EndIteration`,
`Select`, `Launch`, `RunAction`, `Finish`, `Release`, with `Await`,
`IterationRaises`, `RunRaises`, `Raise`, `CompleteEmpty` as its other exits.
Each step makes at most one access to an attribute that another thread writes.
Merged on purpose: an event with the write it follows; the membership test and
the plan read of a decision; the two reads of `session.plan` in the emptiness
test of `start` (a plan never goes back to None).

The ghosts are `granted` (approved at some time), `late` (decided about since a
run last read the decisions) and `invoked` (real handlers called).

`RunAction` takes one of `RealOutcomes`, so the pipeline is not repeated here;
that this is sound for the plans of a session is what run `pipeline_session`
checks and `SessionsRunTheLoop` proves. `Workers` only has to be as large as the
number of workers alive at once; with one session that is one, and two are given.

`SessionContract` sees a session through the one thread that holds its run: its
`stage` is where that thread is, `real` its mode, `heard` the decisions it has
found approved, `cancels` the cancel requests that have read the status and not
yet written it. Every request is one step there, and so is every step of a run
that says anything. Two things are left as loose as the code has them, because
the contract would be false otherwise: a run hears one decision at a time, not
a consistent set of them, and a cancel asked for in time may land after the run.

### Pipeline and the code

`NextAction`, `Blocked`, `Unattended`, `Refuse`, `Approve`, `Record`, `Report`
are `EnvironmentBootstrapService.run`; `EnterInvalid`, `EnterPending`, `Enter`,
`Verify`, `RecoverInvalid`, `RecoverPending`, `Recover` are `PipelineEngine.run`;
`SkipRejected`, `Deny`, `Handle`, `EndExecution` are `ExecutorEngine.execute`.
`Raises` is an exception from an audit or a verifier, which nothing catches:
`default_audit_service` reads `pyproject.toml` outside the probes' error
boundary. A plan identifier is a hash of the plan's contents, so a plan is its
own identifier; a run identifier names the position in the plan. A handler
result keeps what `RetryPolicy.classify_failure` makes of it: retryable, and
whether it calls for a replan. What an agent or the planner proposes after a
failure is any of `Candidates`.

### Handlers and the code

`Execute`, `SkipRejected`, `Deny`, `Conclude` and `EndExecution` are
`ExecutorEngine.execute`; `Simulate` is every SAFE handler; `CheckPython`,
`Refuse`, `RefuseProject`, `VenvExists` and the `Begin...` actions are a real
handler up to its first command; `CommandOk`, `CommandFails`,
`CommandNotStarted`, `CommandTimesOut`, `DownloadOk`, `DownloadFails`,
`CreateVenv` are what `_run`, `subprocess.run`, `urlopen` and `EnvBuilder.create`
can do to it. `Verify` is one iteration of `ExecutorEngine.verify` that ends after
one look at the machine at most. The Docker verifier looks twice: `AskDocker` is
its parent's verdict on the executable, `AskDaemon` the `systemctl is-active`
after it, and the machine may change between the two. The ghost `lost` remembers
what went away during the verification, and which verdict came next. `left` holds
the commands that outlived their timeout, each with the order it was given
under (`TheOrder`), so that a late effect (`Land`) can be held against the
consent of the action that started it and not of the one running by then.
A message of a failure is the set of its trigger words: the handler's own words
and, where it quotes a package or a path, those of the context (`WordsIn`).
`FailureClassification` reads retry and replan off that set.

### LLMSettings and the code

`Get` and `GetProbe` are `get()`: the file first, the probe after. `Update` to
`Reload` are `update()`, `Test` to `TestRaises` are `test_connection()`, `Choose`
and `BuildProvider` are the two loads by which `intent_parser` and the strategy
planner each decide on a provider. A save is `Mkstemp` (an empty temporary file,
whose name no other save holds), `Dump`, `Replace` and `Chmod`; until `Dump` the
temporary file is cut short. Each of them may raise: `SaveFails` leaves the
settings alone and may leave the temporary file behind, `ChmodFails` leaves the
new settings in place with the old probe, because `update` raises before it
forgets it (the ghost `unforgotten` remembers these saves). Values are a record of
the four strings that are compared, and `enabled`; a key is a model value, and the
fingerprint knows only whether there is one. The environment variables of the
first configuration (`Legacy`) are chosen once.

### SessionStore and the code

`Steps` is the table of what each operation does, in the order of the code; the
actions are the steps. `open(path, "w")` truncates before `json.dump`, so a file
is `Torn` in between, whether the write raises (`WriteRaises`: an object without
`to_dict`, a timestamp read back as text) or the process stops (`Crash`).
`OSFails` is an error of the disk at any step that touches it. `Restart` is
`_load_index`: with a torn index it never succeeds. `New`, `AddEvent`, `Decide`
(`set_approval_state`, `add_agent_decision`) and `Get` are the program that uses
the store; `AppendEvent` is `append_event`, which writes back what it just read.
Events and decisions are what makes a session that was read back unwritable:
their timestamps stay text. Two ghosts remember operations that failed half way:
`cut` the sessions whose file a delete removed without returning, `unindexed`
those that were entered and are not in an index written since.

### Intent, PlanBuilding and the code

A goal is a sequence of clauses "[do not] install a and b", joined by "but": the
text that all three parsers accept although each cuts it differently.
`ExcludedTools`, `MentionedTools` (substring search), `ExcludedPackages` (token
search), `Normalize` (exact aliases) and `InstallTokens` (everything after the
first install verb that stands alone between two "and"s) are what each makes of
it. Lists without repetition are sets; that the order of clauses has no effect
follows from the final filters of `normalize`. Names are lower case.

`Create` is `RuntimeSessionService.create`: parse, normalise, merge, audit,
`ActualState`, `DesiredState`, `Reconcile`. A session's desired state carries no
version constraint and no tool to remove, and its actual state no packages, so
`Reconcile` has only the branches such states reach. `PlanByCatalog` is planning
without an LLM or after one failed; `PlanByLlm` planning with an answer that
passes `LlmUsable`; `Defaulted` gives its package arguments the catalog's
defaults and `Context` takes from them what pip is told to install, as
`_pip_context` does. `Build` is the plan builder and the end of `plan`: a
`ValueError` blocks the session, which may ask again.

On goals, requests and audits drawn at random (about 2,500, over the names of
the real catalog), the operators of these modules return what the Python code
returns: the same request, delta, status and plan.

## 3. Runs

| Run | Specification | Shows |
|---|---|---|
| `session` | `Spec` | the six safety invariants, `QuietIsForever` and the refinement of `SessionContract`, under every interleaving |
| `session_live` | `FairSpec` | every accepted start ends; no session stays EXECUTING |
| `pipeline` | `FairSpec` | consent, stop on failure, nothing dropped, recovery that is used up, termination, in both modes |
| `pipeline_session` | `Spec` | `Pipeline` implements `BootstrapLoop` |
| `plan_building` | `Spec` | refused tools stay out, healthy ones stay, a catalog plan covers the delta, pip is given the tool's package unless an LLM names another one twice |
| `handlers` | `Spec` | no retry overlaps what it repeats, every change of the machine had consent, verdicts are about the right action and certify nothing that was gone before, `Handlers` implements `ExecutorContract` |
| `llm_settings` | `Spec` | a save publishes its own settings whole or none, a shown status was tested, no probe survives an update, an enabled provider can be built, a key is lost to a race only |
| `session_store` | `Spec` | what was acknowledged survives crashes and errors, what was deleted stays deleted, index, memory and files differ only where an operation failed |
| `session_safe`, `session_cancel`, `plan_negated`, `plan_missing` | `Spec` | what a docstring or document says and the code does not do; see `findings` |

Bounds. `session` has one session (sessions share only `_running`, whose
elements are independent, so a second one adds no interaction), two clients
(every race in the handlers is between two threads), two workers, `MaxRequests`
= 5: enough for create, plan, approve, start and one request that interferes,
and for two plan requests followed by approve and start. The four plans are the
shapes that matter: a package before a tool (accepted, then refused by the
validator), the same package with other contents (a swapped plan), a package
whose context is refused, and no action. `session_live` takes `MaxRequests` = 4
and two of the plans, and no symmetry. `pipeline` has `MaxAttempts` = 2 and
`MaxReplans` = 2 (one more than the default of each, so that the count can be
exceeded by a mutant), plans of at most three actions and recovery plans that
repeat, change, extend or empty the plan, or that the validator refuses.

`plan_building` has one tool of every kind the catalog has (own handler, pip,
strategy without handler, no strategy), three names that are no tool (a package,
one that contains a tool's name, an alias), a goal of each shape that makes the
parsers differ, and LLM answers that are right, wrong in each check, or about
other tools than the delta; one names another package as `package_name`, one also
as `requirement`, one leaves the requirement empty. Sessions do not interact here,
so one is enough.

`handlers` has two executions, so that a command of the first can end in the
second, two attempts, and plans of two or three actions: both installers that
share the package lock, the Python environment, and what is refused or only
simulated. One distribution has a trigger word in its name, as `async-timeout`
has. `llm_settings` has two threads (every race is between two), three requests
(two updates around a test or a choice), one crash, and payloads that switch the
provider, drop a field and change a key. Its temporary names are two, the number
of saves in progress at once: where a temporary file was left behind a save may
wait for a name, which `mkstemp` would not, and drawing a name that a save in
progress has just given up is left out. `session_store` has two sessions (an
operation on one may hurt the other through the index), four operations (create, a
failure, and two that meet what it left), two crashes (one can hit what the other
left), errors without bound, and two events (the second is the one that fails
after a reload). In both, the symmetry is over identifiers or threads that no
definition tells apart.

Fairness. Weak fairness of each thread: nothing in a handler waits for another
thread except on `_running_lock`, held for a few statements, and the handlers
run their subprocesses with a timeout. `Pipeline` adds that the user of an
interactive bootstrap answers. Requests are never forced to arrive.

No liveness is claimed of `Handlers`: `ensurepip` runs without a timeout and
`sudo` may wait for a password. `SessionService` therefore assumes an iteration
that ends, which the other handlers' timeouts give.

Deadlock is not checked: a server without requests, a bootstrap that is done,
an executor without a job and a store with a torn index stop.

## 4. Proofs

`SessionServiceProofs` proves, for all sets of sessions, clients, workers and
plans and every bound:

* `TypeCorrect`: `Spec => []TypeOK`. It needs `RequestShape` (a client inside a
  handler carries the request that handler reads), `PlanPresent` (a worker past
  `Begin` has a plan) and `TodoApproved`, because a step may index the plan.
* `ApprovalBeforeInvocation`: `Spec => []OnlyApprovedInvoked`. The property is
  not inductive: between the approval and the call lie the snapshot, the
  filtered plan and the loop. `ApprovalInv` follows the permission along that
  way: what stands approved was granted (`ApprovalsGranted`), what a run holds
  as approved was granted (`RunsGranted`), what it has left to do is among what
  it holds as approved (`TodoApproved`), and so what was invoked was granted.
  It rests on `AllNeedApproval`: every action the builder emits needs approval.
* `OneRunAtATime`: `Spec => []OneRunPerSession`, inductive relative to `TypeOK`:
  the threads that hold or will hold a session's run are one exactly while the
  session is in `_running`.

`PlanBuildingProofs` proves, for every catalog, lexicon, request, goal, audit
and LLM answer:

* `PlanTypeCorrect`: `Spec => [](TypeOK /\ Made)`, where `Made` says that there
  is no plan before the session is planned. Its core is `BuiltType`: an action
  whose name the capability registry knows has one of `BuilderNames`.
* `RefusedToolsStayOut` and `HealthyToolsStay`: only `Create` writes what these
  compare, so they follow from `CreateStep`, which chains the type and the
  exclusions through `IntentsType`, `NormalizeType`, `MergeType` and
  `ReconcileBounds`.
* `CatalogPlansCover` and `PipInstallsTheTool`: from `PlanStep`, which says what
  the two planning actions have in common, and `CatalogDecisionsSound` and
  `LlmDecisionsSound`. The second follows an LLM's package arguments through the
  defaults (`DefaultsHold`) and the builder (`DecisionPackage`) to what the
  requirement check of `security.py` lets through, and needs `Made`: `Create`
  replaces the delta that the plan is compared with.

`HandlersProofs` proves the properties of run `handlers`, for every set of
plans, contexts and words, every number of attempts and executions. `ExecutorInv`
says where the executor can be with which action (a command belongs to a real,
allowed, unrejected action whose context passed the check) and that every
result so far is one of its action; `MachineInv` says that every order in
`changed` and `left` was a consented one, and that a command which outlived its
timeout belongs to an action the executor has left. `NoOverlap` rests on a
lemma about the tables: no rule of `classify_failure` knows "timed out", so a
command that outlived its timeout is not tried again; pip's message also quotes
a package name, but pip is killed for good. `CertifiedStillThere` needs more:
`LossInv` says of every verdict so far, and of the executable while the daemon is
asked for, that what it saw is there or is in `lost`; a verdict enters it by what
its verifier's last look found, `AskDaemon` by what both looks found.

`ExecutorImplemented` is the refinement: `Spec => ImplementsExecutor`. Each action
of `Handlers` is a step of the contract or shows the pipeline nothing (`Kinds`): a
command that ends, times out or fails half way is silent unless it ends the
attempt. `RefineInv` adds what the contract says and the invariant does not: a
second attempt is at an action that passed the gate, and only a success that has a
verifier fails its verification. `ResultsRefine` keeps every result within
`HandlerContract`.

`LLMSettingsProofs` proves all six properties of run `llm_settings`. `FileSound`
and `SaveSound` say that whatever is in the file or about to replace it was
normalised or came from the environment; `TempsOwned` that a temporary file is
the business of one thread and complete when it is renamed, from which
`SavesWhole` follows; `ProbeTested` that the recorded probe is among `tested`;
`ProbeOutlives` which saves it may have outlived, given who is still on the way to
forgetting it; `KeyKept` that a value about to be saved still has the key of the
file it was merged with, unless the file was replaced since.

`SessionStoreProofs` proves all six properties of run `session_store`. The
properties are about what survives, so the invariant must say what the operation
in progress is about to break: `IndexFollows` lists the ways in which index and
memory may differ at each step of create and delete, `JobFollows` what is true of
the session in hand (while its file is rewritten or removed nothing of it is
acknowledged), `KnownFollows` that memory names only sessions that were written
and not deleted, and all that were acknowledged, and `FilesFollow` which known
sessions may lack a file. `CrashStep` and `FailStep` are then easy: everything
claimed of the disk holds of it at every step, which is the point of the order in
`Steps`.

`SessionRunProofs` proves the other properties of run `session`, and that runs
are bounded.

* `EvidenceIsTrue`: `EvidenceInv` adds to the property that what a run carries
  towards `execution_history` is as true as what is already there.
* `TimelineCloses`: the numbers of `session_started` events and of ends differ by
  the workers that are between the two. `OneRunPerSession` makes that at most one.
* `LastWordFollowed`: `LastWordInv` says of each worker that a decision it read as
  approved is still so, or is in `late`; `Snapshot` forgets only what is late for
  its own session, and no other worker has that session.
* `TheEndIsFinal`: an action property, from the type invariant alone: start and
  cancel refuse a terminal session, and who still writes one was running before.
* `ServiceKeepsContract`: `Spec => ImplementsContract`. The abstract state is a
  function of the thread that holds the run, so each step needs three facts:
  the session it works for has no other holder (`OneRunPerSession`, before and
  after the step: `RunnerIs`), every other session's holder is as it was
  (`SameRun`), and what the holder shows has changed as the contract says
  (`WorkerSeen`, `ClientSeen`, `StartAsyncSeen`, `SpawnSeen`). Most steps show
  nothing. The guards of the contract come from the invariants above
  (`TodoApproved` for a call, `CarriedIsTrue` for the evidence, `ActionsFollow`
  for where an exception strikes) and from `ContractInv`: only a REAL run gets
  past the examination of its plan, and a run whose results are all successes
  carries no evidence of a failure (`FailuresShow`), so that a completed session
  admits none.
* `RunsAreBounded`: every step of a run lowers, lexicographically, the way ahead
  of it in `start`, the decisions it has to read and the actions it has to run,
  three naturals (`FiniteInv`: only decisions that were taken have an entry); a
  step of any other thread leaves them alone. No request can send a run back.
  That is all of `EveryStartEnds` but the fairness of the thread.

`PipelineProofs` proves the properties of run `pipeline` but `Terminates`, for every
set of plans and candidates and every number of attempts and replans. `LoopInv`
says that the results and the calls of the bootstrap lie behind its position, one
iteration each; `ConsentInv` follows a consent from the answer (`LastIsAsked`)
to the second entry into the pipeline (`ResumesApproved`) and into the executor
(`ExecutesAnswered`), as `ApprovalInv` does in the session service. That the
loop finds the request it looks for by position (`NewRequests`) needs the least
element of a set of naturals, `NthExists`. `RecoveryIsBounded` proves
`EveryStepUsesUp`: six naturals fall lexicographically at every step (positions
left in the plan, the stage of the iteration, replans left, the stage of the
call, actions left in it, attempts left), whatever the handlers report and the
planner proposes. That is all of `Terminates` but the fairness.

It also meets `HandlersProofs` half way. `ExecutorIsContract` says that a step of
`Pipeline` is a step of its executor exactly when it is a step of
`ExecutorContract` that leaves the rest of the pipeline alone; `ExecutorIsRun`
that, whatever happens around it, each execution begins afresh with the consent
and the rejections of its own call and goes on as the contract says. So neither
side assumes what the other does not keep.

`PipelineLoopProofs` proves `SessionsRunTheLoop`: `Spec => ImplementsLoop`, all
of the refinement that run `pipeline_session` checks. Its hypothesis
`SessionCallers` says how `start` calls the bootstrap: REAL, attended, answered
with yes, with plans of a session; `MCPipeline` checks that the instance of the
run satisfies it. The steps of the pipeline stutter until `Record` or `Report`;
then the result must be one of `RealOutcomes`. `SessionInv` therefore follows an
iteration from the plan it was handed (`PlainCall`, `AskCall`, `ResumedCall`) to
either the session's action (`OnAction`) or a recovery plan (`OnRecovery`), whose
remediations, alone or together, `BootstrapOutcomes` stands for by one
identifier.

Assumptions used: those named in the modules (threads are clients or workers,
plans are sequences of session actions, bounds are naturals; the catalog and the
lexicon are functions on their names, and inputs have their types; the marks for
a missing or a torn file are no contents of one).

Model-checked only: `Terminates`, `EveryStartEnds` and `NoStuckExecution`.
Liveness under fairness is out of the prover's reach; that their steps are
bounded is proved (`RecoveryIsBounded`, `RunsAreBounded`), and what TLC adds is
that no thread is stuck on the way.

## 5. Plan

Done: sections 2 to 4; every safety property a passing run checks is also proved.
Left, in this order:

1. `PipelineEngine` with the agent runtime's decision in place of `Candidates`,
   and the capability binding it uses.
2. An abstract specification of the JSON store, with each operation and each
   crash as one atomic step, and `SessionStore` shown to implement it.
3. Version comparison of the reconciler, against a reference definition; no
   session reaches it today.

## 6. Disagreements without a run of their own

Met while modelling, with the interleaving; the runs of `findings` come first
because they are the shortest way for a user to meet one.

* *Plans.* Two plan requests each find `session.plan` None and each build one
  (`backend/session_service.py:111`); the docstring above says "exactly once per
  session". An LLM's answer may name any package for a tool that pip installs
  (`agent/strategy_planner.py:132`): with the same name as `package_name` and as
  `requirement`, or with an empty requirement, it is what pip is given under the
  tool's identifier, while `src/docs/step32-hardening-plan.md:11` says that LLM
  output is "validated against the tool catalog". `PackageIsTheTools` exempts
  exactly that answer (`Replaces`); a `package_name` alone does not suffice,
  because the default requirement then names the catalog's package and
  `executor/security.py:30` refuses the pair. A session is COMPLETED although an
  action's handler never ran, when the bootstrap loop passes over an action the
  gate blocks (`bootstrap/service.py:159`). A bootstrap with a rejected action
  ends in success (`pipeline/engine.py:57`).
* *Settings.* `src/docs/STEP32-VALIDATION.md:5` calls deterministic parsing an
  explicit fallback, but legacy variables with `remote_api` and no key enable a
  provider whose construction raises `ProviderConnectionError`, which
  `backend/service.py:170` does not catch: in `LLMSettings`, `Choose` and then
  `BuildProvider` for the caller "intent" end in "raised". A server that answers
  too slowly raises `TimeoutError` past `test_connection`, so the result of an
  earlier test stays on show (`TestRaises`). A test of a key that is not saved
  records its status for the stored settings, whose fingerprint is the same, and
  so does one that is answered after its key was replaced. When setting the
  permissions fails after the replacement (`backend/llm_settings.py:74`), the
  update raises, the new settings are in place and the old probe is not forgotten
  (`ChmodFails`). The test of `in_process` says ok, although no model is ever
  given to it. Saving drops the temperature, the token limit and the thinking
  switch.
* *Store.* A session read back has textual timestamps, so its next
  `append_event` writes once more, then raises after truncating: the file is
  empty from then on (`Get` or `AppendEvent`, `Truncate`, `WriteRaises`). A
  session with a request, a plan or a delta can never be written. Execution
  evidence is not read back. A crash while the index is rewritten leaves a store
  that cannot be opened, and so does an error there; a crash or an error in the
  middle of a delete leaves an identifier that can neither be read nor created. A
  create that fails on the index (`environment/session_store.py:145`) has entered
  the session: updates of it succeed, and a restart forgets it.
* *Machine.* `EnvBuilder` writes `pyvenv.cfg` before it installs pip. When that
  fails, the action fails; the next execution finds the marker
  (`executor/handlers/dependency_handlers.py:60`), succeeds, and is certified
  (`executor/handlers/verifiers.py:147`) without pip: `CreateVenv`, `VenvExists`,
  `Verify`. The verifier of the project asks, by default, for this program's own
  distribution (`executor/handlers/verifiers.py:200`).
* *Classification by message.* A package named like `async-timeout` makes every
  failure of its installation transient; a real timeout says "timed out", which
  is permanent; an HTTP "Service Unavailable" asks for a replan, a wrong platform
  does not.

## 7. Not modelled

What subprocesses, probes and HTTP clients print (their success, failure and
effects are the environment's choice in the models); the text of messages,
prompts and regular expressions; the readiness score; the GUI, CLI output, the
FastAPI surface (same backend methods); project generation; run evidence (an
append-only log no decision reads); the recovery agent (exported, never called);
the installation strategy classes (no caller); the superseded top-level modules.
`max_attempts` 0 is excluded by assumption: no caller passes it. A failure of
`Thread.start` is left out, as are the settings' file permissions (but for the
failure to set them), the store's listing, and execution evidence in the store's
sessions, which decides neither whether one can be written nor what is read back
of the rest. `components` in PROJECT.json gives the reason for each part.
