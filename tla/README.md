# RunSecure orchestrator: TLA+ models and proofs

RunSecure runs ephemeral GitHub Actions runners. Its orchestrator polls GitHub
for queued jobs, admits spawns within capacity limits, registers a just-in-time
runner for each, starts it at a Docker or Kubernetes backend, watches it, and
removes it again. This directory holds TLA+ modules translated from that code
(`infra/orchestrator`, and `infra/socket-proxy`, through which it talks to
Docker), the TLC configurations that check them on small scopes
and the TLAPS proofs of what holds for every scope.

## 1. Inventory

| Component | Source | State | Operations | Hard part |
|---|---|---|---|---|
| Capacity ledger | `internal/state/state.go` | reservations by spawn id, counters per repository, drain flag, teardown barrier, totals | TryReserve, RecordJIT, MarkOnline, MarkAssigned, MarkTeardownBlocked, ResolveTeardown, ReleaseReservation, SetDraining | the same fact kept twice, clamped counters, a cached flag |
| Poll loop | `internal/orchestrator/poll.go` | rotation index | tick, Run | readings in separate critical sections, blocking send, cancellation |
| Spawn worker | `internal/orchestrator/spawn.go` | the call stack of Execute | Execute, settlePartialSpawn, settleCleanup, the two retry loops, failAndLeak | every external call may fail after it took effect; two cleanups that fail independently |
| Runner lifecycle | `internal/orchestrator/lifecycle.go` | online, assigned, four timers | waitForLifecycle, correlateCompletedJob | deadline, observation and exit race |
| Pool and shutdown | `cmd/orchestrator/run.go`, `shutdown.go` | intent channel, WaitGroup, drain flag, contexts | Run, drainAndStop | who may close the channel, two deadlines, cancelled retries |
| Cold start | `cmd/orchestrator/coldstart.go`, `backend_init.go` | resources and registrations of a previous process | cleanup and validation of recovered spawns and registrations | a crash between any two steps, of the recovery too; whose resources these are |
| Compose backend | `internal/backend/compose`, `internal/docker` | networks, proxy, runner container, egress directory | Spawn, WaitForExit, Teardown, Reconcile | partial creation and rollback |
| Docker socket proxy | `infra/socket-proxy` | none | routes, schemas, image list, policy on containers and networks | two programs that must agree on every request; a denial half way |
| Kubernetes backend | `internal/backend/kube`, `internal/kube` | Secret, Service, three NetworkPolicies, two Pods per spawn | Ready, Spawn, WaitForExit, Teardown, Reconcile | partial creation, deletions that take effect late, policies that must outlast pods |
| Scope and runner configuration | `internal/config`, `internal/runneryml` | none | Validate, validateProjects, ValidateEgress | several validators with rules of their own |
| Egress policy and rendering | `internal/security`, `internal/egress` | the spawn's directory | ApplyProjectOverrides, CheckEgressIPLiterals, Render | one policy, four enforcers |
| Circuit breaker, rate limiter | `internal/state/breaker.go`, `ratelimit.go` | failure count and open time; tokens | IsOpen, MaybeHalfOpen, TryTake | half-open probe, refill rounding |
| Rate-limit pause | `cmd/orchestrator/run.go` | paused scopes, reset time | MarkRateLimited, MaybeClearRateLimit | a late answer overwriting a newer one |
| Runner configuration cache | `cmd/orchestrator/run.go`, `internal/github/contents.go` | entity tag and cached body per repository | RunnerYMLContext | tag and body stored in two critical sections |
| GitHub client | `internal/github` | none | demand, JIT configuration, runner listing and deletion | lost answers, pagination |
| Authentication | `internal/auth` | cached installation token | Token | expiry |
| Management server | `internal/server` | none (reads the ledger) | readyz, healthz, metrics, snapshot | what "ready" implies |
| Events | `internal/cornerstone` | none | formatting | none with control state |

Interaction: `Run` starts one poll goroutine and `global_max_runners` workers.
The poller reserves a slot in the ledger and sends an intent over a channel of 32; a worker
takes it, executes it and gives the slot back on return. All share the ledger,
whose methods hold one mutex. `Run` waits for a signal and then drains: it joins
the poller, closes the channel and waits for the workers, first for the drain
timeout and then, after cancelling them, for a grace period.

What makes it correct: capacity is charged from before a runner exists until it
provably no longer does, as far as the process was told of it; nothing is admitted while a cleanup is owed; each
reservation is given back exactly once; shutdown ends, and leaves behind only
what it has recorded as debt; the next process takes work only when nothing of
the last one is left; a runner's traffic passes its own proxy from the moment it
exists until it is gone. The hazards that threaten this are listed, with
their lines and the properties that would catch them, in `PROJECT.json`.

## 2. Modules

* `CapacityLedger`: the abstract specification of the ledger. A spawn holds a
  slot of its repository or owes it; nobody is admitted while somebody owes.
* `State`: the ledger as coded: one action per method (each runs under the
  mutex), the counters, the cached barrier and the teardown totals.
  A method that returns without a change is a disabled action.
  `Abstract` is the refinement mapping to `CapacityLedger`.
* `Orchestrator`: extends `State` with the poll goroutine, the workers and the
  main goroutine as processes with program counters. A step is one critical
  section, one channel operation or one external call. `poll.left` is first the
  minimum of the availability readings, then the number still to reserve;
  `worker[w].backendErr` and `runnerErr` are the two cleanup results of Execute.
  The world is four sets: `stacks` (spawns with anything at the backend that a
  handle names) and `runners` (registrations whose id the process knows), and
  beside them `strays` and `lost`, what was created at the backend and at GitHub
  without an answer that says so. No cleanup of this process can name the latter:
  `ResourcesCharged` and `DrainLeavesOnlyDebt` are about the former.
* `StateProofs`: the theorems about `State`.
* `Lifecycle`: one worker's wait for its runner (`waitForLifecycle`), the one
  component with a clock. `timers` is the set of armed timers and `FiresAt` when
  each fires; `pc` is "observe" or "correlate" while a GitHub call is in flight
  (`answer`, "none" until GitHub has looked), "select" in the loop, "classify"
  after the exit. `wait` is the goroutine in `WaitForExit` and its channel of
  one, `backend` whose wait it is. `job` is the job the runner was given, within
  reach of the search after the exit or not: that search looks at the candidates
  of the intent and their runs, and else at the latest attempts in runs of the
  last seven days that are queued, in progress or completed. `phase` is what the
  ledger has been told. `prompt` and `busySince` are history.
* `ComposeBackend`: one spawn at the compose backend, one step per Docker
  request: rendering, creation, start, rollback, teardown and its retries.
  `refs` is the handle, `exists` and `running` are Docker's, `said` is the last
  answer, `faulty` ends when Docker recovers. Every request passes `SocketProxy`;
  `settings` is what the two programs were deployed with (images, egress network,
  volume, seccomp profile), fitting or not.
* `SocketProxy`: the proxy's decision on a request, and the requests the
  orchestrator makes, as records: route, fields present, and the values the
  proxy looks at.
* `KubeObjects`: the seven objects of a spawn, the default-deny policy and, as an
  environment, what a cluster that enforces NetworkPolicies lets through.
* `EgressPolicy`: profiles, overrides, the check of literal addresses, and what
  Squid, HAProxy and dnsmasq do with the files rendered from them. Squid's
  rules are its access lists in order, each the set of requests it matches.
* `ScopeConfig`: which scopes the process starts with and which runner
  configurations it spawns from, as predicates named after the functions.
* `KubeBackend`: several spawns at the Kubernetes backend, one API request per
  step. `objs` and `ending` are the cluster's view, `todo` what the call under
  way has yet to ask for, `errs` the errors it has joined.
* `ColdStart`: processes that spawn, crash and recover, one after the other,
  against GitHub and one backend. `things` and `reg` are what exists, others'
  included; the recovery lists, validates, deletes registrations and
  then resources, and may be cut off anywhere. Here a spawn is only its
  creations and deletions: the ledger dies with the process. `Release` gives a
  slot back whatever is left of its spawn, which is more than `Orchestrator`
  allows: there only what was never acknowledged can be left.
* `RunnerConfig`: `RunnerYMLContext` called by the poller and the workers, with
  the entity tag in the ledger and the snapshot in a map of its own.
* `BackendContract`: what Execute and the ledger rely on in a backend's answers;
  `ComposeBackend` and, for each spawn, `KubeBackend` are mapped to it by
  `Contract`. It is the contract of `BackendSpawn`, `TeardownOK` and
  `TeardownFailed` in `Orchestrator`, where `stacks` says of which spawns
  something is left that the backend can name.
* `LifecycleProofs`, `OrchestratorProofs`, `ComposeProofs`, `KubeProofs`,
  `ColdStartProofs`: the theorems about `Lifecycle`, `Orchestrator`,
  `ComposeBackend` with `SocketProxy`, `KubeBackend` with the modules it uses,
  and `ColdStart`.
* `MCState`, `MCOrchestrator`, `MCLifecycle`, `MCCompose`, `MCKube`,
  `MCColdStart`: instances for TLC.

Left out of these modules: timestamps, names, the text of events and rendered
configurations, hardening no check looks at, displayed totals without a reader in the
control flow (assignments, completions, deregistrations, poll results). Of
`validateApprovedRunner` the runtime, the format and number of labels, upper
bounds of resources and timeout, seccomp and the image's digest are left out,
and of `Spawn`'s checks in `kube.go` those of the DNS settings, which
`validateKubeEnvironment` makes at startup on the same environment: so
`NothingRefused` is about the other rules. Except in `Lifecycle` time is left out too: a timer may fire whenever it is armed.
`Lifecycle` takes two things for granted: the waiting goroutine is scheduled
within a tick, and GitHub's view of a finished job is not behind the runner's
exit. A real lag there would make `VerdictTrue` depend on GitHub alone. Within
that, `VerdictTrue` says of an unassigned verdict only what the code's search
can know: a job of an older run that was started again, of a run waiting for
approval, or whose run changes its status between the search's requests is out
of reach, and its runner is then called unassigned.
`ColdStart` takes for granted that a request in flight when the process dies
arrives before the next process lists, or never, and, as GitHub documents, that
a busy runner cannot be deleted. `KubeBackend` takes for granted that the network
plugin enforces policies at once, and has IPv4 only, like the code's policies.

## 3. Runs

| Run | Instance | What it shows |
|---|---|---|
| `ledger` | two repositories (caps 1 and 2), scope cap 2, four spawns, arbitrary callers | counters, barrier and totals never drift from the map; admitted spawns stay within the caps; no admission while debt exists; refinement of `CapacityLedger` |
| `orchestrator_pool` | one repository, two workers, three spawns, channel of 1 | every reservation has one owner; what has an identifier is charged; live runners stay within the caps; the poller's send finds a free worker; no send on a closed channel; coverage never exceeds demand; the drain leaves, of what has an identifier, only debt |
| `orchestrator_live` | two repositories, scope cap 1, one worker, two spawns, fairness | where the scope's cap is below the sum of the repositories', each step is at most one ledger operation (`UsesLedger`), every slot is given back and every drain ends |
| `orchestrator_orphan` | one spawn | expected violation, see Findings |
| `lifecycle` | online deadline 3, assignment 6, ticker 2, lead 1, wall clock 8, both backends, fairness | a completed verdict is true, with compose an unassigned one too, as far as the job search reaches, and its process is over; no call extends a deadline; a busy runner is not given up; the wait ends |
| `lifecycle_kube` | the same, Kubernetes only | expected violation, see Findings |
| `compose` | one spawn, settings of orchestrator and socket proxy that fit or not, fairness | the compose backend implements `BackendContract` for what it has identifiers of; a finished cleanup leaves nothing running; with fitting settings the proxy admits every request (`SpawnAdmitted`), and a spawn it denies can always be undone through it (`DenialLeavesNoDebt`); every cleanup finishes |
| `compose_lost`, `compose_egress` | the same | expected violations, see Findings |
| `kube` | two spawns of two repositories, sharing a namespace or not, one failing request, scopes and runner configurations that are accepted or refused, fairness | `SpawnsConfined`: no runner is ever past its proxy and no pod reaches another spawn's, in creation, at work and in teardown; `ProxyServesRunner`: the separately written port lists and the four layers that filter addresses agree; `NothingRefused`: what startup or an earlier check accepts, no later one refuses; `EnrolledApart`: shared mode keeps projects apart; the backend implements `BackendContract` without exception; every spawn settles |
| `coldstart` | two own spawns and a foreign one, two repositories one of which may be withdrawn, the three ways spawns are kept, two crashes, one failing call, fairness | `StartsClean`: in the step that starts to take work nothing it can see is left; `RegistrationsFirst`: a recovery removes no runner that is still registered; `ForeignKept`: others' resources survive; `Recovers`: it comes up again, unless a leftover runner is active or a withdrawn repository left resources |
| `runner_config` | poller and one worker, three commits | expected violation, see Findings |

Bounds. `SpawnIDs` bounds how many spawns a behaviour contains; three let a slot
be reused while another spawn is in trouble. `MaxQueued` bounds GitHub's answer:
one more than the repository can serve adds nothing because `toSpawn` is clamped.
`ChanCap` is below the pool size so that a full channel occurs (32 in the code).
`MaxUnacked` bounds how many creations go unacknowledged: one in
`orchestrator_pool`, none in `orchestrator_live`, as no step depends on them.
`MaxTotal` bounds the two teardown totals, which only grow. With four spawns the
ledger can hold two admitted and two adopted debts, more than its cap.
In `Lifecycle` the code's deadlines of 60 and 120 s keep their ratio, the
ticker's period divides one deadline and not the other, so that ticks fall on,
before and after deadlines, and the clock stops at the wall-clock timeout, by
when every wait has ended. `ComposeBackend` has no bound: one spawn is finite.
In `kube`, `MaxFaults` is one request that fails, at any point of either spawn,
besides rollbacks whose context has ended and confirmations that come too early,
which are not counted; two spawns are what isolation is about. The scopes are two
that are accepted, one with a shared namespace and an approved range of pods, one
with a namespace per project, and one for each rule that refuses. In `coldstart`
a second spawn makes listing and deletion take more than one step, and the second
crash may hit the recovery from the first. In `runner_config` two commits fall
between a request and the storing of its answer.

Fairness, in the runs that say so only. `orchestrator_live`: weak fairness of
each goroutine (the Go scheduler; waits in them are bounded by the wall clock of WaitForExit and the
lifecycle deadlines), of the drain (its waits are timers), and strong fairness
of a successful retry: a backend or GitHub asked for ever to remove something
in the end does. Without the last one the code retries for ever by design, and
the scope stays blocked. `lifecycle`: time passes and the two goroutines
run; nothing is assumed of GitHub, the runner or the signal, because every call
has a context with a deadline. `compose`: the worker runs, its wait is
bounded, and Docker stops failing at some time; until then it may fail in any
pattern. `kube`: the workers run and deletions the API server accepted take
effect; requests stop failing because their number is bounded. `coldstart`: a
supervisor restarts the process, whose recovery then runs, and the number of
failing calls is bounded. Nothing is assumed of the leftover runners: nobody
guarantees that one which is connected gets a job or that its job ends, and the
recovery refuses to start before, so `Recovers` names this case (`Occupied`).

## 4. Proofs

`StateProofs` proves for every `Repos`, `SpawnIDs`, `RepoCap` and `GlobalCap`
(assumption: the caps are natural numbers):

* `TypeCorrect`, `CountersExact`, `BarrierExact`, `CapsHold`: `[]TypeOK`,
  `[]LedgerExact`, `[]DebtExact`, `[]AdmittedWithinCaps`;
* `DebtFreezes`: the action property `DebtFreezesAdmission`;
* `Refinement`: `StateSpec => ImplementsCapacityLedger`.

The inductive invariant `IInv` is the conjunction of all four with the
finiteness of the sets counted: `AdmittedWithinCaps` speaks of the map while
`TryReserve` compares counters, so it is inductive only together with
`LedgerExact`; and `LedgerExact` needs the phase of a reservation to be counted
in its own repository, or the clamps at zero would bite. The map changes through
three helpers only, and one lemma for each (`ChargeEffect`, `MoveEffect`,
`ReleaseEffect`) says how sets and counters move together. `GlobalInFlight` is
the cardinality of a set of units rather than a recursive sum, so that the
prover can reason about it; TLC confirms in `LedgerExact` that it is the number
of reservations.

`OrchestratorProofs` proves for every scope, pool, channel capacity and set of
spawns (assumption `PoolAssumption`: the pool has `global_max_runners` workers and
that number is positive, as the scope's validation demands; the configuration
lists at least one repository):

* `LedgerUsed`: `Spec => UsesLedger`, so everything `StateProofs` shows for any
  caller holds of the process;
* `ProcTypeCorrect`, `Owned`, `Charged`, `LiveCaps`, `CloseAfterSender`,
  `DrainClean`: `ProcTypeOK`, `ReservationOwned`, `ResourcesCharged`,
  `LiveWithinCaps`, `NoSendOnClosed`, `DrainLeavesOnlyDebt`;
* `SendsFindWorkers`, `TicksWithinDemand`: `SendFindsWorker`,
  `CoverageWithinDemand`.

The inductive invariant `ProcInv` says of every program counter of Execute what
the worker knows there (`WorkerOK`): before the JIT call nothing exists for its
spawn; once a cleanup may have left something, the worker's error flag is set;
in the retry loop the reservation is debt; and a worker that finishes with debt
does so because it was cancelled. `ResourcesCharged` is not inductive without
this, because `Resolve` and `Finish` release a reservation on the strength of
the flags alone. `Exclusive` (no spawn in two pairs of hands) lets one lemma,
`Untouched`, discharge what other goroutines know in every step, and
`HandsIssued` makes a reserved identifier new. `AllWithinCaps` is stronger than
the ledger's `AdmittedWithinCaps`: the process only marks spawns it has reserved,
so debt stays within the caps too. `ProcInv` was checked with TLC on the
instances of one and of two repositories before it was proved.

`SendFindsWorker` follows from `ProcInv` by counting: sending poller, intents and
busy workers hold different reservations (`HandsBounded`), of which
`AllWithinCaps` leaves no more than the pool has workers. For
`CoverageWithinDemand` the invariant is `DemandOK`, which keeps the inequality
also while the poller is sending, when the property is silent. Its argument is
that every step of the process is a reservation of the poller or gains nothing
(`StepFacts`, `NoGain`): a worker may take a reservation out of what covers the
demand but never puts one in, so a coverage read too early is read too high.

`LifecycleProofs` proves for every choice of timeouts (assumption
`TimingAssumption`: they are positive, the lead is below both deadlines, and the
clock's bound is not below the last of them)
`LifecycleTyped`, `ContractKept`, `PhaseKept`, `VerdictKept` and `BusyKept`:
`LifecycleTypeOK`, `DeliveryContract`, `PhaseFollows` (the ledger's phase follows
the observations; proved, and in no run), `VerdictTrue` and `BusyRunnerKept`. Its inductive invariant adds that a deadline is armed whenever
the condition it guards is open, that an exit the loop acts on has happened, and
that a final observation has seen what GitHub showed while it answered promptly.

`ComposeProofs` proves for every set of deployments (assumption
`SettingsAssumption`: no deployment's egress network is called "internal", which
stands for the spawn's own network, known by an identifier Docker generates):

* `ComposeTypesHold`, `ComposeLeavesNothingRunning`: `ComposeTypeOK`,
  `NothingLeftRunning`;
* `ComposeImplementsContract`: `Spec => ImplementsContract`, the refinement of
  `BackendContract`, each step mapped to a step or a stutter;
* `FittingSettingsAdmitted`: `SpawnAdmitted`, from one lemma per kind of request;
* `DenialsLeaveNoDebt`: `DenialLeavesNoDebt`, from `Untroubled`, which holds
  from the moment a spawn begins with Docker at work and is kept by every step.

The invariant `ComposeInv` says what a stage has established: which answer was
the last (`Answered`), that nothing runs whose identifier is unknown (`Learnt`),
and, as long as no error is recorded, what can still exist (`Proven`). Without
the last, an answer that nothing is left would rest on the error flag alone.

`KubeProofs` proves for every set of spawns, scopes, runner configurations and
failing requests (assumption `KubeAssumption`: the files have the form parsing
gives them, every spawn's repository is listed, and the names that stand for
"any spawn" and "the internet" are nothing else's):

* `KubeTypesHold`, `SpawnsStayConfined`, `ProxyAlwaysServes`, `ChecksAgree`,
  `EnrolledStayApart`: `KubeTypeOK`, `SpawnsConfined`, `ProxyServesRunner`,
  `NothingRefused`, `EnrolledApart`;
* `KubeKeepsContract`: `KubeImplementsContract`, every spawn refines
  `BackendContract`, so a step of one spawn is a stutter of all others.

The invariant `KubeInv` has a part about the configuration, which never changes
and which the process started with, and one about each spawn: the answer its
stage allows, the objects that can exist then, and that its namespace has the
default-deny policy before the first of them. Confinement needs little more than
that policy: the lemmas show that whatever subset of a spawn's policies exists,
they only open what its own proxy needs, because each selector is pinned to the
spawn. That the layers agree, and that no later check refuses, is a
statement about the builders and validators, proved from `Configured`.

`ColdStartProofs` proves for any spawns, repositories, number of crashes and of
failing calls (assumption `ColdAssumption`: identifiers are numbers, so that they
can be sorted, and the scope lists at least one repository, as its validation
demands) `ColdTypesHold`, `ColdStartsClean`, `RecoveryDeregistersFirst` and
`RecoveryKeepsForeign`: `ColdTypeOK`, `StartsClean`, `RegistrationsFirst`,
`ForeignKept`. The invariant `ColdInv` adds to the types what a recovery has
established so far: a registration of a repository already listed is to be
deleted (`Judged`), a visible resource has been found or is a network, which are
listed last (`Accounted`), and what has been found is the scope's own
(`FoundOwn`). `StartsClean` is the end of this account: the step into "up" is
taken when the lists are empty. Of a process that has been up for a while it says
nothing, and could not: such a process may have registrations and networks that
its ledger does not know of, as the findings show.

`ComposeInv`, `KubeInv`, `ColdInv` and `DemandOK` were checked with TLC on the
instances of `compose`, `kube`, `coldstart` and `orchestrator_pool` as well.

Only model-checked: everything under fairness (`ReservationSettles`,
`ShutdownEnds`, `WaitEnds`, `SpawnSettles`, `KubeSpawnSettles`, `Recovers`),
which is out of the prover's reach. Every other property of a run without an
expected violation has its theorem.

## 5. Findings

* `NoOrphanRegistration` (`orchestrator_orphan`): the comment on `fail` says it
  is used before JIT generation, with no cleanup needed. Execute also uses it
  when GenerateJITConfig failed without a runner id, and then GitHub may have
  created the runner and lost the answer. The registration stays until a cold
  start removes it.
* `ExitIsReal` (`lifecycle_kube`): `WaitRunner` promises to watch until a
  terminal phase or the timeout. An API server that closes the watch of a running
  pod makes it return `Running`, which `WaitForExit` turns into an exit with code
  1; the worker records the end of the job and tears the pod down.
* `NothingLeft` (`compose_lost`): a network or container whose creation
  was not acknowledged is in no rollback map, and the empty handle says that
  nothing is left. `NothingLeftRunning` shows that it never runs.
* `EgressDirRemoved` (`compose_egress`): the egress directory of a spawn that
  failed in `Spawn` and rolled back is removed by nobody.

* `SnapshotFitsTag` (`runner_config`): the tag of a `runner.yml` is stored when the
  answer has been read, the snapshot afterwards and elsewhere. A worker with the
  answer for one commit is overtaken by the poller, which stores tag and snapshot
  of the next, and then stores its older snapshot. From then on GitHub answers 304
  to the newer tag and the older configuration is used, until the file changes.

Seen in the source and not in a run:

* A domain listed with a leading dot, as `skeleton/runner.yml:39` and
  `skills/using-runsecure/SKILL.md:44` show, is rendered with two dots
  (`internal/egress/squid.go:165`), which matches no name in Squid. The shell
  generator writes it as it is. `AllowedDomains` models it, and
  `ProxyServesRunner` excepts such names.
* A `tcp_egress` host that begins with a dot or a hyphen is accepted by the
  validation and left out by `RenderHAProxy` (`isHostPortSafe`) without an error:
  its port is open everywhere and nobody listens. `RenderHAProxy` models it with
  `oddHosts`, and `ProxyServesRunner` excepts such ports.
* A leftover runner that is connected and idle stops every start for as long as
  it stays so: the wall clock that would have ended it died with its process.
* The comment on `RenderDNSMasq` (`internal/egress/dnsmasq.go:11`) says host parts
  of `tcp_egress` are forwarded; the code forwards those of `http_egress` only.
* `allow_doh`, `allow_imds` and `allow_kube_api` are resolved and read by nobody.
* A process that dies leaves its spawns' egress directories for good.
* The leftover runner of a repository that was withdrawn from the scope stops
  every start; in shared mode a withdrawn project's namespace is not visited, and
  registrations of withdrawn repositories are not searched. `ColdStart` has the
  first as `Withheld`.

## 6. Not modelled

Circuit breaker, token bucket, rate-limit pause and token cache: small counters
with clocks of their own, seen by the models as a tick, repository or spawn that
is skipped, or a call that fails, at any time. The management server reads the
ledger and changes nothing. Of the GitHub client there are its outcomes, not
paging and JSON. Events are formatting, the drift reconciler has no production
caller. The backend's readiness probe precedes everything modelled. Scripts,
charts, images and the telemetry collector are data or shell.

## 7. Plan

1. Done: `State`, `Orchestrator` and `Lifecycle` with their proofs; the two
   backends against `BackendContract`, with the socket proxy, the network
   policies and the configuration around them; `ColdStart`; `RunnerConfig`.
2. Done: theorems for every invariant, action property and refinement of the runs.
3. Left: that the invariants of `BackendContract` and of `Orchestrator`'s world
   are one, so that `ResourcesCharged` is stated of either backend's objects; the
   counters with clocks; readiness as a function of a snapshot.
