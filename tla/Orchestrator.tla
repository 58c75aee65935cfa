---------------------------- MODULE Orchestrator ----------------------------
(***************************************************************************)
(* The orchestrator process: the poll goroutine (internal/orchestrator/    *)
(* poll.go), the pool of spawn workers (spawn.go, the pool in cmd/         *)
(* orchestrator/run.go) and the main goroutine's drain (shutdown.go),      *)
(* sharing the ledger of State and the channel of spawn intents.           *)
(*                                                                         *)
(* A step is one critical section of the ledger, one channel operation or  *)
(* one call to GitHub or to the backend; the goroutines interleave between *)
(* steps.  GitHub, the backend and the clock are the environment: a call   *)
(* may fail, and it may fail after it has taken effect (a lost reply).     *)
(* Demand is a number GitHub answers; timeouts may expire at any time.     *)
(* Events, texts and rendered configurations are left out.                 *)
(***************************************************************************)
EXTENDS State, Sequences

CONSTANTS
    Workers,    \* the pool: one goroutine per unit of GlobalCap
    RepoOrder,  \* the scope's repositories in configuration order
    ChanCap,    \* capacity of the intent channel
    MaxQueued,  \* bound: the most queued jobs GitHub answers for a repository
    MaxUnacked, \* bound: how many creations take effect without an answer
    NoSpawn     \* no intent

ASSUME PoolAssumption ==
    /\ IsFiniteSet(Workers) /\ Cardinality(Workers) = GlobalCap /\ GlobalCap > 0
    /\ RepoOrder \in Seq(Repos) /\ Len(RepoOrder) > 0
    /\ ChanCap \in Nat /\ MaxQueued \in Nat /\ MaxUnacked \in Nat
    /\ NoSpawn \notin SpawnIDs

VARIABLES
    poll,        \* the poll goroutine: where it is in a tick
    intents,     \* the buffered channel of <<spawn id, repository>>
    closed,      \* the channel has been closed
    worker,      \* the spawn workers: where each is in Execute
    main,        \* the main goroutine: running, or how far the drain got
    issued,      \* spawn ids handed out; bounded by SpawnIDs
    stacks,      \* spawns with containers, pods or networks a handle names
    strays,      \* spawns with something at the backend that no handle names:
                 \* its creation took effect and was never acknowledged
    runners,     \* spawns with a runner registered at GitHub, its id known
    lost         \* registrations whose creation was never acknowledged

procVars == <<poll, intents, closed, worker, main, issued>>
worldVars == <<stacks, strays, runners, lost>>
vars == <<stateVars, procVars, worldVars>>

PollPCs == {"idle", "visit", "repoAvail", "globalAvail", "coverage", "reserve",
            "send", "stopped"}
WorkerPCs == {"recv", "check", "admit", "jit", "render", "spawn", "block", "wait",
              "teardown", "deregister", "settle", "retry", "finish", "stopped"}
MainPCs == {"running", "draining", "stopping", "joining", "waiting", "forced",
            "drained", "forcedStop", "abandoned"}

\* The process lives until Run returns.
Alive == main \notin {"drained", "forcedStop", "abandoned"}
\* draining.Store(true), stopPolling() and stopWorkers() as the goroutines see them.
DrainFlag == main \in {"stopping", "joining", "waiting", "forced"}
PollCancelled == main \in {"joining", "waiting", "forced"}
WorkersCancelled == main = "forced"

-----------------------------------------------------------------------------
(* The poll goroutine: Run and tick.                                       *)

MinOf(a, b) == IF a < b THEN a ELSE b
\* Mutant: availability and uncovered demand are not clamped at zero.
Difference(a, b) == a - b
Monus(a, b) == IF a > b THEN a - b ELSE 0

\* The repository a tick is at: the order rotates by one per tick.
CurRepo == RepoOrder[((poll.next + poll.offset) % Len(RepoOrder)) + 1]

PollAt(pc) == Alive /\ poll.pc = pc
PollOnly == UNCHANGED <<stateVars, intents, closed, worker, main, issued, worldVars>>

\* On to the next repository, or to the end of the tick.
NextRepo ==
    poll' = IF poll.offset + 1 < Len(RepoOrder)
            THEN [poll EXCEPT !.pc = "visit", !.offset = @ + 1, !.queued = 0, !.left = 0]
            ELSE [poll EXCEPT !.pc = "idle", !.next = (@ + 1) % Len(RepoOrder),
                              !.offset = 0, !.queued = 0, !.left = 0]

\* A tick that finds admission blocked, or the scope paused, changes nothing.
Tick ==
    /\ PollAt("idle") /\ ~PollCancelled /\ ~SchedulingBlocked
    /\ poll' = [poll EXCEPT !.pc = "visit"]
    /\ PollOnly

\* The breaker is open, or labels or demand cannot be read.
SkipRepo ==
    /\ PollAt("visit")
    /\ NextRepo
    /\ PollOnly

EligibleQueuedJobs(n) ==
    /\ PollAt("visit")
    /\ poll' = [poll EXCEPT !.pc = "repoAvail", !.queued = n]
    /\ PollOnly

\* repoAvail, globalAvail and uncoveredDemand are three separate readings.
ReadRepoAvail ==
    /\ PollAt("repoAvail")
    /\ poll' = [poll EXCEPT !.pc = "globalAvail",
                            !.left = Monus(RepoCap[CurRepo], InFlight(CurRepo))]
    /\ PollOnly

ReadGlobalAvail ==
    /\ PollAt("globalAvail")
    /\ poll' = [poll EXCEPT !.pc = "coverage",
                            !.left = MinOf(@, Monus(GlobalCap, GlobalInFlight))]
    /\ PollOnly

ReadCoverage ==
    /\ PollAt("coverage")
    /\ poll' = [poll EXCEPT !.pc = "reserve",
                   !.left = MinOf(Monus(poll.queued, DemandCoverage(CurRepo)), @)]
    /\ PollOnly

Reserve(id) ==
    /\ PollAt("reserve") /\ poll.left > 0
    /\ id \notin issued
    /\ TryReserve(id, CurRepo)
    /\ issued' = issued \cup {id}
    /\ poll' = [poll EXCEPT !.pc = "send", !.left = @ - 1, !.id = id]
    /\ UNCHANGED <<intents, closed, worker, main, worldVars>>

\* The demand is met, TryReserve refuses, or the model has no spawn id left.
EndRepo ==
    /\ PollAt("reserve")
    /\ poll.left = 0 \/ \A id \in SpawnIDs \ issued : ~CanReserve(id, CurRepo)
    /\ NextRepo
    /\ PollOnly

Send ==
    /\ PollAt("send") /\ Len(intents) < ChanCap
    /\ intents' = Append(intents, <<poll.id, CurRepo>>)
    /\ poll' = [poll EXCEPT !.pc = "reserve", !.id = NoSpawn]
    /\ UNCHANGED <<stateVars, closed, worker, main, issued, worldVars>>

\* Mutant: a cancelled send keeps the slot.
SendCancelledKeepsSlot ==
    /\ PollAt("send") /\ PollCancelled
    /\ poll' = [poll EXCEPT !.pc = "stopped", !.id = NoSpawn]
    /\ PollOnly

\* ctx.Done() in the send's select: give the slot back and leave Run.
SendCancelled ==
    /\ PollAt("send") /\ PollCancelled
    /\ ReleaseReservation(poll.id)
    /\ poll' = [poll EXCEPT !.pc = "stopped", !.id = NoSpawn]
    /\ UNCHANGED <<intents, closed, worker, main, issued, worldVars>>

\* Mutant: a tick that is skipped does not look at the context.
PollStopUnlessBlocked ==
    /\ PollAt("idle") /\ PollCancelled
    /\ poll' = IF SchedulingBlocked THEN poll ELSE [poll EXCEPT !.pc = "stopped"]
    /\ PollOnly

PollStop ==
    /\ PollAt("idle") /\ PollCancelled
    /\ poll' = [poll EXCEPT !.pc = "stopped"]
    /\ PollOnly

PollStep ==
    \/ Tick \/ SkipRepo \/ ReadRepoAvail \/ ReadGlobalAvail \/ ReadCoverage
    \/ EndRepo \/ Send \/ SendCancelled \/ PollStop
    \/ \E n \in 0 .. MaxQueued : EligibleQueuedJobs(n)
    \/ \E id \in SpawnIDs : Reserve(id)

-----------------------------------------------------------------------------
(* A spawn worker: the loop over the channel in Run, and Execute.          *)

At(w, pc) == Alive /\ worker[w].pc = pc
Goto(w, pc) == worker' = [worker EXCEPT ![w].pc = pc]
Spawn(w) == worker[w].id
IdleWorker == [pc |-> "recv", id |-> NoSpawn, repo |-> NoSpawn,
               backendErr |-> FALSE, runnerErr |-> FALSE]

Receive(w) ==
    /\ At(w, "recv") /\ intents # <<>>
    /\ worker' = [worker EXCEPT ![w] =
                     [pc |-> "check", id |-> Head(intents)[1], repo |-> Head(intents)[2],
                      backendErr |-> FALSE, runnerErr |-> FALSE]]
    /\ intents' = Tail(intents)
    /\ UNCHANGED <<stateVars, poll, closed, main, issued, worldVars>>

WorkerExit(w) ==
    /\ At(w, "recv") /\ intents = <<>> /\ closed
    /\ Goto(w, "stopped")
    /\ UNCHANGED <<stateVars, poll, intents, closed, main, issued, worldVars>>

WorkerOnly == UNCHANGED <<poll, intents, closed, main, issued>>

\* Mutant: discarded work keeps its slot.
DiscardKeepsSlot(w) ==
    /\ At(w, "check") /\ DrainFlag
    /\ worker' = [worker EXCEPT ![w] = IdleWorker]
    /\ WorkerOnly /\ UNCHANGED <<stateVars, worldVars>>

\* Shutdown discards work that has not begun.
Discard(w) ==
    /\ At(w, "check") /\ DrainFlag
    /\ ReleaseReservation(Spawn(w))
    /\ worker' = [worker EXCEPT ![w] = IdleWorker]
    /\ WorkerOnly /\ UNCHANGED worldVars

Begin(w) ==
    /\ At(w, "check") /\ ~DrainFlag
    /\ Goto(w, "admit")
    /\ WorkerOnly /\ UNCHANGED <<stateVars, worldVars>>

\* Execute finds admission blocked, the token bucket empty, or the
\* repository's runner.yml unusable.
Refuse(w) ==
    /\ At(w, "admit")
    /\ Goto(w, "finish")
    /\ WorkerOnly /\ UNCHANGED <<stateVars, worldVars>>

Proceed(w) ==
    /\ At(w, "admit") /\ ~SchedulingBlocked
    /\ Goto(w, "jit")
    /\ WorkerOnly /\ UNCHANGED <<stateVars, worldVars>>

\* GenerateJITConfig answers with a runner: usable, or one to be deleted again
\* because the answer fails validation.
AcquireJIT(w) ==
    /\ At(w, "jit")
    /\ runners' = runners \cup {Spawn(w)}
    /\ RecordJIT(Spawn(w))
    /\ \E pc \in {"render", "deregister"} : Goto(w, pc)
    /\ WorkerOnly /\ UNCHANGED <<stacks, strays, lost>>

\* A creation takes effect and its answer is lost.
Unacked == Cardinality(strays) + Cardinality(lost) < MaxUnacked

\* GenerateJITConfig fails without an identity: nothing was created, or the
\* answer that would have named the new runner never came.
FailJIT(w) ==
    /\ At(w, "jit")
    /\ \/ UNCHANGED <<runners, lost>>
       \/ Unacked /\ lost' = lost \cup {Spawn(w)} /\ UNCHANGED runners
    /\ Goto(w, "finish")
    /\ WorkerOnly /\ UNCHANGED <<stateVars, stacks, strays>>

\* The per-spawn egress configuration is rendered, or cannot be.
Render(w) ==
    /\ At(w, "render")
    /\ \E pc \in {"spawn", "deregister"} : Goto(w, pc)
    /\ WorkerOnly /\ UNCHANGED <<stateVars, worldVars>>

\* A failed Backend.Spawn may leave what its rollback has no identifier of.
MayStray(w) == UNCHANGED strays \/ (Unacked /\ strays' = strays \cup {Spawn(w)})

\* Backend.Spawn starts the stack; or fails and rolls back all it can name; or
\* fails and answers a handle because the rollback is not proven complete.
BackendSpawn(w) ==
    /\ At(w, "spawn")
    /\ \/ stacks' = stacks \cup {Spawn(w)} /\ Goto(w, "wait") /\ UNCHANGED strays
       \/ UNCHANGED stacks /\ Goto(w, "deregister") /\ MayStray(w)
       \/ stacks' = stacks \cup {Spawn(w)} /\ Goto(w, "block") /\ MayStray(w)
    /\ WorkerOnly /\ UNCHANGED <<stateVars, runners, lost>>

\* settlePartialSpawn blocks admission before its first retry.
BlockPartialSpawn(w) ==
    /\ At(w, "block")
    /\ MarkTeardownBlocked(Spawn(w), worker[w].repo)
    /\ Goto(w, "teardown")
    /\ WorkerOnly /\ UNCHANGED worldVars

\* waitForLifecycle: observations of the runner while its process runs.
ObserveOnline(w) ==
    /\ At(w, "wait")
    /\ MarkOnline(Spawn(w))
    /\ WorkerOnly /\ UNCHANGED <<worker, worldVars>>

ObserveAssigned(w) ==
    /\ At(w, "wait") /\ reservations[Spawn(w)].phase = "online"
    /\ MarkAssigned(Spawn(w))
    /\ WorkerOnly /\ UNCHANGED <<worker, worldVars>>

\* The runner's process exits, a delivery deadline or the wall clock expires, an
\* observation is refused, or the worker is cancelled: teardown follows anyhow.
LifecycleEnds(w) ==
    /\ At(w, "wait")
    /\ Goto(w, "teardown")
    /\ WorkerOnly /\ UNCHANGED <<stateVars, worldVars>>

\* One Backend.Teardown call, one DeleteRunner call.  A call that reports an
\* error may have removed what it was asked to.
TeardownOK(w) == stacks' = stacks \ {Spawn(w)}
TeardownFailed(w) == stacks' \in {stacks, stacks \ {Spawn(w)}}
DeregisterOK(w) == runners' = runners \ {Spawn(w)}
DeregisterFailed(w) == runners' \in {runners, runners \ {Spawn(w)}}

Teardown(w) ==
    /\ At(w, "teardown")
    /\ \/ /\ TeardownOK(w)
          /\ Goto(w, "deregister")
       \/ /\ TeardownFailed(w)
          /\ worker' = [worker EXCEPT ![w].pc = "deregister", ![w].backendErr = TRUE]
    /\ WorkerOnly /\ UNCHANGED <<stateVars, strays, runners, lost>>

Deregister(w) ==
    /\ At(w, "deregister")
    /\ \/ /\ DeregisterOK(w)
          /\ Goto(w, "settle")
       \/ /\ DeregisterFailed(w)
          /\ worker' = [worker EXCEPT ![w].pc = "settle", ![w].runnerErr = TRUE]
    /\ WorkerOnly /\ UNCHANGED <<stateVars, stacks, strays, lost>>

\* Mutant: a registration that could not be deleted is not a debt.
OwedBackendOnly(w) == worker[w].backendErr

Owed(w) == worker[w].backendErr \/ worker[w].runnerErr
IsDebt(w) == reservations[Spawn(w)].phase = "teardown_blocked"

\* settleCleanup, and the rest of settlePartialSpawn, whose reservation is debt
\* already: a failed cleanup becomes debt before the first retry.
Settle(w) ==
    /\ At(w, "settle")
    /\ \/ ~Owed(w) /\ ~IsDebt(w) /\ Goto(w, "finish") /\ UNCHANGED stateVars
       \/ Owed(w) /\ ~IsDebt(w) /\ MarkTeardownBlocked(Spawn(w), worker[w].repo)
            /\ Goto(w, "retry")
       \/ IsDebt(w) /\ Goto(w, "retry") /\ UNCHANGED stateVars
    /\ WorkerOnly /\ UNCHANGED worldVars

\* retryBackendTeardown: cancellation is only noticed after a failed attempt.
RetryTeardownOK(w) ==
    /\ At(w, "retry") /\ worker[w].backendErr
    /\ TeardownOK(w)
    /\ worker' = [worker EXCEPT ![w].backendErr = FALSE]
    /\ WorkerOnly /\ UNCHANGED <<stateVars, strays, runners, lost>>

RetryTeardownFailed(w) ==
    /\ At(w, "retry") /\ worker[w].backendErr
    /\ TeardownFailed(w)
    /\ \/ UNCHANGED worker
       \/ WorkersCancelled /\ Goto(w, "finish")
    /\ WorkerOnly /\ UNCHANGED <<stateVars, strays, runners, lost>>

\* retryRunnerDeletion comes after the backend; it also waits before the first
\* attempt when GitHub refused for authorisation or rate, and can be cancelled there.
RetryDeletionOK(w) ==
    /\ At(w, "retry") /\ ~worker[w].backendErr /\ worker[w].runnerErr
    /\ DeregisterOK(w)
    /\ worker' = [worker EXCEPT ![w].runnerErr = FALSE]
    /\ WorkerOnly /\ UNCHANGED <<stateVars, stacks, strays, lost>>

RetryDeletionFailed(w) ==
    /\ At(w, "retry") /\ ~worker[w].backendErr /\ worker[w].runnerErr
    /\ \/ DeregisterFailed(w) /\ UNCHANGED worker
       \/ WorkersCancelled /\ Goto(w, "finish") /\ UNCHANGED runners
    /\ WorkerOnly /\ UNCHANGED <<stateVars, stacks, strays, lost>>

Resolve(w) ==
    /\ At(w, "retry") /\ ~Owed(w)
    /\ ResolveTeardown(Spawn(w))
    /\ Goto(w, "finish")
    /\ WorkerOnly /\ UNCHANGED worldVars

\* Mutants: the deferred release is missing; it bypasses the ledger's counters.
FinishKeepsSlot(w) ==
    /\ At(w, "finish")
    /\ worker' = [worker EXCEPT ![w] = IdleWorker]
    /\ WorkerOnly /\ UNCHANGED <<stateVars, worldVars>>
FinishDeletesEntry(w) ==
    /\ At(w, "finish")
    /\ reservations' = [i \in DOMAIN reservations \ {Spawn(w)} |-> reservations[i]]
    /\ worker' = [worker EXCEPT ![w] = IdleWorker]
    /\ WorkerOnly /\ UNCHANGED <<perRepo, draining, teardownBlocked, totals, worldVars>>

\* Execute returns: the deferred ReleaseReservation, which leaves debt alone.
Finish(w) ==
    /\ At(w, "finish")
    /\ \/ ReleaseReservation(Spawn(w))
       \/ /\ Spawn(w) \in DOMAIN reservations => IsDebt(w)
          /\ UNCHANGED stateVars
    /\ worker' = [worker EXCEPT ![w] = IdleWorker]
    /\ WorkerOnly /\ UNCHANGED worldVars

WorkerStep(w) ==
    \/ Receive(w) \/ WorkerExit(w) \/ Discard(w) \/ Begin(w) \/ Refuse(w) \/ Proceed(w)
    \/ AcquireJIT(w) \/ FailJIT(w) \/ Render(w) \/ BackendSpawn(w) \/ BlockPartialSpawn(w)
    \/ ObserveOnline(w) \/ ObserveAssigned(w) \/ LifecycleEnds(w)
    \/ Teardown(w) \/ Deregister(w) \/ Settle(w)
    \/ RetryTeardownOK(w) \/ RetryTeardownFailed(w)
    \/ RetryDeletionOK(w) \/ RetryDeletionFailed(w) \/ Resolve(w) \/ Finish(w)

-----------------------------------------------------------------------------
(* The main goroutine: the wait in Run, then drainAndStop.                 *)

MainOnly == UNCHANGED <<poll, intents, worker, issued, worldVars>>
AllWorkersStopped == \A w \in Workers : worker[w].pc = "stopped"

Signal ==
    /\ main = "running" /\ main' = "draining"
    /\ SetDraining
    /\ MainOnly /\ UNCHANGED closed

\* The management server stops by itself: Run returns without a drain.
ServerStopped ==
    /\ main = "running" /\ main' = "abandoned"
    /\ MainOnly /\ UNCHANGED <<stateVars, closed>>

StoreDraining ==
    /\ main = "draining" /\ main' = "stopping"
    /\ MainOnly /\ UNCHANGED <<stateVars, closed>>

StopPolling ==
    /\ main = "stopping" /\ main' = "joining"
    /\ MainOnly /\ UNCHANGED <<stateVars, closed>>

\* Mutant: the channel is closed without joining its sender.
CloseWithoutJoin ==
    /\ main = "joining" /\ main' = "waiting"
    /\ closed' = TRUE
    /\ MainOnly /\ UNCHANGED stateVars

JoinAndClose ==
    /\ main = "joining" /\ poll.pc = "stopped" /\ main' = "waiting"
    /\ closed' = TRUE
    /\ MainOnly /\ UNCHANGED stateVars

WorkersDone ==
    /\ AllWorkersStopped
    /\ \/ main = "waiting" /\ main' = "drained"
       \/ main = "forced" /\ main' = "forcedStop"
    /\ MainOnly /\ UNCHANGED <<stateVars, closed>>

DrainDeadline ==
    /\ main = "waiting" /\ main' = "forced"
    /\ MainOnly /\ UNCHANGED <<stateVars, closed>>

GraceElapsed ==
    /\ main = "forced" /\ main' = "abandoned"
    /\ MainOnly /\ UNCHANGED <<stateVars, closed>>

Drain ==
    \/ StoreDraining \/ StopPolling \/ JoinAndClose \/ WorkersDone
    \/ DrainDeadline \/ GraceElapsed

Exited == ~Alive /\ UNCHANGED vars

-----------------------------------------------------------------------------
Init ==
    /\ StateInit
    /\ poll = [pc |-> "idle", next |-> 0, offset |-> 0, queued |-> 0, left |-> 0,
               id |-> NoSpawn]
    /\ intents = <<>>
    /\ closed = FALSE
    /\ worker = [w \in Workers |-> IdleWorker]
    /\ main = "running"
    /\ issued = {} /\ stacks = {} /\ strays = {} /\ runners = {} /\ lost = {}

Next ==
    \/ PollStep
    \/ \E w \in Workers : WorkerStep(w)
    \/ Signal \/ ServerStopped \/ Drain
    \/ Exited

Spec == Init /\ [][Next]_vars

\* Goroutines that can run do run; the clock's deadlines expire; a backend or
\* GitHub that keeps being asked to remove something in the end removes it.
Fairness ==
    /\ WF_vars(PollStep)
    /\ WF_vars(Drain)
    /\ \A w \in Workers : /\ WF_vars(WorkerStep(w))
                          /\ SF_vars(RetryTeardownOK(w))
                          /\ SF_vars(RetryDeletionOK(w))

FairSpec == Spec /\ Fairness

-----------------------------------------------------------------------------
(* What makes the process correct.                                         *)

WorkerState == [pc : WorkerPCs, id : SpawnIDs \cup {NoSpawn},
                repo : Repos \cup {NoSpawn}, backendErr : BOOLEAN, runnerErr : BOOLEAN]

ProcTypeOK ==
    /\ TypeOK
    /\ poll \in [pc : PollPCs, next : Nat, offset : Nat, queued : Nat, left : Nat,
                 id : SpawnIDs \cup {NoSpawn}]
    /\ intents \in Seq(SpawnIDs \X Repos)
    /\ closed \in BOOLEAN
    /\ worker \in [Workers -> WorkerState]
    /\ main \in MainPCs
    /\ {issued, stacks, strays, runners, lost} \subseteq SUBSET SpawnIDs

\* The process uses the ledger only through its operations, one per step, so
\* what is proved of State under any caller holds of the process.
UsesLedger == StateSpec

\* How many goroutines or channel slots hold a spawn.
Holders(id) ==
    (IF poll.pc = "send" /\ poll.id = id THEN 1 ELSE 0)
    + Cardinality({i \in DOMAIN intents : intents[i][1] = id})
    + Cardinality({w \in Workers : worker[w].id = id})

\* Every reservation is in exactly one pair of hands, the poller's, the channel's
\* or a worker's, so it is released once and never forgotten; only debt whose
\* retry a forced stop interrupted has none.  And whoever holds a spawn holds its
\* reservation: Execute's defensive TryReserve never has to act.
ReservationOwned ==
    /\ \A id \in DOMAIN reservations :
          \/ Holders(id) = 1
          \/ /\ Holders(id) = 0
             /\ id \in Debt /\ main \in {"forced", "forcedStop", "abandoned"}
    /\ \A i \in DOMAIN intents : HasReservation(intents[i][1], intents[i][2])
    /\ \A w \in Workers : worker[w].pc \notin {"recv", "finish", "stopped"} =>
                              HasReservation(worker[w].id, worker[w].repo)

\* Whatever a handle names at the backend, and every runner whose identity the
\* process was given, is still charged to its reservation: failed spawns, failed
\* cleanups and forced stops never free capacity that is in use.  Not included is
\* what the process has no identifier of: a registration or a network whose
\* creation was never acknowledged.  Its slot is given back (NoOrphanRegistration;
\* NothingLeft in ComposeBackend) and it stays until the next cold start.
ResourcesCharged == stacks \cup runners \subseteq DOMAIN reservations

\* So the runners of a repository, and of the scope, stay within the caps.  What
\* was never acknowledged is no runner: no configuration arrived to run one with,
\* or the container was never started (NothingLeftRunning in ComposeBackend).
LiveWithinCaps ==
    /\ \A r \in Repos : Cardinality((stacks \cup runners) \cap Of(r)) <= RepoCap[r]
    /\ Cardinality(stacks \cup runners) <= GlobalCap

\* The poller never waits behind a running spawn: when it sends an intent there
\* are workers free of any reservation for it and for every intent before it.
SendFindsWorker ==
    poll.pc = "send" =>
        Len(intents) < Cardinality({w \in Workers : Spawn(w) \notin DOMAIN reservations})

\* The channel is closed only after its sole sender has left: no send panics.
NoSendOnClosed == closed => poll.pc = "stopped"

\* A tick never promises a repository more runners than GitHub reported queued
\* jobs, although runners register and take jobs while the tick counts.
Covering(repo) == InPhase(repo, "pending") \cup InPhase(repo, "online")
CoverageWithinDemand ==
    /\ poll.pc = "reserve" /\ poll.left > 0 =>
          Cardinality(Covering(CurRepo)) + poll.left <= poll.queued
    /\ poll.pc = "send" => Cardinality(Covering(CurRepo)) <= poll.queued

\* A drain that ends in time leaves no intent, no reservation and nothing that
\* the process has an identifier of; a forced stop leaves of these only what is
\* recorded as debt.  Either may leave what was never acknowledged, the strays
\* and the lost registrations, to the next cold start.
DrainLeavesOnlyDebt ==
    main \in {"drained", "forcedStop"} =>
        /\ intents = <<>>
        /\ DOMAIN reservations = Debt
        /\ stacks \cup runners \subseteq Debt
        /\ main = "drained" => Debt = {}

\* Every reservation is given back in the end, debt included, unless the
\* process ends first.
ReservationSettles ==
    \A id \in SpawnIDs :
        id \in DOMAIN reservations ~> (id \notin DOMAIN reservations \/ ~Alive)

\* Once a signal has started the drain, the process ends.
ShutdownEnds == draining ~> ~Alive

\* fail() is documented as needing no cleanup because no runner exists yet; so
\* every registered runner would belong to a reservation.
NoOrphanRegistration == runners \cup lost \subseteq DOMAIN reservations

=============================================================================
