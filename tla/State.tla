------------------------------- MODULE State -------------------------------
(***************************************************************************)
(* The capacity ledger of the orchestrator: internal/state/state.go.       *)
(*                                                                         *)
(* Every method of State runs under one mutex, so every method is one      *)
(* atomic action.  The ledger keeps the same facts twice: the map of       *)
(* reservations, one entry per admitted spawn with its lifecycle phase,    *)
(* and the counters per repository that admission, demand coverage and the *)
(* readiness endpoint read.  It also caches "some teardown is unresolved"  *)
(* in a flag.  What can go wrong is that the copies drift apart.           *)
(*                                                                         *)
(* Timestamps, names, error texts and the counters that are only displayed *)
(* (assignments, completions, poll results) are left out; the recorded JIT *)
(* identity is reduced to whether it is known.                             *)
(***************************************************************************)
EXTENDS Naturals, FiniteSets

CONSTANTS
    Repos,      \* the repositories of the scope (State.Configure)
    SpawnIDs,   \* the spawn identifiers NewSpawnID may hand out
    RepoCap,    \* max_concurrent of each repository
    GlobalCap   \* global_max_runners of the scope

ASSUME CapAssumption == RepoCap \in [Repos -> Nat] /\ GlobalCap \in Nat

VARIABLES
    reservations,     \* spawn id -> [repo, phase, jit], partial: a Go map
    perRepo,          \* repository -> counters
    draining,         \* shutdown has begun
    teardownBlocked,  \* cached: some reservation is in phase teardown_blocked
    totals            \* the teardown counters shown by /metrics

stateVars == <<reservations, perRepo, draining, teardownBlocked, totals>>

Phases == {"pending", "online", "assigned", "teardown_blocked"}
SpawnState == [repo : Repos, phase : Phases, jit : BOOLEAN]
Counters == {"InFlight", "pending", "online", "assigned", "teardown_blocked"}
Totals == {"teardownFailures", "teardownReconciled"}

-----------------------------------------------------------------------------
(* Readers.                                                                *)

HasReservation(id, repo) ==
    id \in DOMAIN reservations /\ reservations[id].repo = repo

InFlight(repo) == perRepo[repo]["InFlight"]

\* Mutant: an online runner is taken to have its job already.
CoverageForgetsOnline(repo) == perRepo[repo]["pending"]

\* Pending and online-but-unassigned runners cover jobs still queued.
DemandCoverage(repo) == perRepo[repo]["pending"] + perRepo[repo]["online"]

\* The capacity units in use, one per repository and count; their number is the
\* sum of InFlight over the repositories.
UnitsOf(counts) ==
    UNION {{r} \X (1 .. counts[r]["InFlight"]) : r \in Repos}

GlobalInFlight == Cardinality(UnitsOf(perRepo))

\* Mutant: only shutdown stops admission.
BlockedByDrainOnly == draining

SchedulingBlocked == draining \/ teardownBlocked

-----------------------------------------------------------------------------
(* Bookkeeping helpers, under the lock.                                    *)

Bump(t) == totals' = [totals EXCEPT ![t] = @ + 1]

\* The code never lets a counter go below zero.
Dec(n) == IF n > 0 THEN n - 1 ELSE 0

\* Mutant: the unit of capacity is not counted.
ChargeUncounted(id, repo, p) ==
    /\ perRepo' = [perRepo EXCEPT ![repo][p] = @ + 1]
    /\ reservations' = [i \in DOMAIN reservations \cup {id} |->
                           IF i = id THEN [repo |-> repo, phase |-> p, jit |-> FALSE]
                                     ELSE reservations[i]]

\* A new reservation: one unit of capacity and one unit of its phase.
Charge(id, repo, p) ==
    /\ perRepo' = [perRepo EXCEPT ![repo]["InFlight"] = @ + 1, ![repo][p] = @ + 1]
    /\ reservations' = [i \in DOMAIN reservations \cup {id} |->
                           IF i = id THEN [repo |-> repo, phase |-> p, jit |-> FALSE]
                                     ELSE reservations[i]]

\* Mutant: the unit of the old phase stays behind.
MoveLeavesUnit(id, q) ==
    LET s == reservations[id]
    IN  /\ perRepo' = [perRepo EXCEPT ![s.repo][q] = @ + 1]
        /\ reservations' = [reservations EXCEPT ![id].phase = q]

\* A reservation changes phase and takes its unit along.
MovePhase(id, q) ==
    LET s == reservations[id]
    IN  /\ perRepo' = [perRepo EXCEPT ![s.repo][s.phase] = Dec(@), ![s.repo][q] = @ + 1]
        /\ reservations' = [reservations EXCEPT ![id].phase = q]

\* Mutant: the phase of every released reservation is taken to be pending.
ReleaseAsPending(id) ==
    LET s == reservations[id]
    IN  /\ perRepo' = [perRepo EXCEPT ![s.repo]["InFlight"] = @ - 1,
                                      ![s.repo]["pending"] = @ - 1]
        /\ reservations' = [i \in DOMAIN reservations \ {id} |-> reservations[i]]

releaseReservationLocked(id) ==
    LET s == reservations[id]
    IN  /\ perRepo' = [perRepo EXCEPT ![s.repo]["InFlight"] = Dec(@),
                                      ![s.repo][s.phase] = Dec(@)]
        /\ reservations' = [i \in DOMAIN reservations \ {id} |-> reservations[i]]

-----------------------------------------------------------------------------
(* Operations.  A method that returns early without a change is a disabled *)
(* action here; callers that branch on its result test its guard.          *)

\* Mutant: the caps are compared off by one.
ReserveAtCap(id, repo) ==
    /\ ~SchedulingBlocked
    /\ id \notin DOMAIN reservations
    /\ InFlight(repo) <= RepoCap[repo]
    /\ GlobalInFlight <= GlobalCap

\* TryReserve's answer is TRUE for an id already reserved for the same
\* repository (no change), or when this guard lets it consume capacity.
CanReserve(id, repo) ==
    /\ ~SchedulingBlocked
    /\ id \notin DOMAIN reservations
    /\ InFlight(repo) < RepoCap[repo]
    /\ GlobalInFlight < GlobalCap

TryReserve(id, repo) ==
    /\ CanReserve(id, repo)
    /\ Charge(id, repo, "pending")
    /\ UNCHANGED <<draining, teardownBlocked, totals>>

RecordJIT(id) ==
    /\ id \in DOMAIN reservations
    /\ reservations' = [reservations EXCEPT ![id].jit = TRUE]
    /\ UNCHANGED <<perRepo, draining, teardownBlocked, totals>>

MarkOnline(id) ==
    /\ id \in DOMAIN reservations
    /\ reservations[id].phase = "pending"
    /\ MovePhase(id, "online")
    /\ UNCHANGED <<draining, teardownBlocked, totals>>

MarkAssigned(id) ==
    /\ id \in DOMAIN reservations
    /\ reservations[id].phase \in {"pending", "online"}
    /\ MovePhase(id, "assigned")
    /\ UNCHANGED <<draining, teardownBlocked, totals>>

\* A reservation that exists becomes capacity debt; an unknown spawn is adopted
\* as debt, over and above the caps.  Repeating the call changes nothing.
MarkTeardownBlocked(id, repo) ==
    /\ \/ id \notin DOMAIN reservations /\ Charge(id, repo, "teardown_blocked")
       \/ /\ id \in DOMAIN reservations
          /\ reservations[id].phase # "teardown_blocked"
          /\ MovePhase(id, "teardown_blocked")
    /\ teardownBlocked' = TRUE
    /\ Bump("teardownFailures")
    /\ UNCHANGED draining

\* Mutant: settling one debt lifts the barrier for all.
ResolveUnblocksAll(id) ==
    /\ id \in DOMAIN reservations
    /\ reservations[id].phase = "teardown_blocked"
    /\ releaseReservationLocked(id)
    /\ Bump("teardownReconciled")
    /\ teardownBlocked' = FALSE
    /\ UNCHANGED draining

ResolveTeardown(id) ==
    /\ id \in DOMAIN reservations
    /\ reservations[id].phase = "teardown_blocked"
    /\ releaseReservationLocked(id)
    /\ Bump("teardownReconciled")
    /\ teardownBlocked' =
          \E i \in DOMAIN reservations \ {id} :
              reservations[i].phase = "teardown_blocked"
    /\ UNCHANGED draining

\* Mutant: the deferred release gives debt back too.
ReleaseForgivesDebt(id) ==
    /\ id \in DOMAIN reservations
    /\ releaseReservationLocked(id)
    /\ UNCHANGED <<draining, teardownBlocked, totals>>

\* Debt is not released here: that takes ResolveTeardown.
ReleaseReservation(id) ==
    /\ id \in DOMAIN reservations
    /\ reservations[id].phase # "teardown_blocked"
    /\ releaseReservationLocked(id)
    /\ UNCHANGED <<draining, teardownBlocked, totals>>

SetDraining ==
    /\ draining' = TRUE
    /\ UNCHANGED <<reservations, perRepo, teardownBlocked, totals>>

-----------------------------------------------------------------------------
StateInit ==
    /\ reservations = [i \in {} |-> [repo |-> i, phase |-> "pending", jit |-> FALSE]]
    /\ perRepo = [r \in Repos |-> [c \in Counters |-> 0]]
    /\ draining = FALSE
    /\ teardownBlocked = FALSE
    /\ totals = [t \in Totals |-> 0]

\* One call of any caller: poll loop, workers and main share the ledger.
Operation(id, repo) ==
    \/ TryReserve(id, repo)
    \/ RecordJIT(id)
    \/ MarkOnline(id)
    \/ MarkAssigned(id)
    \/ MarkTeardownBlocked(id, repo)
    \/ ResolveTeardown(id)
    \/ ReleaseReservation(id)

StateNext ==
    \/ \E id \in SpawnIDs, repo \in Repos : Operation(id, repo)
    \/ SetDraining

StateSpec == StateInit /\ [][StateNext]_stateVars

-----------------------------------------------------------------------------
(* What the ledger promises, for any order of calls by any caller.         *)

\* The variables have their types; the reservation map stays finite.
TypeOK ==
    /\ DOMAIN reservations \subseteq SpawnIDs
    /\ IsFiniteSet(DOMAIN reservations)
    /\ reservations \in [DOMAIN reservations -> SpawnState]
    /\ perRepo \in [Repos -> [Counters -> Nat]]
    /\ draining \in BOOLEAN
    /\ teardownBlocked \in BOOLEAN
    /\ totals \in [Totals -> Nat]

Of(repo) == {id \in DOMAIN reservations : reservations[id].repo = repo}
InPhase(repo, p) == {id \in Of(repo) : reservations[id].phase = p}
Debt == {id \in DOMAIN reservations : reservations[id].phase = "teardown_blocked"}
Active == DOMAIN reservations \ Debt

\* The counters that admission, coverage and /readyz read never drift from the
\* reservation map, whatever the order of phase changes, repeated teardown
\* failures and releases: the clamps at zero in releaseReservationLocked never
\* hide a double release.
LedgerExact ==
    /\ \A r \in Repos : /\ perRepo[r]["InFlight"] = Cardinality(Of(r))
                        /\ \A p \in Phases : perRepo[r][p] = Cardinality(InPhase(r, p))
    /\ GlobalInFlight = Cardinality(DOMAIN reservations)

\* The cached admission barrier is raised exactly while debt remains, and the
\* two totals of /metrics differ by the debt outstanding: a repeated failure of
\* one teardown is not counted twice (MarkTeardownBlocked, ResolveTeardown).
DebtExact ==
    /\ teardownBlocked <=> Debt # {}
    /\ totals["teardownFailures"] = totals["teardownReconciled"] + Cardinality(Debt)

\* Spawns that may still run never exceed a repository's or the scope's cap,
\* counted in the map itself and not by the counters TryReserve compares.
AdmittedWithinCaps ==
    /\ \A r \in Repos : Cardinality(Of(r) \cap Active) <= RepoCap[r]
    /\ Cardinality(Active) <= GlobalCap

FrozenStep ==
    Debt # {} => \A id \in DOMAIN reservations' \ DOMAIN reservations :
                     reservations'[id].phase = "teardown_blocked"

\* While some reservation is debt, no step admits a spawn: a reservation that
\* appears is itself debt (the barrier TryReserve tests is never stale).
DebtFreezesAdmission == [][FrozenStep]_stateVars

\* The ledger with its redundant counters behaves as the abstract one, which
\* only knows who holds a slot and who owes one.
Abstract == INSTANCE CapacityLedger WITH
    slot <- [id \in DOMAIN reservations |->
                [repo |-> reservations[id].repo,
                 is |-> IF id \in Debt THEN "owed" ELSE "held"]],
    closed <- draining

ImplementsCapacityLedger == Abstract!Spec

=============================================================================
