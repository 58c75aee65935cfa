------------------------- MODULE OrchestratorProofs -------------------------
(***************************************************************************)
(* The process uses the ledger as State says, and what exists in the world *)
(* is charged, for every scope, pool, channel and set of spawns.           *)
(*                                                                         *)
(* A spawn is in one pair of hands at a time and a step changes what the   *)
(* ledger and the world hold of at most one spawn, the one in the hands of *)
(* the goroutine that takes it.  So every step leaves the invariant of all *)
(* other hands alone, which is one lemma (Untouched), and each action has  *)
(* only its own spawn left to speak of.                                    *)
(***************************************************************************)
EXTENDS Orchestrator, StateProofs

-----------------------------------------------------------------------------
(* The inductive invariant.                                                *)

ForcedMain == main \in {"forced", "forcedStop", "abandoned"}
InDebt(id) == reservations[id].phase = "teardown_blocked"

PollState == [pc : PollPCs, next : Nat, offset : Nat, queued : Nat, left : Nat,
              id : SpawnIDs \cup {NoSpawn}]

\* The types that State's TypeOK leaves open; a spawn is in the poller's hands
\* only while it sends.
ProcTyped ==
    /\ poll \in PollState
    /\ poll.pc # "send" => poll.id = NoSpawn
    /\ intents \in Seq(SpawnIDs \X Repos)
    /\ closed \in BOOLEAN
    /\ worker \in [Workers -> WorkerState]
    /\ main \in MainPCs
    /\ issued \subseteq SpawnIDs
    /\ lost \cup strays \subseteq SpawnIDs

\* A spawn that waits in the poller's, the channel's or a worker's hands: it has
\* its reservation and nothing exists for it.
Fresh(id, repo) ==
    /\ id \in SpawnIDs /\ repo \in Repos
    /\ HasReservation(id, repo) /\ ~InDebt(id)
    /\ id \notin stacks \cup runners

\* What a worker knows at each point of Execute: a cleanup that has not been
\* reported done is recorded in its flags, and before it forgets a spawn either
\* nothing exists for it or it is debt.
WorkerOK(w) ==
    LET s == worker[w]
    IN  /\ s.pc \in {"recv", "stopped"} => s.id = NoSpawn
        /\ s.pc \in {"check", "admit", "jit"} => Fresh(s.id, s.repo)
        /\ s.pc \notin {"recv", "stopped"} => s.id \in SpawnIDs /\ s.repo \in Repos
        /\ s.pc \notin {"recv", "finish", "stopped"} => HasReservation(s.id, s.repo)
        /\ s.pc \in {"render", "spawn"} => s.id \notin stacks
        /\ s.pc \in {"deregister", "settle", "retry"} /\ s.id \in stacks => s.backendErr
        /\ s.pc \in {"settle", "retry"} /\ s.id \in runners => s.runnerErr
        /\ s.pc = "retry" => InDebt(s.id)
        /\ s.pc = "finish" /\ s.id \in DOMAIN reservations =>
              IF InDebt(s.id) THEN ForcedMain ELSE s.id \notin stacks \cup runners

\* No spawn is in two pairs of hands.
Exclusive ==
    /\ \A i, j \in DOMAIN intents : i # j => intents[i][1] # intents[j][1]
    /\ \A i \in DOMAIN intents : poll.id # intents[i][1]
    /\ \A w \in Workers : /\ Spawn(w) = NoSpawn \/ Spawn(w) # poll.id
                          /\ \A i \in DOMAIN intents : Spawn(w) # intents[i][1]
                          /\ \A v \in Workers \ {w} :
                                Spawn(w) = NoSpawn \/ Spawn(v) # Spawn(w)

\* Every reservation is in somebody's hands, or is debt left by a forced stop.
Held ==
    \A id \in DOMAIN reservations :
        \/ poll.id = id
        \/ \E i \in DOMAIN intents : intents[i][1] = id
        \/ \E w \in Workers : Spawn(w) = id
        \/ InDebt(id) /\ ForcedMain

\* A spawn in hand has been issued, so that Reserve's choice is in nobody's hands.
HandsIssued ==
    /\ DOMAIN reservations \subseteq issued
    /\ poll.pc = "send" => poll.id \in issued
    /\ \A i \in DOMAIN intents : intents[i][1] \in issued
    /\ \A w \in Workers : Spawn(w) \in issued \cup {NoSpawn}

HandsOK ==
    /\ poll.pc = "send" => Fresh(poll.id, CurRepo)
    /\ \A i \in DOMAIN intents : Fresh(intents[i][1], intents[i][2])
    /\ \A w \in Workers : WorkerOK(w)

\* How far the drain has got.
DrainOK ==
    /\ closed => poll.pc = "stopped"
    /\ main \in {"drained", "forcedStop"} => AllWorkersStopped
    /\ \A w \in Workers : worker[w].pc = "stopped" => closed /\ intents = <<>>

\* Debt in the process was admitted: unlike in State, it stays within the caps.
AllWithinCaps ==
    /\ \A r \in Repos : Cardinality(Of(r)) <= RepoCap[r]
    /\ Cardinality(DOMAIN reservations) <= GlobalCap

ProcInv ==
    /\ IInv
    /\ ProcTyped /\ HandsOK /\ Exclusive /\ Held /\ HandsIssued /\ DrainOK
    /\ ResourcesCharged /\ AllWithinCaps

-----------------------------------------------------------------------------
(* What a step does to the map and to the world.                           *)

\* Of every spawn but id the ledger and the world keep what they had.
Keeps(id) ==
    \A i : i # id => /\ i \in DOMAIN reservations' <=> i \in DOMAIN reservations
                     /\ i \in DOMAIN reservations => reservations'[i] = reservations[i]
Touches(id) ==
    /\ Keeps(id)
    /\ \A i : i # id => /\ i \in stacks' <=> i \in stacks
                        /\ i \in runners' <=> i \in runners

\* Nothing is admitted: no step but Reserve adds to the map.
NoGain ==
    \A i \in DOMAIN reservations' :
        i \in DOMAIN reservations /\ reservations'[i].repo = reservations[i].repo

\* The repository of a tick is one of the scope.
LEMMA CurRepoOK ==
    ASSUME poll.next \in Nat, poll.offset \in Nat
    PROVE  CurRepo \in Repos
<1> DEFINE n == Len(RepoOrder)
<1>1. n \in Nat /\ n > 0 /\ RepoOrder \in Seq(Repos)
  BY PoolAssumption
<1>2. (poll.next + poll.offset) \in Nat
  OBVIOUS
<1>3. \A a \in Nat : a % n \in 0 .. n - 1
  BY <1>1
<1>4. ((poll.next + poll.offset) % n) + 1 \in 1 .. n
  <2>1. ((poll.next + poll.offset) % n) \in 0 .. n - 1
    BY <1>2, <1>3
  <2> HIDE DEF n
  <2> QED
    BY <2>1, <1>1
<1> QED
  BY <1>1, <1>4 DEF CurRepo

\* What the ledger's operations do to the reservation map.
LEMMA ReserveMap ==
    ASSUME TypeOK, NEW id \in SpawnIDs, NEW repo \in Repos, TryReserve(id, repo)
    PROVE  /\ Keeps(id) /\ id \notin DOMAIN reservations
           /\ HasReservation(id, repo)' /\ ~InDebt(id)'
           /\ DOMAIN reservations' = DOMAIN reservations \cup {id}
  BY DEF TypeOK, TryReserve, CanReserve, Charge, Keeps, HasReservation, InDebt

LEMMA PhaseMap ==
    ASSUME TypeOK, NEW id, RecordJIT(id) \/ MarkOnline(id) \/ MarkAssigned(id)
    PROVE  /\ Keeps(id) /\ NoGain /\ id \in DOMAIN reservations
           /\ DOMAIN reservations' = DOMAIN reservations
           /\ InDebt(id)' <=> InDebt(id)
<1>1. reservations[id] \in SpawnState
  BY DEF TypeOK, RecordJIT, MarkOnline, MarkAssigned
<1>2. CASE RecordJIT(id)
  BY <1>1, <1>2 DEF RecordJIT, Keeps, NoGain, InDebt, SpawnState
<1>3. CASE MarkOnline(id)
  BY <1>1, <1>3 DEF MarkOnline, MovePhase, Keeps, NoGain, InDebt, SpawnState
<1>4. CASE MarkAssigned(id)
  BY <1>1, <1>4 DEF MarkAssigned, MovePhase, Keeps, NoGain, InDebt, SpawnState
<1> QED
  BY <1>2, <1>3, <1>4

LEMMA BlockMap ==
    ASSUME TypeOK, NEW id \in DOMAIN reservations, NEW repo, MarkTeardownBlocked(id, repo)
    PROVE  /\ Keeps(id) /\ NoGain /\ InDebt(id)'
           /\ DOMAIN reservations' = DOMAIN reservations
<1>1. reservations[id] \in SpawnState
  BY DEF TypeOK
<1> QED
  BY <1>1 DEF MarkTeardownBlocked, MovePhase, Keeps, NoGain, InDebt, SpawnState

LEMMA ReleaseMap ==
    ASSUME NEW id, ReleaseReservation(id) \/ ResolveTeardown(id)
    PROVE  /\ Keeps(id) /\ NoGain /\ id \notin DOMAIN reservations'
           /\ DOMAIN reservations' = DOMAIN reservations \ {id}
  BY DEF ReleaseReservation, ResolveTeardown, releaseReservationLocked, Keeps, NoGain

\* A step leaves alone what other hands hold.
LEMMA Untouched ==
    ASSUME NEW id, Touches(id), ForcedMain => ForcedMain'
    PROVE  /\ \A i, r : i # id /\ Fresh(i, r) => Fresh(i, r)'
           /\ \A v : worker'[v] = worker[v] /\ Spawn(v) # id /\ WorkerOK(v) => WorkerOK(v)'
<1>1. ASSUME NEW i, i # id
      PROVE  /\ \A r : HasReservation(i, r)' <=> HasReservation(i, r)
             /\ i \in DOMAIN reservations => (InDebt(i)' <=> InDebt(i))
             /\ i \in DOMAIN reservations' <=> i \in DOMAIN reservations
             /\ i \in stacks' <=> i \in stacks
             /\ i \in runners' <=> i \in runners
  BY <1>1 DEF Touches, Keeps, HasReservation, InDebt
<1>2. \A i, r : i # id /\ Fresh(i, r) => Fresh(i, r)'
  BY <1>1 DEF Fresh, HasReservation
<1>3. ASSUME NEW v, worker'[v] = worker[v], Spawn(v) # id, WorkerOK(v)
      PROVE  WorkerOK(v)'
  <2> DEFINE s == worker[v]
  <2>1. worker'[v] = s /\ s.id # id
    BY <1>3 DEF Spawn
  <2>2. s.pc \notin {"recv", "finish", "stopped"} => s.id \in DOMAIN reservations
    BY <1>3 DEF WorkerOK, HasReservation
  <2>3. s.id \in DOMAIN reservations' <=> s.id \in DOMAIN reservations
    BY <1>1, <2>1
  <2>4. s.id \in DOMAIN reservations => (InDebt(s.id)' <=> InDebt(s.id))
    BY <1>1, <2>1
  <2> QED
    BY <1>1, <1>2, <1>3, <2>1, <2>2, <2>3, <2>4 DEF WorkerOK
<1> QED
  BY <1>2, <1>3

-----------------------------------------------------------------------------
(* A worker's step with the spawn in its hands.                            *)

\* What the proof of a worker's action has to show; the rest follows.
OwnStep(w) ==
    /\ UNCHANGED <<poll, intents, closed, main, issued>>
    /\ lost' \cup strays' \subseteq SpawnIDs
    /\ worker' = [worker EXCEPT ![w] = worker'[w]] /\ worker'[w] \in WorkerState
    /\ worker[w].pc # "stopped"
    /\ worker'[w].pc = "stopped" => closed /\ intents = <<>>
    /\ Touches(Spawn(w)) /\ NoGain
    /\ WorkerOK(w)'
    /\ \/ worker'[w].id = Spawn(w)
       \/ /\ worker'[w].id = NoSpawn
          /\ Spawn(w) \in DOMAIN reservations' =>
                reservations'[Spawn(w)].phase = "teardown_blocked" /\ ForcedMain
    /\ Spawn(w) \in stacks' \cup runners' => Spawn(w) \in DOMAIN reservations'

\* The part of the invariant about hands, without the ledger and the caps.
HandsInv ==
    /\ ProcTyped /\ HandsOK /\ Exclusive /\ Held /\ HandsIssued /\ DrainOK
    /\ ResourcesCharged

\* A step that admits nothing keeps within the caps.
LEMMA CapsNoGain ==
    ASSUME TypeOK, AllWithinCaps, NoGain
    PROVE  AllWithinCaps'
<1>1. ASSUME NEW S, IsFiniteSet(S), NEW T \in SUBSET S, NEW c \in Nat, Cardinality(S) <= c
      PROVE  Cardinality(T) <= c
  <2>1. Cardinality(T) \in Nat /\ Cardinality(S) \in Nat /\ Cardinality(T) <= Cardinality(S)
    BY <1>1, FS_Subset, FS_CardinalityType
  <2> QED
    BY <2>1, <1>1
<1>2. DOMAIN reservations' \in SUBSET DOMAIN reservations
  BY DEF NoGain
<1>3. \A r \in Repos : Of(r)' \in SUBSET Of(r)
  BY DEF NoGain, Of
<1>4. \A r \in Repos : IsFiniteSet(Of(r))
  BY FS_Subset DEF TypeOK, Of
<1> QED
  BY <1>1, <1>2, <1>3, <1>4, CapAssumption DEF AllWithinCaps, TypeOK

LEMMA OwnStepInv ==
    ASSUME HandsInv, NEW w \in Workers, OwnStep(w)
    PROVE  HandsInv'
<1> DEFINE id == Spawn(w)
<1>1. /\ \A v \in Workers \ {w} : worker'[v] = worker[v]
      /\ \A v \in Workers \ {w} : Spawn(v)' = Spawn(v)
      /\ Spawn(w)' \in {id, NoSpawn}
      /\ worker' \in [Workers -> WorkerState]
  BY DEF OwnStep, HandsInv, ProcTyped, Spawn
<1>2. Touches(id) /\ NoGain /\ (ForcedMain <=> ForcedMain')
  BY DEF OwnStep, ForcedMain
<1>3. ProcTyped'
  BY <1>1 DEF HandsInv, ProcTyped, OwnStep
<1>4. CurRepo' = CurRepo
  BY DEF OwnStep, CurRepo
<1>5. /\ \A i, r : i # id /\ Fresh(i, r) => Fresh(i, r)'
      /\ \A v \in Workers \ {w} : Spawn(v) # id /\ WorkerOK(v) => WorkerOK(v)'
  BY <1>1, <1>2, Untouched
<1>6. ASSUME id # NoSpawn
      PROVE  /\ poll.id # id
             /\ \A i \in DOMAIN intents : intents[i][1] # id
             /\ \A v \in Workers \ {w} : Spawn(v) # id
  BY <1>6 DEF HandsInv, Exclusive
<1>7. HandsOK'
  <2>1. CASE id = NoSpawn
    <3>1. NoSpawn \notin SpawnIDs
      BY PoolAssumption
    <3>2. ASSUME NEW i, NEW r, Fresh(i, r)
          PROVE  Fresh(i, r)'
      BY <1>5, <2>1, <3>1, <3>2 DEF Fresh
    <3>3. ASSUME NEW v \in Workers \ {w}, WorkerOK(v)
          PROVE  WorkerOK(v)'
      <4>1. CASE Spawn(v) # NoSpawn
        BY <1>5, <2>1, <3>3, <4>1
      <4>2. CASE Spawn(v) = NoSpawn
        <5>1. worker'[v] = worker[v] /\ worker[v].pc \in {"recv", "stopped"} /\ worker[v].id = NoSpawn
          BY <1>1, <3>1, <3>3, <4>2 DEF WorkerOK, Spawn
        <5> QED
          BY <5>1 DEF WorkerOK
      <4> QED
        BY <4>1, <4>2
    <3> QED
      BY <3>2, <3>3, <1>4 DEF HandsInv, HandsOK, OwnStep
  <2>2. CASE id # NoSpawn
    BY <1>5, <1>6, <2>2, <1>4 DEF HandsInv, HandsOK, OwnStep
  <2> QED
    BY <2>1, <2>2
<1>8. Exclusive'
  <2>1. \A i \in DOMAIN intents : intents[i][1] # NoSpawn
    BY PoolAssumption DEF HandsInv, ProcTyped
  <2>2. \A v \in Workers : Spawn(v)' \in {Spawn(v), NoSpawn}
    BY <1>1
  <2>3. intents' = intents /\ poll' = poll
    BY DEF OwnStep
  <2> QED
    BY <2>1, <2>2, <2>3 DEF HandsInv, Exclusive
<1>9. HandsIssued'
  BY <1>1, <1>2 DEF HandsInv, HandsIssued, OwnStep, NoGain
<1>10. Held'
  <2> SUFFICES ASSUME NEW i \in DOMAIN reservations'
               PROVE  \/ poll'.id = i
                      \/ \E j \in DOMAIN intents' : intents'[j][1] = i
                      \/ \E v \in Workers : Spawn(v)' = i
                      \/ InDebt(i)' /\ ForcedMain'
    BY DEF Held
  <2>1. i \in DOMAIN reservations
    BY <1>2 DEF NoGain
  <2>2. CASE i = id
    <3>1. \/ Spawn(w)' = i
          \/ InDebt(i)' /\ ForcedMain
      BY <2>2 DEF OwnStep, Spawn, InDebt
    <3> QED
      BY <3>1, <1>2
  <2>3. CASE i # id
    <3>1. InDebt(i)' <=> InDebt(i)
      BY <1>2, <2>1, <2>3 DEF Touches, Keeps, InDebt
    <3>2. \A v \in Workers : Spawn(v) = i => Spawn(v)' = i
      BY <1>1, <2>3
    <3> QED
      BY <1>2, <2>1, <3>1, <3>2 DEF HandsInv, Held, OwnStep
  <2> QED
    BY <2>2, <2>3
<1>11. DrainOK'
  BY <1>1 DEF HandsInv, DrainOK, OwnStep, AllWorkersStopped
<1>12. ResourcesCharged'
  BY <1>2 DEF HandsInv, ResourcesCharged, OwnStep, Touches, Keeps
<1> QED
  BY <1>3, <1>7, <1>8, <1>9, <1>10, <1>11, <1>12 DEF HandsInv

-----------------------------------------------------------------------------
(* The worker's actions.                                                   *)

\* The worker as it stands before a step and after one that keeps its spawn.
Standing(pc, id, repo, be, re) ==
    [pc |-> pc, id |-> id, repo |-> repo, backendErr |-> be, runnerErr |-> re]

Becomes(w, pc, id, repo, be, re) ==
    worker' = [worker EXCEPT ![w] = Standing(pc, id, repo, be, re)]
SetsBackendErr(w, q) == worker' = [worker EXCEPT ![w].pc = q, ![w].backendErr = TRUE]
SetsRunnerErr(w, q) == worker' = [worker EXCEPT ![w].pc = q, ![w].runnerErr = TRUE]
ClearsBackendErr(w) == worker' = [worker EXCEPT ![w].backendErr = FALSE]
ClearsRunnerErr(w) == worker' = [worker EXCEPT ![w].runnerErr = FALSE]

\* Goto and the assignments to the flags, as a new value of the worker.
LEMMA NewStanding ==
    ASSUME worker \in [Workers -> WorkerState], NEW w \in Workers,
           NEW pc, NEW id, NEW repo, NEW be, NEW re,
           worker[w] = Standing(pc, id, repo, be, re)
    PROVE  /\ \A q : Goto(w, q) => Becomes(w, q, id, repo, be, re)
           /\ \A q : SetsBackendErr(w, q) => Becomes(w, q, id, repo, TRUE, re)
           /\ \A q : SetsRunnerErr(w, q) => Becomes(w, q, id, repo, be, TRUE)
           /\ ClearsBackendErr(w) => Becomes(w, pc, id, repo, FALSE, re)
           /\ ClearsRunnerErr(w) => Becomes(w, pc, id, repo, be, FALSE)
           /\ UNCHANGED worker => Becomes(w, pc, id, repo, be, re)
  BY DEF Goto, SetsBackendErr, SetsRunnerErr, ClearsBackendErr, ClearsRunnerErr, Becomes,
         Standing, WorkerState

\* What a step with the spawn in hand must make true of it: WorkerOK at the new
\* place, and ResourcesCharged.
LeavesSpawn(q, id, repo, be, re) ==
    /\ id \in stacks' \cup runners' => id \in DOMAIN reservations'
    /\ q # "finish" => HasReservation(id, repo)'
    /\ q \in {"check", "admit", "jit"} => Fresh(id, repo)'
    /\ q \in {"render", "spawn"} => id \notin stacks'
    /\ q \in {"deregister", "settle", "retry"} /\ id \in stacks' => be
    /\ q \in {"settle", "retry"} /\ id \in runners' => re
    /\ q = "retry" => InDebt(id)'
    /\ q = "finish" /\ id \in DOMAIN reservations' =>
          IF InDebt(id)' THEN ForcedMain ELSE id \notin stacks' \cup runners'

\* A step with the spawn in hand: it is enough to know the worker's new standing
\* and what has become of its spawn.
LEMMA KeepsSpawn ==
    ASSUME HandsInv, NEW w \in Workers,
           NEW id \in SpawnIDs, NEW repo \in Repos,
           NEW pc \in WorkerPCs, NEW be \in BOOLEAN, NEW re \in BOOLEAN,
           NEW q \in WorkerPCs, NEW nbe \in BOOLEAN, NEW nre \in BOOLEAN,
           worker[w] = Standing(pc, id, repo, be, re),
           pc # "stopped", q \notin {"recv", "stopped"},
           Becomes(w, q, id, repo, nbe, nre),
           UNCHANGED <<poll, intents, closed, main, issued>>, lost' \cup strays' \subseteq SpawnIDs,
           Touches(id), NoGain,
           LeavesSpawn(q, id, repo, nbe, nre)
    PROVE  OwnStep(w)
<1>1. /\ worker'[w] = Standing(q, id, repo, nbe, nre)
      /\ worker' = [worker EXCEPT ![w] = worker'[w]]
  BY DEF HandsInv, ProcTyped, Becomes
<1>2. worker'[w] \in WorkerState
  BY <1>1 DEF Standing, WorkerState
<1>3. Spawn(w) = id /\ worker[w].pc # "stopped"
  BY DEF Spawn, Standing
<1>4. /\ worker'[w].pc = q /\ worker'[w].id = id /\ worker'[w].repo = repo
      /\ worker'[w].backendErr = nbe /\ worker'[w].runnerErr = nre
  BY <1>1 DEF Standing
<1>5. WorkerOK(w)'
  <2>1. ForcedMain' <=> ForcedMain
    BY DEF ForcedMain
  <2> QED
    BY <1>4, <2>1 DEF WorkerOK, LeavesSpawn
<1> QED
  BY <1>1, <1>2, <1>3, <1>4, <1>5 DEF OwnStep, LeavesSpawn

\* Steps of a worker that leave the ledger and the world alone.
LEMMA QuietFacts ==
    ASSUME UNCHANGED <<stateVars, worldVars>>
    PROVE  /\ NoGain /\ \A i : Touches(i)
           /\ DOMAIN reservations' = DOMAIN reservations
           /\ stacks' = stacks /\ runners' = runners /\ lost' = lost /\ strays' = strays
           /\ \A i : InDebt(i)' <=> InDebt(i)
           /\ \A i, r : /\ HasReservation(i, r)' <=> HasReservation(i, r)
                        /\ Fresh(i, r)' <=> Fresh(i, r)
  BY DEF stateVars, worldVars, NoGain, Touches, Keeps, InDebt, HasReservation, Fresh

\* What is known of a worker, with its fields as rigid values.
StandsAs(w, pc, id, repo, be, re) ==
    /\ worker[w] = Standing(pc, id, repo, be, re)
    /\ Spawn(w) = id /\ worker[w].repo = repo /\ worker[w].pc = pc
    /\ worker[w].backendErr = be /\ worker[w].runnerErr = re
    /\ pc \notin {"recv", "stopped"} => id \in SpawnIDs /\ repo \in Repos
    /\ pc \notin {"recv", "finish", "stopped"} => HasReservation(id, repo)
    /\ pc \in {"check", "admit", "jit"} => Fresh(id, repo)
    /\ pc \in {"render", "spawn"} => id \notin stacks
    /\ pc \in {"deregister", "settle", "retry"} /\ id \in stacks => be
    /\ pc \in {"settle", "retry"} /\ id \in runners => re
    /\ pc = "retry" => InDebt(id)
    /\ pc \in {"recv", "stopped"} => id = NoSpawn
    /\ pc = "finish" /\ id \in DOMAIN reservations =>
          IF InDebt(id) THEN ForcedMain ELSE id \notin stacks \cup runners
    /\ id \in stacks \cup runners => id \in DOMAIN reservations
    /\ worker \in [Workers -> WorkerState] /\ lost \cup strays \subseteq SpawnIDs

LEMMA StandingFacts ==
    ASSUME HandsInv, NEW w \in Workers
    PROVE  \E pc \in WorkerPCs, id \in SpawnIDs \cup {NoSpawn},
              repo \in Repos \cup {NoSpawn}, be \in BOOLEAN, re \in BOOLEAN :
              StandsAs(w, pc, id, repo, be, re)
<1>1. worker[w] \in WorkerState /\ WorkerOK(w) /\ worker \in [Workers -> WorkerState]
      /\ lost \cup strays \subseteq SpawnIDs
  BY DEF HandsInv, ProcTyped, HandsOK
<1>2. worker[w] = Standing(worker[w].pc, worker[w].id, worker[w].repo,
                           worker[w].backendErr, worker[w].runnerErr)
  BY <1>1 DEF WorkerState, Standing
<1>3. /\ worker[w].pc \in WorkerPCs /\ worker[w].id \in SpawnIDs \cup {NoSpawn}
      /\ worker[w].repo \in Repos \cup {NoSpawn}
      /\ worker[w].backendErr \in BOOLEAN /\ worker[w].runnerErr \in BOOLEAN
  BY <1>1 DEF WorkerState
<1>4. worker[w].id \in stacks \cup runners => worker[w].id \in DOMAIN reservations
  BY DEF HandsInv, ResourcesCharged
<1>5. StandsAs(w, worker[w].pc, worker[w].id, worker[w].repo, worker[w].backendErr,
               worker[w].runnerErr)
  BY <1>1, <1>2, <1>4 DEF StandsAs, Spawn, WorkerOK
<1> QED
  BY <1>3, <1>5

\* The steps that only move the worker on.
LEMMA QuietActs ==
    ASSUME HandsInv, NEW w \in Workers,
           \/ Begin(w) \/ Refuse(w) \/ Proceed(w) \/ Render(w) \/ LifecycleEnds(w)
    PROVE  OwnStep(w) /\ UNCHANGED stateVars
<1>1. PICK pc \in WorkerPCs, id \in SpawnIDs \cup {NoSpawn},
           repo \in Repos \cup {NoSpawn}, be \in BOOLEAN, re \in BOOLEAN :
           StandsAs(w, pc, id, repo, be, re)
  BY StandingFacts
<1>2. UNCHANGED <<stateVars, worldVars>> /\ UNCHANGED <<poll, intents, closed, main, issued>>
  BY DEF Begin, Refuse, Proceed, Render, LifecycleEnds, WorkerOnly
<1>3. \A q : Goto(w, q) => Becomes(w, q, id, repo, be, re)
  BY <1>1, NewStanding DEF StandsAs
<1>4. ASSUME NEW q \in WorkerPCs, Goto(w, q), pc \in WorkerPCs \ {"recv", "finish", "stopped"},
             q \notin {"recv", "check", "retry", "settle", "stopped"},
             q \in {"admit", "jit"} => Fresh(id, repo),
             q = "finish" => Fresh(id, repo),
             q \in {"spawn", "deregister", "render"} => id \notin stacks
      PROVE  OwnStep(w)
  <2>1. /\ NoGain /\ Touches(id) /\ lost' = lost /\ strays' = strays
        /\ DOMAIN reservations' = DOMAIN reservations
        /\ stacks' = stacks /\ runners' = runners
        /\ InDebt(id)' <=> InDebt(id)
        /\ HasReservation(id, repo)' <=> HasReservation(id, repo)
        /\ Fresh(id, repo)' <=> Fresh(id, repo)
    BY <1>2, QuietFacts
  <2>2. LeavesSpawn(q, id, repo, be, re)
    BY <1>1, <1>4, <2>1 DEF StandsAs, Fresh, LeavesSpawn
  <2> QED
    BY <1>1, <1>2, <1>3, <1>4, <2>1, <2>2, KeepsSpawn DEF StandsAs
<1>5. CASE Begin(w)
  BY <1>1, <1>4, <1>5, <1>2 DEF Begin, At, StandsAs, WorkerPCs
<1>6. CASE Refuse(w)
  BY <1>1, <1>4, <1>6, <1>2 DEF Refuse, At, StandsAs, WorkerPCs
<1>7. CASE Proceed(w)
  BY <1>1, <1>4, <1>7, <1>2 DEF Proceed, At, StandsAs, WorkerPCs
<1>8. CASE Render(w)
  BY <1>1, <1>4, <1>8, <1>2 DEF Render, At, StandsAs, WorkerPCs
<1>9. CASE LifecycleEnds(w)
  BY <1>1, <1>4, <1>9, <1>2 DEF LifecycleEnds, At, StandsAs, WorkerPCs
<1> QED
  BY <1>2, <1>5, <1>6, <1>7, <1>8, <1>9

\* Steps of a worker that change the world but not the ledger.
LEMMA WorldFacts ==
    ASSUME NEW id, UNCHANGED stateVars,
           stacks' \in {stacks, stacks \cup {id}, stacks \ {id}},
           runners' \in {runners, runners \ {id}}
    PROVE  /\ NoGain /\ Touches(id)
           /\ DOMAIN reservations' = DOMAIN reservations
           /\ \A i : InDebt(i)' <=> InDebt(i)
           /\ \A i, r : HasReservation(i, r)' <=> HasReservation(i, r)
  BY DEF stateVars, NoGain, Touches, Keeps, InDebt, HasReservation

\* The calls to GitHub and the backend: whichever way they go, what they may
\* have left is recorded in the worker's flags.
LEMMA WorldActs ==
    ASSUME HandsInv, NEW w \in Workers,
           \/ FailJIT(w) \/ BackendSpawn(w) \/ Teardown(w) \/ Deregister(w)
           \/ RetryTeardownOK(w) \/ RetryTeardownFailed(w)
           \/ RetryDeletionOK(w) \/ RetryDeletionFailed(w)
    PROVE  OwnStep(w) /\ UNCHANGED stateVars
<1>1. PICK pc \in WorkerPCs, id \in SpawnIDs \cup {NoSpawn},
           repo \in Repos \cup {NoSpawn}, be \in BOOLEAN, re \in BOOLEAN :
           StandsAs(w, pc, id, repo, be, re)
  BY StandingFacts
<1>2. UNCHANGED stateVars /\ UNCHANGED <<poll, intents, closed, main, issued>>
  BY DEF FailJIT, BackendSpawn, Teardown, Deregister, RetryTeardownOK,
         RetryTeardownFailed, RetryDeletionOK, RetryDeletionFailed, WorkerOnly
<1>3. /\ \A q : Goto(w, q) => Becomes(w, q, id, repo, be, re)
      /\ \A q : SetsBackendErr(w, q) => Becomes(w, q, id, repo, TRUE, re)
      /\ \A q : SetsRunnerErr(w, q) => Becomes(w, q, id, repo, be, TRUE)
      /\ ClearsBackendErr(w) => Becomes(w, pc, id, repo, FALSE, re)
      /\ ClearsRunnerErr(w) => Becomes(w, pc, id, repo, be, FALSE)
      /\ UNCHANGED worker => Becomes(w, pc, id, repo, be, re)
  BY <1>1, NewStanding DEF StandsAs
<1>4. ASSUME NEW q \in WorkerPCs, NEW nbe \in BOOLEAN, NEW nre \in BOOLEAN,
             Becomes(w, q, id, repo, nbe, nre),
             pc \in WorkerPCs \ {"recv", "finish", "stopped"},
             q \in {"wait", "block", "deregister", "settle", "retry", "finish"},
             lost' \cup strays' \subseteq SpawnIDs,
             stacks' \in {stacks, stacks \cup {id}, stacks \ {id}},
             runners' \in {runners, runners \ {id}},
             q \in {"deregister", "settle", "retry"} /\ id \in stacks' => nbe,
             q \in {"settle", "retry"} /\ id \in runners' => nre,
             q = "retry" => pc = "retry",
             q = "finish" => \/ Fresh(id, repo) /\ id \notin stacks' \cup runners'
                             \/ pc = "retry" /\ ForcedMain
      PROVE  OwnStep(w)
  <2>1. /\ NoGain /\ Touches(id)
        /\ DOMAIN reservations' = DOMAIN reservations
        /\ \A i : InDebt(i)' <=> InDebt(i)
        /\ \A i, r : HasReservation(i, r)' <=> HasReservation(i, r)
    BY <1>2, <1>4, WorldFacts
  <2>2. HasReservation(id, repo) /\ id \in DOMAIN reservations
        /\ id \in SpawnIDs /\ repo \in Repos
    BY <1>1, <1>4 DEF StandsAs, HasReservation
  <2>3. q = "retry" => InDebt(id)'
    BY <1>1, <1>4, <2>1 DEF StandsAs
  <2>4. q = "finish" /\ id \in DOMAIN reservations' =>
            IF InDebt(id)' THEN ForcedMain ELSE id \notin stacks' \cup runners'
    BY <1>1, <1>4, <2>1 DEF StandsAs, Fresh
  <2>5. id \in DOMAIN reservations' /\ HasReservation(id, repo)'
    BY <2>1, <2>2
  <2>6. worker[w] = Standing(pc, id, repo, be, re)
    BY <1>1 DEF StandsAs
  <2>7. /\ q \notin {"check", "admit", "jit", "render", "spawn", "recv", "stopped"}
        /\ pc # "stopped"
    BY <1>4
  <2>8. LeavesSpawn(q, id, repo, nbe, nre)
    BY <1>4, <2>3, <2>4, <2>5, <2>7 DEF LeavesSpawn
  <2>9. Becomes(w, q, id, repo, nbe, nre) /\ lost' \cup strays' \subseteq SpawnIDs
    BY <1>4
  <2> QED
    BY <1>2, <2>1, <2>2, <2>6, <2>7, <2>8, <2>9, KeepsSpawn
<1>5. CASE FailJIT(w)
  <2>1. pc = "jit" /\ id \in SpawnIDs /\ Fresh(id, repo) /\ Goto(w, "finish")
    BY <1>1, <1>5 DEF FailJIT, At, StandsAs
  <2>2. lost' \cup strays' \subseteq SpawnIDs /\ stacks' = stacks /\ runners' = runners
    BY <1>1, <1>5, <2>1 DEF FailJIT, StandsAs
  <2> QED
    BY <1>2, <1>3, <1>4, <2>1, <2>2 DEF Fresh, WorkerPCs
<1>6. CASE BackendSpawn(w)
  <2>1. /\ pc = "spawn" /\ id \in SpawnIDs /\ id \notin stacks
        /\ lost' \cup strays' \subseteq SpawnIDs /\ runners' = runners
    BY <1>1, <1>6 DEF BackendSpawn, MayStray, At, StandsAs
  <2>2. \/ stacks' = stacks \cup {id} /\ Goto(w, "wait")
        \/ stacks' = stacks /\ Goto(w, "deregister")
        \/ stacks' = stacks \cup {id} /\ Goto(w, "block")
    BY <1>1, <1>6 DEF BackendSpawn, StandsAs
  <2> QED
    BY <1>2, <1>3, <1>4, <2>1, <2>2 DEF WorkerPCs
<1>7. CASE Teardown(w)
  <2>1. pc = "teardown" /\ lost' \cup strays' \subseteq SpawnIDs /\ runners' = runners
    BY <1>1, <1>7 DEF Teardown, At, StandsAs
  <2>2. \/ stacks' = stacks \ {id} /\ Goto(w, "deregister")
        \/ stacks' \in {stacks, stacks \ {id}} /\ SetsBackendErr(w, "deregister")
    BY <1>1, <1>7 DEF Teardown, TeardownOK, TeardownFailed, SetsBackendErr, StandsAs
  <2> QED
    BY <1>2, <1>3, <1>4, <2>1, <2>2 DEF WorkerPCs
<1>8. CASE Deregister(w)
  <2>1. /\ pc = "deregister" /\ lost' \cup strays' \subseteq SpawnIDs /\ stacks' = stacks
        /\ id \in stacks => be
    BY <1>1, <1>8 DEF Deregister, At, StandsAs
  <2>2. \/ runners' = runners \ {id} /\ Goto(w, "settle")
        \/ runners' \in {runners, runners \ {id}} /\ SetsRunnerErr(w, "settle")
    BY <1>1, <1>8 DEF Deregister, DeregisterOK, DeregisterFailed, SetsRunnerErr, StandsAs
  <2> QED
    BY <1>2, <1>3, <1>4, <2>1, <2>2 DEF WorkerPCs
<1>9. CASE RetryTeardownOK(w) \/ RetryTeardownFailed(w)
  <2>1. /\ pc = "retry" /\ lost' \cup strays' \subseteq SpawnIDs /\ runners' = runners
        /\ be /\ (id \in runners => re)
    BY <1>1, <1>9 DEF RetryTeardownOK, RetryTeardownFailed, At, StandsAs
  <2>2. \/ stacks' = stacks \ {id} /\ ClearsBackendErr(w)
        \/ stacks' \in {stacks, stacks \ {id}} /\ UNCHANGED worker
        \/ stacks' \in {stacks, stacks \ {id}} /\ ForcedMain /\ Goto(w, "finish")
    BY <1>1, <1>9 DEF RetryTeardownOK, RetryTeardownFailed, TeardownOK, TeardownFailed,
                      ClearsBackendErr, WorkersCancelled, ForcedMain, StandsAs
  <2> QED
    BY <1>2, <1>3, <1>4, <2>1, <2>2 DEF WorkerPCs
<1>10. CASE RetryDeletionOK(w) \/ RetryDeletionFailed(w)
  <2>1. /\ pc = "retry" /\ lost' \cup strays' \subseteq SpawnIDs /\ stacks' = stacks
        /\ re /\ (id \in stacks => be)
    BY <1>1, <1>10 DEF RetryDeletionOK, RetryDeletionFailed, At, StandsAs
  <2>2. \/ runners' = runners \ {id} /\ ClearsRunnerErr(w)
        \/ runners' \in {runners, runners \ {id}} /\ UNCHANGED worker
        \/ runners' = runners /\ ForcedMain /\ Goto(w, "finish")
    BY <1>1, <1>10 DEF RetryDeletionOK, RetryDeletionFailed, DeregisterOK, DeregisterFailed,
                       ClearsRunnerErr, WorkersCancelled, ForcedMain, StandsAs
  <2> QED
    BY <1>2, <1>3, <1>4, <2>1, <2>2 DEF WorkerPCs
<1> QED
  BY <1>2, <1>5, <1>6, <1>7, <1>8, <1>9, <1>10

\* A step that ends the worker's business with its spawn.
LEMMA DropsSpawn ==
    ASSUME HandsInv, NEW w \in Workers, NEW id \in SpawnIDs,
           Spawn(w) = id, worker[w].pc # "stopped",
           worker' = [worker EXCEPT ![w] = IdleWorker],
           UNCHANGED <<poll, intents, closed, main, issued>>, UNCHANGED worldVars,
           Keeps(id), NoGain,
           id \in DOMAIN reservations' => InDebt(id)' /\ ForcedMain,
           id \in stacks \cup runners => id \in DOMAIN reservations'
    PROVE  OwnStep(w)
<1>1. worker'[w] = IdleWorker /\ worker' = [worker EXCEPT ![w] = worker'[w]]
  BY DEF HandsInv, ProcTyped
<1>2. worker'[w] \in WorkerState /\ worker'[w].pc = "recv" /\ worker'[w].id = NoSpawn
  <2>1. /\ "recv" \in WorkerPCs /\ FALSE \in BOOLEAN
        /\ NoSpawn \in SpawnIDs \cup {NoSpawn} /\ NoSpawn \in Repos \cup {NoSpawn}
    BY DEF WorkerPCs
  <2>2. /\ IdleWorker \in WorkerState
        /\ IdleWorker.pc = "recv" /\ IdleWorker.id = NoSpawn
    BY <2>1 DEF IdleWorker, WorkerState
  <2> QED
    BY <1>1, <2>2
<1>3. WorkerOK(w)'
  BY <1>2 DEF WorkerOK
<1>4. Touches(id) /\ lost' \cup strays' \subseteq SpawnIDs /\ stacks' = stacks /\ runners' = runners
  BY DEF Touches, worldVars, HandsInv, ProcTyped
<1> QED
  BY <1>1, <1>2, <1>3, <1>4 DEF OwnStep, InDebt

\* The steps that call the ledger.
LEMMA LedgerActs ==
    ASSUME IInv, HandsInv, NEW w \in Workers,
           \/ Discard(w) \/ AcquireJIT(w) \/ BlockPartialSpawn(w) \/ ObserveOnline(w)
           \/ ObserveAssigned(w) \/ Settle(w) \/ Resolve(w) \/ Finish(w)
    PROVE  OwnStep(w) /\ [StateNext]_stateVars
<1>1. PICK pc \in WorkerPCs, id \in SpawnIDs \cup {NoSpawn},
           repo \in Repos \cup {NoSpawn}, be \in BOOLEAN, re \in BOOLEAN :
           StandsAs(w, pc, id, repo, be, re)
  BY StandingFacts
<1>2. /\ Spawn(w) = id /\ worker[w].repo = repo /\ worker[w].pc = pc
      /\ worker[w].backendErr = be /\ worker[w].runnerErr = re
      /\ worker[w] = Standing(pc, id, repo, be, re)
      /\ lost \cup strays \subseteq SpawnIDs
  BY <1>1 DEF StandsAs
<1>3. pc \notin {"recv", "stopped"} /\ id \in SpawnIDs /\ repo \in Repos
  BY <1>1 DEF StandsAs, At, Discard, AcquireJIT, BlockPartialSpawn, ObserveOnline,
              ObserveAssigned, Settle, Resolve, Finish
<1>4. UNCHANGED <<poll, intents, closed, main, issued>>
  BY DEF Discard, AcquireJIT, BlockPartialSpawn, ObserveOnline,
         ObserveAssigned, Settle, Resolve, Finish, WorkerOnly
<1>5. /\ \A q : Goto(w, q) => Becomes(w, q, id, repo, be, re)
      /\ UNCHANGED worker => Becomes(w, pc, id, repo, be, re)
  BY <1>1, NewStanding DEF StandsAs
<1>6. TypeOK
  BY DEF IInv
<1>7. CASE Discard(w)
  <2>1. /\ ReleaseReservation(id) /\ pc = "check" /\ UNCHANGED worldVars
        /\ worker' = [worker EXCEPT ![w] = IdleWorker]
    BY <1>2, <1>7 DEF Discard, At
  <2>2. Keeps(id) /\ NoGain /\ id \notin DOMAIN reservations'
    BY <2>1, ReleaseMap
  <2>3. id \notin stacks \cup runners
    BY <1>1, <2>1 DEF StandsAs, Fresh
  <2>4. OwnStep(w)
    BY <1>2, <1>3, <1>4, <2>1, <2>2, <2>3, DropsSpawn
  <2> QED
    BY <2>1, <2>4, <1>3 DEF StateNext, Operation
<1>8. CASE AcquireJIT(w)
  <2>1. /\ RecordJIT(id) /\ pc = "jit" /\ stacks' = stacks /\ lost' = lost /\ strays' = strays
        /\ runners' = runners \cup {id}
        /\ \E q \in {"render", "deregister"} : Goto(w, q)
    BY <1>2, <1>8 DEF AcquireJIT, At
  <2>2. /\ Keeps(id) /\ NoGain /\ id \in DOMAIN reservations
        /\ DOMAIN reservations' = DOMAIN reservations
    BY <2>1, <1>6, PhaseMap
  <2>3. HasReservation(id, repo) /\ id \notin stacks
    BY <1>1, <2>1 DEF StandsAs, Fresh
  <2>4. HasReservation(id, repo)' /\ id \notin stacks' /\ Touches(id)
    BY <2>1, <2>2, <2>3 DEF NoGain, HasReservation, Touches
  <2>5. PICK q \in {"render", "deregister"} : Becomes(w, q, id, repo, be, re)
    BY <2>1, <1>5
  <2>6. q \in WorkerPCs /\ pc # "stopped"
    BY <2>1 DEF WorkerPCs
  <2>7. LeavesSpawn(q, id, repo, be, re)
    BY <2>2, <2>4, <2>5 DEF LeavesSpawn
  <2>8. OwnStep(w)
    BY <1>2, <1>3, <1>4, <2>1, <2>2, <2>4, <2>5, <2>6, <2>7, KeepsSpawn
  <2> QED
    BY <2>1, <2>8, <1>3 DEF StateNext, Operation
<1>9. CASE BlockPartialSpawn(w)
  <2>1. /\ MarkTeardownBlocked(id, repo) /\ pc = "block" /\ UNCHANGED worldVars
        /\ Goto(w, "teardown")
    BY <1>2, <1>9 DEF BlockPartialSpawn, At
  <2>2. HasReservation(id, repo) /\ id \in DOMAIN reservations
    BY <1>1, <2>1 DEF StandsAs, HasReservation
  <2>3. Keeps(id) /\ NoGain /\ DOMAIN reservations' = DOMAIN reservations
    BY <1>6, <2>1, <2>2, BlockMap
  <2>4. /\ HasReservation(id, repo)' /\ Touches(id) /\ stacks' = stacks
        /\ runners' = runners /\ lost' = lost /\ strays' = strays
    BY <2>1, <2>2, <2>3 DEF NoGain, HasReservation, Touches, worldVars
  <2>5. Becomes(w, "teardown", id, repo, be, re) /\ "teardown" \in WorkerPCs /\ pc # "stopped"
    BY <1>5, <2>1 DEF WorkerPCs
  <2>6. LeavesSpawn("teardown", id, repo, be, re)
    BY <2>2, <2>3, <2>4 DEF LeavesSpawn
  <2>7. OwnStep(w)
    BY <1>2, <1>3, <1>4, <2>3, <2>4, <2>5, <2>6, KeepsSpawn
  <2> QED
    BY <2>1, <2>7, <1>3 DEF StateNext, Operation
<1>10. CASE ObserveOnline(w) \/ ObserveAssigned(w)
  <2>1. /\ MarkOnline(id) \/ MarkAssigned(id)
        /\ pc = "wait" /\ UNCHANGED worldVars /\ UNCHANGED worker
    BY <1>2, <1>10 DEF ObserveOnline, ObserveAssigned, At
  <2>2. HasReservation(id, repo) /\ id \in DOMAIN reservations
    BY <1>1, <2>1 DEF StandsAs, HasReservation
  <2>3. Keeps(id) /\ NoGain /\ DOMAIN reservations' = DOMAIN reservations
    BY <1>6, <2>1, PhaseMap
  <2>4. /\ HasReservation(id, repo)' /\ Touches(id) /\ stacks' = stacks
        /\ runners' = runners /\ lost' = lost /\ strays' = strays
    BY <2>1, <2>2, <2>3 DEF NoGain, HasReservation, Touches, worldVars
  <2>5. Becomes(w, "wait", id, repo, be, re) /\ "wait" \in WorkerPCs /\ pc # "stopped"
    BY <1>5, <2>1 DEF WorkerPCs
  <2>6. LeavesSpawn("wait", id, repo, be, re)
    BY <2>2, <2>3, <2>4 DEF LeavesSpawn
  <2>7. OwnStep(w)
    BY <1>2, <1>3, <1>4, <2>3, <2>4, <2>5, <2>6, KeepsSpawn
  <2> QED
    BY <2>1, <2>7, <1>3 DEF StateNext, Operation
<1>11. CASE Settle(w)
  <2>1. /\ pc = "settle" /\ UNCHANGED worldVars
        /\ HasReservation(id, repo) /\ id \in DOMAIN reservations
        /\ id \in stacks => be
        /\ id \in runners => re
    BY <1>1, <1>11 DEF Settle, At, StandsAs, HasReservation
  <2>2. \/ ~(be \/ re) /\ ~InDebt(id) /\ Goto(w, "finish") /\ UNCHANGED stateVars
        \/ MarkTeardownBlocked(id, repo) /\ Goto(w, "retry")
        \/ InDebt(id) /\ Goto(w, "retry") /\ UNCHANGED stateVars
    BY <1>2, <1>11 DEF Settle, Owed, IsDebt, InDebt
  <2>3. stacks' = stacks /\ runners' = runners /\ lost' = lost /\ strays' = strays /\ pc # "stopped"
        /\ {"finish", "retry"} \subseteq WorkerPCs
    BY <2>1 DEF worldVars, WorkerPCs
  <2>4. CASE UNCHANGED stateVars
    <3>1. /\ NoGain /\ Touches(id)
          /\ DOMAIN reservations' = DOMAIN reservations
          /\ HasReservation(id, repo)' /\ (InDebt(id)' <=> InDebt(id))
      BY <2>1, <2>4, QuietFacts
    <3>2. ~(be \/ re) /\ ~InDebt(id) /\ Goto(w, "finish") => OwnStep(w)
      <4>1. ~(be \/ re) /\ ~InDebt(id) => LeavesSpawn("finish", id, repo, be, re)
        BY <2>1, <2>3, <3>1 DEF LeavesSpawn
      <4> QED
        BY <1>2, <1>3, <1>4, <1>5, <2>3, <3>1, <4>1, KeepsSpawn
    <3>3. InDebt(id) /\ Goto(w, "retry") => OwnStep(w)
      <4>1. InDebt(id) => LeavesSpawn("retry", id, repo, be, re)
        BY <2>1, <2>3, <3>1 DEF LeavesSpawn
      <4> QED
        BY <1>2, <1>3, <1>4, <1>5, <2>3, <3>1, <4>1, KeepsSpawn
    <3>4. CASE MarkTeardownBlocked(id, repo)
      <4>1. totals' # totals
        BY <3>4, <1>6 DEF MarkTeardownBlocked, Bump, TypeOK, Totals
      <4> QED
        BY <4>1, <2>4 DEF stateVars
    <3> QED
      BY <2>2, <2>4, <3>2, <3>3, <3>4
  <2>5. CASE MarkTeardownBlocked(id, repo) /\ Goto(w, "retry")
    <3>1. Keeps(id) /\ NoGain /\ DOMAIN reservations' = DOMAIN reservations /\ InDebt(id)'
      BY <1>6, <2>1, <2>5, BlockMap
    <3>2. HasReservation(id, repo)' /\ Touches(id)
      BY <2>1, <2>3, <3>1 DEF NoGain, HasReservation, Touches
    <3>3. LeavesSpawn("retry", id, repo, be, re)
      BY <2>1, <2>3, <3>1, <3>2 DEF LeavesSpawn
    <3>4. OwnStep(w)
      BY <1>2, <1>3, <1>4, <1>5, <2>3, <2>5, <3>1, <3>2, <3>3, KeepsSpawn
    <3> QED
      BY <2>5, <3>4, <1>3 DEF StateNext, Operation
  <2> QED
    BY <2>2, <2>4, <2>5
<1>12. CASE Resolve(w)
  <2>1. /\ ResolveTeardown(id) /\ pc = "retry" /\ UNCHANGED worldVars
        /\ Goto(w, "finish") /\ id \notin stacks \cup runners
    BY <1>1, <1>2, <1>12 DEF Resolve, At, Owed, StandsAs
  <2>2. Keeps(id) /\ NoGain /\ id \notin DOMAIN reservations'
    BY <2>1, ReleaseMap
  <2>3. stacks' = stacks /\ runners' = runners /\ lost' = lost /\ strays' = strays /\ Touches(id)
        /\ "finish" \in WorkerPCs /\ pc # "stopped"
    BY <2>1, <2>2 DEF worldVars, Touches, WorkerPCs
  <2>4. LeavesSpawn("finish", id, repo, be, re)
    BY <2>1, <2>2, <2>3 DEF LeavesSpawn
  <2>5. OwnStep(w)
    BY <1>2, <1>3, <1>4, <1>5, <2>1, <2>2, <2>3, <2>4, KeepsSpawn
  <2> QED
    BY <2>1, <2>5, <1>3 DEF StateNext, Operation
<1>13. CASE Finish(w)
  <2>1. /\ pc = "finish" /\ UNCHANGED worldVars
        /\ worker' = [worker EXCEPT ![w] = IdleWorker]
    BY <1>2, <1>13 DEF Finish, At
  <2>2. CASE ReleaseReservation(id)
    <3>1. Keeps(id) /\ NoGain /\ id \notin DOMAIN reservations'
      BY <2>2, ReleaseMap
    <3>2. id \in DOMAIN reservations /\ ~InDebt(id)
      BY <2>2 DEF ReleaseReservation, InDebt
    <3>3. id \notin stacks \cup runners
      BY <1>1, <2>1, <3>2 DEF StandsAs
    <3>4. OwnStep(w)
      BY <1>2, <1>3, <1>4, <2>1, <3>1, <3>3, DropsSpawn
    <3> QED
      BY <2>2, <3>4, <1>3 DEF StateNext, Operation
  <2>3. CASE UNCHANGED stateVars /\ (id \in DOMAIN reservations => InDebt(id))
    <3>1. Keeps(id) /\ NoGain /\ DOMAIN reservations' = DOMAIN reservations
          /\ (InDebt(id)' <=> InDebt(id))
      BY <2>1, <2>3, QuietFacts DEF Touches
    <3>2. id \in DOMAIN reservations => InDebt(id) /\ ForcedMain
      BY <1>1, <2>1, <2>3 DEF StandsAs
    <3>3. id \in stacks \cup runners => id \in DOMAIN reservations
      BY <1>1 DEF StandsAs
    <3>4. OwnStep(w)
      BY <1>2, <1>3, <1>4, <2>1, <3>1, <3>2, <3>3, DropsSpawn
    <3> QED
      BY <2>3, <3>4
  <2> QED
    BY <1>2, <1>13, <2>2, <2>3 DEF Finish, IsDebt, InDebt
<1> QED
  BY <1>7, <1>8, <1>9, <1>10, <1>11, <1>12, <1>13

LEMMA ExitAct ==
    ASSUME HandsInv, NEW w \in Workers, WorkerExit(w)
    PROVE  OwnStep(w) /\ UNCHANGED stateVars
<1>1. PICK pc \in WorkerPCs, id \in SpawnIDs \cup {NoSpawn},
           repo \in Repos \cup {NoSpawn}, be \in BOOLEAN, re \in BOOLEAN :
           StandsAs(w, pc, id, repo, be, re)
  BY StandingFacts
<1>2. /\ UNCHANGED <<stateVars, worldVars>> /\ UNCHANGED <<poll, intents, closed, main, issued>>
      /\ intents = <<>> /\ closed /\ pc = "recv" /\ id = NoSpawn /\ Spawn(w) = id
      /\ worker[w].pc = pc
  BY <1>1 DEF WorkerExit, StandsAs, At
<1>3. Becomes(w, "stopped", id, repo, be, re)
  BY <1>1, NewStanding DEF StandsAs, WorkerExit
<1>4. worker' = [worker EXCEPT ![w] = worker'[w]]
      /\ worker'[w] = Standing("stopped", id, repo, be, re)
  BY <1>3 DEF Becomes, HandsInv, ProcTyped
<1>5. worker'[w] \in WorkerState /\ worker'[w].id = id /\ worker'[w].pc = "stopped"
  <2>1. "stopped" \in WorkerPCs
    BY DEF WorkerPCs
  <2> QED
    BY <1>4, <2>1 DEF Standing, WorkerState
<1>6. WorkerOK(w)'
  BY <1>2, <1>5 DEF WorkerOK
<1>7. /\ NoGain /\ Touches(id) /\ lost' = lost /\ strays' = strays /\ stacks' = stacks /\ runners' = runners
      /\ DOMAIN reservations' = DOMAIN reservations
  BY <1>2, QuietFacts
<1> QED
  BY <1>2, <1>4, <1>5, <1>6, <1>7 DEF OwnStep, HandsInv, ProcTyped, ResourcesCharged

\* The head of the channel passes into the worker's hands.
LEMMA ReceiveInv ==
    ASSUME HandsInv, NEW w \in Workers, Receive(w)
    PROVE  HandsInv' /\ UNCHANGED stateVars /\ NoGain
<1>1. /\ UNCHANGED <<stateVars, worldVars>> /\ UNCHANGED <<poll, closed, main, issued>>
      /\ intents # <<>> /\ intents' = Tail(intents) /\ worker[w].pc = "recv"
  BY DEF Receive, At
<1>2. /\ NoGain /\ lost' = lost /\ strays' = strays /\ stacks' = stacks /\ runners' = runners
      /\ DOMAIN reservations' = DOMAIN reservations
      /\ \A i : InDebt(i)' <=> InDebt(i)
      /\ \A i, r : /\ HasReservation(i, r)' <=> HasReservation(i, r)
                   /\ Fresh(i, r)' <=> Fresh(i, r)
      /\ Touches(NoSpawn)
  BY <1>1, QuietFacts
<1>3. /\ Len(intents) \in Nat /\ 1 \in DOMAIN intents /\ Head(intents) = intents[1]
      /\ intents' \in Seq(SpawnIDs \X Repos)
      /\ \A i \in DOMAIN intents' :
            i + 1 \in DOMAIN intents /\ i + 1 # 1 /\ intents'[i] = intents[i + 1]
      /\ \A j \in DOMAIN intents \ {1} : j - 1 \in DOMAIN intents' /\ j = (j - 1) + 1
  BY <1>1 DEF HandsInv, ProcTyped
<1>4. PICK id \in SpawnIDs, repo \in Repos : intents[1] = <<id, repo>>
  BY <1>3 DEF HandsInv, ProcTyped
<1>5. /\ \A v \in Workers \ {w} : worker'[v] = worker[v] /\ Spawn(v)' = Spawn(v)
      /\ worker'[w] = Standing("check", id, repo, FALSE, FALSE)
      /\ worker' \in [Workers -> WorkerState]
  <2>1. Head(intents)[1] = id /\ Head(intents)[2] = repo
    BY <1>3, <1>4
  <2>2. worker' = [worker EXCEPT ![w] = Standing("check", id, repo, FALSE, FALSE)]
    BY <2>1 DEF Receive, Standing
  <2>3. Standing("check", id, repo, FALSE, FALSE) \in WorkerState
    <3>1. "check" \in WorkerPCs
      BY DEF WorkerPCs
    <3> QED
      BY <3>1 DEF Standing, WorkerState
  <2> QED
    BY <2>2, <2>3 DEF HandsInv, ProcTyped, Spawn
<1>6. /\ worker'[w].pc = "check" /\ worker'[w].id = id /\ worker'[w].repo = repo
      /\ Spawn(w)' = id
  BY <1>5 DEF Standing, Spawn
<1>7. Spawn(w) = NoSpawn /\ id # NoSpawn /\ Fresh(id, repo)
  BY <1>1, <1>3, <1>4, PoolAssumption DEF HandsInv, HandsOK, WorkerOK, Spawn
<1>8. ForcedMain' <=> ForcedMain
  BY <1>1 DEF ForcedMain
<1>9. ProcTyped'
  BY <1>1, <1>2, <1>3, <1>5 DEF HandsInv, ProcTyped
<1>10. HandsOK'
  <2>1. \A v \in Workers \ {w} : WorkerOK(v)'
    <3> TAKE v \in Workers \ {w}
    <3>1. WorkerOK(v) /\ worker'[v] = worker[v]
      BY <1>5 DEF HandsInv, HandsOK
    <3> QED
      BY <3>1, <1>2, <1>8 DEF WorkerOK
  <2>2. WorkerOK(w)'
    BY <1>2, <1>6, <1>7 DEF WorkerOK, Fresh
  <2>3. (\A i \in DOMAIN intents : Fresh(intents[i][1], intents[i][2]))'
    <3> SUFFICES ASSUME NEW i \in DOMAIN intents'
                 PROVE  Fresh(intents[i][1], intents[i][2])'
      OBVIOUS
    <3>1. intents'[i] = intents[i + 1] /\ i + 1 \in DOMAIN intents
      BY <1>3
    <3>2. Fresh(intents[i + 1][1], intents[i + 1][2])
      BY <3>1 DEF HandsInv, HandsOK
    <3> QED
      BY <3>1, <3>2, <1>2 DEF Fresh
  <2>4. (poll.pc = "send" => Fresh(poll.id, CurRepo))'
    <3>1. poll' = poll /\ CurRepo' = CurRepo
      BY <1>1 DEF CurRepo
    <3> QED
      BY <3>1, <1>2 DEF HandsInv, HandsOK
  <2> QED
    BY <2>1, <2>2, <2>3, <2>4 DEF HandsOK
<1>11. Exclusive'
  <2>1. /\ id # poll.id
        /\ \A j \in DOMAIN intents \ {1} : intents[j][1] # id
        /\ \A v \in Workers : Spawn(v) # id
    BY <1>3, <1>4 DEF HandsInv, Exclusive
  <2> QED
    BY <1>1, <1>3, <1>5, <1>6, <2>1 DEF HandsInv, Exclusive
<1>12. HandsIssued'
  BY <1>1, <1>2, <1>3, <1>4, <1>5, <1>6 DEF HandsInv, HandsIssued
<1>13. Held'
  <2> SUFFICES ASSUME NEW i \in DOMAIN reservations
               PROVE  \/ poll.id = i
                      \/ \E j \in DOMAIN intents' : intents'[j][1] = i
                      \/ \E v \in Workers : Spawn(v)' = i
                      \/ InDebt(i) /\ ForcedMain
    BY <1>1, <1>2, <1>8 DEF Held
  <2>1. CASE \E j \in DOMAIN intents : intents[j][1] = i
    <3>1. PICK j \in DOMAIN intents : intents[j][1] = i
      BY <2>1
    <3>2. CASE j = 1
      BY <3>1, <3>2, <1>4, <1>6
    <3>3. CASE j # 1
      BY <3>1, <3>3, <1>3
    <3> QED
      BY <3>2, <3>3
  <2>2. CASE \E v \in Workers : Spawn(v) = i
    <3>1. i # NoSpawn
      BY PoolAssumption DEF HandsInv, HandsIssued, ProcTyped
    <3> QED
      BY <2>2, <3>1, <1>5, <1>7
  <2> QED
    BY <2>1, <2>2 DEF HandsInv, Held
<1>14. DrainOK'
  <2>1. \A v \in Workers : worker'[v].pc = "stopped" => worker[v].pc = "stopped"
    BY <1>5, <1>6
  <2>2. \A v \in Workers : worker[v].pc # "stopped"
    BY <1>1 DEF HandsInv, DrainOK
  <2>3. main \notin {"drained", "forcedStop"}
    BY <2>2 DEF HandsInv, DrainOK, AllWorkersStopped
  <2> QED
    BY <1>1, <2>1, <2>2, <2>3 DEF HandsInv, DrainOK
<1>15. ResourcesCharged'
  BY <1>2 DEF HandsInv, ResourcesCharged
<1> QED
  BY <1>1, <1>2, <1>9, <1>10, <1>11, <1>12, <1>13, <1>14, <1>15 DEF HandsInv

-----------------------------------------------------------------------------
(* The poll goroutine and the main goroutine.                              *)

\* The steps of the poller with no spawn in hand.
LEMMA PollQuietInv ==
    ASSUME HandsInv, PollOnly, poll' \in PollState,
           poll.pc \notin {"send", "stopped"}, poll'.pc # "send", poll'.id = poll.id
    PROVE  HandsInv' /\ UNCHANGED stateVars
<1>1. /\ UNCHANGED <<stateVars, worldVars>>
      /\ intents' = intents /\ closed' = closed /\ worker' = worker /\ main' = main
      /\ issued' = issued
  BY DEF PollOnly
<1>2. /\ lost' = lost /\ strays' = strays /\ stacks' = stacks /\ runners' = runners
      /\ reservations' = reservations
      /\ \A i, r : Fresh(i, r)' <=> Fresh(i, r)
      /\ ForcedMain' <=> ForcedMain
      /\ \A i : InDebt(i)' <=> InDebt(i)
  BY <1>1, QuietFacts DEF stateVars, ForcedMain
<1>3. /\ \A v \in Workers : WorkerOK(v)' <=> WorkerOK(v)
      /\ \A v : Spawn(v)' = Spawn(v)
  BY <1>1, <1>2 DEF WorkerOK, Spawn, HasReservation
<1>4. ProcTyped'
  BY <1>1, <1>2 DEF HandsInv, ProcTyped, PollState
<1>5. HandsOK'
  BY <1>1, <1>2, <1>3 DEF HandsInv, HandsOK
<1>6. Exclusive' /\ Held' /\ HandsIssued'
  BY <1>1, <1>2, <1>3 DEF HandsInv, Exclusive, Held, HandsIssued
<1>7. DrainOK' /\ ResourcesCharged'
  BY <1>1, <1>2 DEF HandsInv, DrainOK, ResourcesCharged, AllWorkersStopped
<1> QED
  BY <1>1, <1>4, <1>5, <1>6, <1>7 DEF HandsInv

\* A tick's bookkeeping keeps the poller's type, one field at a time.
LEMMA PollRecord ==
    ASSUME NEW x \in PollState, NEW p \in PollPCs, NEW n \in Nat, NEW o \in Nat
    PROVE  /\ [x EXCEPT !.pc = p, !.offset = o, !.queued = 0, !.left = 0] \in PollState
           /\ [x EXCEPT !.pc = p, !.next = n, !.offset = 0, !.queued = 0, !.left = 0]
                 \in PollState
<1>1. \A y \in PollState : [y EXCEPT !.pc = p] \in PollState
  BY DEF PollState
<1>2. \A y \in PollState : \A m \in Nat : [y EXCEPT !.offset = m] \in PollState
  BY DEF PollState
<1>3. \A y \in PollState : [y EXCEPT !.queued = 0] \in PollState
  BY DEF PollState
<1>4. \A y \in PollState : [y EXCEPT !.left = 0] \in PollState
  BY DEF PollState
<1>5. \A y \in PollState : [y EXCEPT !.next = n] \in PollState
  BY DEF PollState
<1>6. [x EXCEPT !.pc = p, !.offset = o, !.queued = 0, !.left = 0] =
      [[[[x EXCEPT !.pc = p] EXCEPT !.offset = o] EXCEPT !.queued = 0] EXCEPT !.left = 0]
  BY DEF PollState
<1>7. [x EXCEPT !.pc = p, !.next = n, !.offset = 0, !.queued = 0, !.left = 0] =
      [[[[[x EXCEPT !.pc = p] EXCEPT !.next = n] EXCEPT !.offset = 0]
           EXCEPT !.queued = 0] EXCEPT !.left = 0]
  BY DEF PollState
<1> QED
  BY <1>1, <1>2, <1>3, <1>4, <1>5, <1>6, <1>7

LEMMA PollQuietActs ==
    ASSUME IInv, HandsInv,
           \/ Tick \/ SkipRepo \/ ReadRepoAvail \/ ReadGlobalAvail \/ ReadCoverage
           \/ EndRepo \/ PollStop
           \/ \E n \in 0 .. MaxQueued : EligibleQueuedJobs(n)
    PROVE  HandsInv' /\ UNCHANGED stateVars
<1>1. poll \in PollState
  BY DEF HandsInv, ProcTyped, PollState
<1>2. CurRepo \in Repos
  BY <1>1, CurRepoOK DEF PollState
<1>3. Len(RepoOrder) \in Nat /\ Len(RepoOrder) > 0 /\ MaxQueued \in Nat
  BY PoolAssumption
<1>4. /\ InFlight(CurRepo) \in Nat /\ DemandCoverage(CurRepo) \in Nat
      /\ GlobalInFlight \in Nat /\ RepoCap[CurRepo] \in Nat /\ GlobalCap \in Nat
  <2>1. GlobalInFlight \in Nat
    BY SetsFinite DEF IInv
  <2> QED
    BY <1>2, <2>1, CapAssumption DEF IInv, TypeOK, InFlight, DemandCoverage, Counters
<1>5. \A a, b \in Nat : Monus(a, b) \in Nat /\ MinOf(a, b) \in Nat
  BY DEF Monus, MinOf
<1>6. NextRepo => poll' \in PollState /\ poll'.pc \in {"visit", "idle"} /\ poll'.id = poll.id
  <2>1. (poll.next + 1) % Len(RepoOrder) \in Nat
    <3>1. \A a \in Nat : a % Len(RepoOrder) \in Nat
      BY <1>3
    <3> QED
      BY <1>1, <3>1 DEF PollState
  <2>2. poll.offset + 1 \in Nat /\ {"visit", "idle"} \subseteq PollPCs
    BY <1>1 DEF PollState, PollPCs
  <2>3. NextRepo => poll' \in PollState
    <3>1. [poll EXCEPT !.pc = "visit", !.offset = poll.offset + 1, !.queued = 0, !.left = 0]
             \in PollState
      BY <1>1, <2>2, PollRecord
    <3>2. [poll EXCEPT !.pc = "idle", !.next = (poll.next + 1) % Len(RepoOrder),
                       !.offset = 0, !.queued = 0, !.left = 0] \in PollState
      BY <1>1, <2>1, <2>2, PollRecord
    <3> QED
      BY <3>1, <3>2, Zenon DEF NextRepo
  <2>4. NextRepo => poll'.pc \in {"visit", "idle"} /\ poll'.id = poll.id
    BY <1>1 DEF NextRepo, PollState
  <2> QED
    BY <2>3, <2>4
<1>7. CASE Tick
  BY <1>1, <1>7, PollQuietInv DEF Tick, PollAt, PollState, PollPCs
<1>8. CASE SkipRepo
  BY <1>1, <1>6, <1>8, PollQuietInv DEF SkipRepo, PollAt
<1>9. CASE ReadRepoAvail
  <2>1. Monus(RepoCap[CurRepo], InFlight(CurRepo)) \in Nat
    BY <1>4, <1>5
  <2> QED
    BY <1>1, <1>9, <2>1, PollQuietInv DEF ReadRepoAvail, PollAt, PollState, PollPCs
<1>10. CASE ReadGlobalAvail
  <2>1. MinOf(poll.left, Monus(GlobalCap, GlobalInFlight)) \in Nat
    BY <1>1, <1>4, <1>5 DEF PollState
  <2> QED
    BY <1>1, <1>10, <2>1, PollQuietInv DEF ReadGlobalAvail, PollAt, PollState, PollPCs
<1>11. CASE ReadCoverage
  <2>1. MinOf(Monus(poll.queued, DemandCoverage(CurRepo)), poll.left) \in Nat
    BY <1>1, <1>4, <1>5 DEF PollState
  <2> QED
    BY <1>1, <1>11, <2>1, PollQuietInv DEF ReadCoverage, PollAt, PollState, PollPCs
<1>12. CASE EndRepo
  BY <1>1, <1>6, <1>12, PollQuietInv DEF EndRepo, PollAt
<1>13. CASE PollStop
  BY <1>1, <1>13, PollQuietInv DEF PollStop, PollAt, PollState, PollPCs
<1>14. CASE \E n \in 0 .. MaxQueued : EligibleQueuedJobs(n)
  <2>1. PICK n \in Nat : EligibleQueuedJobs(n)
    BY <1>3, <1>14
  <2> QED
    BY <1>1, <2>1, PollQuietInv DEF EligibleQueuedJobs, PollAt, PollState, PollPCs
<1> QED
  BY <1>7, <1>8, <1>9, <1>10, <1>11, <1>12, <1>13, <1>14

\* A new reservation passes into the poller's hands.
LEMMA ReserveInv ==
    ASSUME IInv, HandsInv, NEW id \in SpawnIDs, Reserve(id)
    PROVE  HandsInv' /\ StateNext
<1>1. poll \in PollState
  BY DEF HandsInv, ProcTyped, PollState
<1>2. CurRepo \in Repos
  BY <1>1, CurRepoOK DEF PollState
<1>3. /\ poll.pc = "reserve" /\ poll.left > 0 /\ id \notin issued
      /\ TryReserve(id, CurRepo) /\ issued' = issued \cup {id}
      /\ intents' = intents /\ closed' = closed /\ worker' = worker /\ main' = main
      /\ stacks' = stacks /\ runners' = runners /\ lost' = lost /\ strays' = strays
      /\ poll' = [poll EXCEPT !.pc = "send", !.left = poll.left - 1, !.id = id]
  BY DEF Reserve, PollAt, worldVars
<1>4. /\ poll'.pc = "send" /\ poll'.id = id
      /\ poll'.next = poll.next /\ poll'.offset = poll.offset
  BY <1>1, <1>3 DEF PollState
<1>5. poll' \in PollState
  <2>1. poll.left - 1 \in Nat /\ "send" \in PollPCs
    BY <1>1, <1>3 DEF PollState, PollPCs
  <2> QED
    BY <1>1, <1>3, <2>1 DEF PollState
<1>6. PICK repo \in Repos : repo = CurRepo /\ repo = CurRepo'
  BY <1>2, <1>4 DEF CurRepo
<1>7. /\ Keeps(id) /\ id \notin DOMAIN reservations
      /\ HasReservation(id, repo)' /\ ~InDebt(id)'
      /\ DOMAIN reservations' = DOMAIN reservations \cup {id}
  BY <1>3, <1>6, ReserveMap DEF IInv
<1>8. Touches(id) /\ (ForcedMain <=> ForcedMain')
  BY <1>3, <1>7 DEF Touches, ForcedMain
<1>9. /\ \A i \in DOMAIN intents : intents[i][1] # id
      /\ \A v \in Workers : Spawn(v) # id /\ Spawn(v)' = Spawn(v)
      /\ id \notin stacks \cup runners /\ id # NoSpawn
      /\ poll.id = NoSpawn
  BY <1>3, PoolAssumption
     DEF HandsInv, HandsIssued, ResourcesCharged, ProcTyped, Spawn
<1>10. /\ \A i, r : i # id /\ Fresh(i, r) => Fresh(i, r)'
       /\ \A v \in Workers : WorkerOK(v) => WorkerOK(v)'
  BY <1>3, <1>8, <1>9, Untouched
<1>11. ProcTyped'
  BY <1>3, <1>4, <1>5 DEF HandsInv, ProcTyped, PollState
<1>12. HandsOK'
  <2>1. (poll.pc = "send" => Fresh(poll.id, CurRepo))'
    BY <1>3, <1>4, <1>6, <1>7, <1>9 DEF Fresh
  <2> QED
    BY <1>3, <1>9, <1>10, <2>1 DEF HandsInv, HandsOK
<1>13. Exclusive'
  BY <1>3, <1>4, <1>9 DEF HandsInv, Exclusive
<1>14. Held'
  <2> SUFFICES ASSUME NEW i \in DOMAIN reservations'
               PROVE  \/ poll'.id = i
                      \/ \E j \in DOMAIN intents' : intents'[j][1] = i
                      \/ \E v \in Workers : Spawn(v)' = i
                      \/ InDebt(i)' /\ ForcedMain'
    BY DEF Held
  <2>1. CASE i = id
    BY <2>1, <1>4
  <2>2. CASE i # id
    <3>1. i \in DOMAIN reservations /\ (InDebt(i)' <=> InDebt(i)) /\ i # NoSpawn
      BY <1>7, <2>2, PoolAssumption DEF Keeps, InDebt, HandsInv, HandsIssued, ProcTyped
    <3> QED
      BY <1>3, <1>8, <1>9, <3>1 DEF HandsInv, Held
  <2> QED
    BY <2>1, <2>2
<1>15. HandsIssued'
  BY <1>3, <1>4, <1>7, <1>9 DEF HandsInv, HandsIssued
<1>16. DrainOK' /\ ResourcesCharged'
  BY <1>3, <1>4, <1>7 DEF HandsInv, DrainOK, ResourcesCharged, AllWorkersStopped
<1>17. StateNext
  BY <1>2, <1>3 DEF StateNext, Operation
<1> QED
  BY <1>11, <1>12, <1>13, <1>14, <1>15, <1>16, <1>17 DEF HandsInv

\* The spawn passes from the poller's hands into the channel.
LEMMA SendInv ==
    ASSUME HandsInv, Send
    PROVE  HandsInv' /\ UNCHANGED stateVars
<1>1. poll \in PollState
  BY DEF HandsInv, ProcTyped, PollState
<1>2. CurRepo \in Repos
  BY <1>1, CurRepoOK DEF PollState
<1>3. PICK id \in SpawnIDs \cup {NoSpawn}, repo \in Repos : id = poll.id /\ repo = CurRepo
  BY <1>1, <1>2 DEF PollState
<1>4. /\ poll.pc = "send" /\ intents' = Append(intents, <<id, repo>>)
      /\ UNCHANGED <<stateVars, worldVars>> /\ closed' = closed /\ worker' = worker
      /\ main' = main /\ issued' = issued
      /\ poll' = [poll EXCEPT !.pc = "reserve", !.id = NoSpawn]
  BY <1>3 DEF Send, PollAt
<1>5. poll' \in PollState /\ poll'.pc = "reserve" /\ poll'.id = NoSpawn
  BY <1>1, <1>4 DEF PollState, PollPCs
<1>6. /\ lost' = lost /\ strays' = strays /\ stacks' = stacks /\ runners' = runners
      /\ reservations' = reservations
      /\ \A i, r : Fresh(i, r)' <=> Fresh(i, r)
      /\ ForcedMain' <=> ForcedMain
      /\ \A i : InDebt(i)' <=> InDebt(i)
  BY <1>4, QuietFacts DEF stateVars, ForcedMain
<1>7. Fresh(id, repo) /\ id \in SpawnIDs /\ id # NoSpawn /\ id \in issued
  BY <1>3, <1>4, PoolAssumption DEF HandsInv, HandsOK, HandsIssued, Fresh
<1>8. /\ Len(intents) \in Nat /\ DOMAIN intents = 1 .. Len(intents)
      /\ intents' \in Seq(SpawnIDs \X Repos)
      /\ DOMAIN intents' = DOMAIN intents \cup {Len(intents) + 1}
      /\ \A i \in DOMAIN intents : intents'[i] = intents[i] /\ i # Len(intents) + 1
      /\ intents'[Len(intents) + 1] = <<id, repo>>
  BY <1>4, <1>7 DEF HandsInv, ProcTyped
<1>9. /\ \A i \in DOMAIN intents : intents[i][1] # id /\ intents[i][1] # NoSpawn
      /\ \A v \in Workers : Spawn(v) # id /\ Spawn(v)' = Spawn(v)
  BY <1>3, <1>4, <1>7, PoolAssumption DEF HandsInv, Exclusive, ProcTyped, Spawn
<1>10. ProcTyped'
  BY <1>4, <1>5, <1>6, <1>8 DEF HandsInv, ProcTyped, PollState
<1>11. HandsOK'
  <2>1. (\A i \in DOMAIN intents : Fresh(intents[i][1], intents[i][2]))'
    <3> SUFFICES ASSUME NEW i \in DOMAIN intents'
                 PROVE  Fresh(intents[i][1], intents[i][2])'
      OBVIOUS
    <3>1. PICK a, r : a = intents'[i][1] /\ r = intents'[i][2]
      OBVIOUS
    <3>2. Fresh(a, r)
      BY <3>1, <1>7, <1>8 DEF HandsInv, HandsOK
    <3> QED
      BY <3>1, <3>2, <1>6
  <2>2. \A v \in Workers : WorkerOK(v)' <=> WorkerOK(v)
    BY <1>4, <1>6 DEF WorkerOK, HasReservation
  <2> QED
    BY <1>5, <2>1, <2>2 DEF HandsInv, HandsOK
<1>12. Exclusive'
  BY <1>5, <1>7, <1>8, <1>9 DEF HandsInv, Exclusive
<1>13. Held'
  <2> SUFFICES ASSUME NEW i \in DOMAIN reservations
               PROVE  \/ poll'.id = i
                      \/ \E j \in DOMAIN intents' : intents'[j][1] = i
                      \/ \E v \in Workers : Spawn(v)' = i
                      \/ InDebt(i)' /\ ForcedMain'
    BY <1>6 DEF Held
  <2>1. CASE poll.id = i
    BY <2>1, <1>3, <1>8
  <2>2. CASE \E j \in DOMAIN intents : intents[j][1] = i
    BY <2>2, <1>8
  <2>3. CASE \/ \E v \in Workers : Spawn(v) = i
             \/ InDebt(i) /\ ForcedMain
    BY <2>3, <1>6, <1>9
  <2> QED
    BY <2>1, <2>2, <2>3 DEF HandsInv, Held
<1>14. HandsIssued'
  BY <1>4, <1>5, <1>6, <1>7, <1>8, <1>9 DEF HandsInv, HandsIssued
<1>15. DrainOK' /\ ResourcesCharged'
  BY <1>4, <1>6 DEF HandsInv, DrainOK, ResourcesCharged, AllWorkersStopped
<1> QED
  BY <1>4, <1>10, <1>11, <1>12, <1>13, <1>14, <1>15 DEF HandsInv

\* A cancelled send gives the reservation back.
LEMMA SendCancelledInv ==
    ASSUME IInv, HandsInv, SendCancelled
    PROVE  HandsInv' /\ StateNext /\ NoGain
<1>1. poll \in PollState
  BY DEF HandsInv, ProcTyped, PollState
<1>2. PICK id : id = poll.id
  OBVIOUS
<1>3. /\ poll.pc = "send" /\ ReleaseReservation(id)
      /\ intents' = intents /\ closed' = closed /\ worker' = worker /\ main' = main
      /\ issued' = issued /\ stacks' = stacks /\ runners' = runners /\ lost' = lost /\ strays' = strays
      /\ poll' = [poll EXCEPT !.pc = "stopped", !.id = NoSpawn]
  BY <1>2 DEF SendCancelled, PollAt, worldVars
<1>4. poll' \in PollState /\ poll'.pc = "stopped" /\ poll'.id = NoSpawn
  BY <1>1, <1>3 DEF PollState, PollPCs
<1>5. Fresh(id, CurRepo) /\ id \in SpawnIDs /\ id # NoSpawn
  BY <1>2, <1>3, PoolAssumption DEF HandsInv, HandsOK, Fresh
<1>6. Keeps(id) /\ NoGain /\ DOMAIN reservations' = DOMAIN reservations \ {id}
  BY <1>3, ReleaseMap
<1>7. Touches(id) /\ (ForcedMain <=> ForcedMain')
  BY <1>3, <1>6 DEF Touches, ForcedMain
<1>8. /\ \A i \in DOMAIN intents : intents[i][1] # id /\ intents[i][1] # NoSpawn
      /\ \A v \in Workers : Spawn(v) # id /\ Spawn(v)' = Spawn(v)
  BY <1>2, <1>3, <1>5, PoolAssumption DEF HandsInv, Exclusive, ProcTyped, Spawn
<1>9. /\ \A i, r : i # id /\ Fresh(i, r) => Fresh(i, r)'
      /\ \A v \in Workers : WorkerOK(v) => WorkerOK(v)'
  BY <1>3, <1>7, <1>8, Untouched
<1>10. ProcTyped'
  BY <1>3, <1>4 DEF HandsInv, ProcTyped, PollState
<1>11. HandsOK'
  BY <1>3, <1>4, <1>8, <1>9 DEF HandsInv, HandsOK
<1>12. Exclusive'
  BY <1>3, <1>4, <1>8 DEF HandsInv, Exclusive
<1>13. Held'
  <2> SUFFICES ASSUME NEW i \in DOMAIN reservations'
               PROVE  \/ poll'.id = i
                      \/ \E j \in DOMAIN intents' : intents'[j][1] = i
                      \/ \E v \in Workers : Spawn(v)' = i
                      \/ InDebt(i)' /\ ForcedMain'
    BY DEF Held
  <2>1. i # id /\ i \in DOMAIN reservations
    BY <1>6
  <2>2. InDebt(i)' <=> InDebt(i)
    BY <2>1, <1>6 DEF Keeps, InDebt
  <2> QED
    BY <1>2, <1>3, <1>7, <1>8, <2>1, <2>2 DEF HandsInv, Held
<1>14. HandsIssued'
  BY <1>3, <1>4, <1>6, <1>8 DEF HandsInv, HandsIssued
<1>15. DrainOK' /\ ResourcesCharged'
  <2>1. id \notin stacks \cup runners
    BY <1>5 DEF Fresh
  <2> QED
    BY <1>3, <1>4, <1>6, <2>1 DEF HandsInv, DrainOK, ResourcesCharged, AllWorkersStopped
<1>16. StateNext
  <2>1. CurRepo \in Repos
    BY <1>1, CurRepoOK DEF PollState
  <2> QED
    BY <1>3, <1>5, <2>1 DEF StateNext, Operation
<1> QED
  BY <1>6, <1>10, <1>11, <1>12, <1>13, <1>14, <1>15, <1>16 DEF HandsInv

\* The main goroutine holds no spawn.
LEMMA MainInv ==
    ASSUME HandsInv, Signal \/ ServerStopped \/ Drain
    PROVE  HandsInv' /\ [StateNext]_stateVars /\ NoGain
<1>1. /\ poll' = poll /\ intents' = intents /\ worker' = worker /\ issued' = issued
      /\ stacks' = stacks /\ runners' = runners /\ lost' = lost /\ strays' = strays
      /\ SetDraining \/ UNCHANGED stateVars
  BY DEF Signal, ServerStopped, Drain, StoreDraining, StopPolling, JoinAndClose,
         WorkersDone, DrainDeadline, GraceElapsed, MainOnly, worldVars
<1>2. reservations' = reservations
  BY <1>1 DEF SetDraining, stateVars
<1>3. main' \in MainPCs /\ (ForcedMain => ForcedMain')
  BY DEF Signal, ServerStopped, Drain, StoreDraining, StopPolling, JoinAndClose,
         WorkersDone, DrainDeadline, GraceElapsed, ForcedMain, MainPCs
<1>4. closed' \in BOOLEAN /\ (closed => closed') /\ (closed' => closed \/ poll.pc = "stopped")
  <2>1. closed' = closed \/ (closed' = TRUE /\ poll.pc = "stopped")
    BY DEF Signal, ServerStopped, Drain, StoreDraining, StopPolling, JoinAndClose,
           WorkersDone, DrainDeadline, GraceElapsed
  <2>2. closed \in BOOLEAN
    BY DEF HandsInv, ProcTyped
  <2>3. CASE closed' = closed
    BY <2>2, <2>3, Zenon
  <2>4. CASE closed' = TRUE /\ poll.pc = "stopped"
    BY <2>4, Zenon
  <2> QED
    BY <2>1, <2>3, <2>4, Zenon
<1>5. main' \in {"drained", "forcedStop"} => AllWorkersStopped
  BY DEF Signal, ServerStopped, Drain, StoreDraining, StopPolling, JoinAndClose,
         WorkersDone, DrainDeadline, GraceElapsed, HandsInv, DrainOK
<1>6. /\ NoGain
      /\ \A i, r : Fresh(i, r)' <=> Fresh(i, r)
      /\ \A i : InDebt(i)' <=> InDebt(i)
      /\ \A v : Spawn(v)' = Spawn(v)
      /\ CurRepo' = CurRepo
  BY <1>1, <1>2 DEF NoGain, Fresh, InDebt, HasReservation, Spawn, CurRepo
<1>7. \A v \in Workers : WorkerOK(v) => WorkerOK(v)'
  BY <1>1, <1>2, <1>3, <1>6 DEF WorkerOK, HasReservation
<1>8. ProcTyped'
  BY <1>1, <1>3, <1>4 DEF HandsInv, ProcTyped
<1>9. HandsOK'
  BY <1>1, <1>6, <1>7 DEF HandsInv, HandsOK
<1>10. Exclusive' /\ Held' /\ HandsIssued'
  BY <1>1, <1>2, <1>3, <1>6 DEF HandsInv, Exclusive, Held, HandsIssued
<1>11. DrainOK' /\ ResourcesCharged'
  BY <1>1, <1>2, <1>4, <1>5 DEF HandsInv, DrainOK, ResourcesCharged, AllWorkersStopped
<1> QED
  BY <1>1, <1>6, <1>8, <1>9, <1>10, <1>11 DEF HandsInv, StateNext

-----------------------------------------------------------------------------
(* The theorems.                                                           *)

LEMMA InitProcInv == Init => ProcInv
<1> SUFFICES ASSUME Init
             PROVE  ProcInv
  OBVIOUS
<1>1. IInv
  BY InitIInv DEF Init
<1>2. DOMAIN reservations = {}
  BY DEF Init, StateInit
<1>3. /\ poll = [pc |-> "idle", next |-> 0, offset |-> 0, queued |-> 0, left |-> 0,
                 id |-> NoSpawn]
      /\ intents = <<>> /\ closed = FALSE /\ main = "running"
      /\ issued = {} /\ stacks = {} /\ runners = {} /\ lost = {} /\ strays = {}
  BY DEF Init
<1>4. /\ worker \in [Workers -> WorkerState]
      /\ \A w \in Workers : worker[w].pc = "recv" /\ worker[w].id = NoSpawn
  <2>1. /\ "recv" \in WorkerPCs /\ FALSE \in BOOLEAN
        /\ NoSpawn \in SpawnIDs \cup {NoSpawn} /\ NoSpawn \in Repos \cup {NoSpawn}
    BY DEF WorkerPCs
  <2>2. /\ IdleWorker \in WorkerState
        /\ IdleWorker.pc = "recv" /\ IdleWorker.id = NoSpawn
    BY <2>1 DEF IdleWorker, WorkerState
  <2> QED
    BY <2>2 DEF Init
<1>5. ProcTyped
  <2>1. "idle" \in PollPCs /\ "running" \in MainPCs /\ 0 \in Nat
        /\ NoSpawn \in SpawnIDs \cup {NoSpawn}
    BY DEF PollPCs, MainPCs
  <2>2. poll \in PollState
    BY <1>3, <2>1 DEF PollState
  <2>3. poll.id = NoSpawn /\ intents \in Seq(SpawnIDs \X Repos)
    BY <1>3
  <2>4. closed \in BOOLEAN
    BY <1>3
  <2>5. main \in MainPCs /\ issued \subseteq SpawnIDs /\ lost \cup strays \subseteq SpawnIDs
    BY <1>3, <2>1
  <2> QED
    BY <1>4, <2>2, <2>3, <2>4, <2>5 DEF ProcTyped
<1>6. HandsOK
  BY <1>3, <1>4 DEF HandsOK, WorkerOK
<1>7. Exclusive /\ Held /\ HandsIssued
  BY <1>2, <1>3, <1>4 DEF Exclusive, Held, HandsIssued, Spawn
<1>8. DrainOK /\ ResourcesCharged
  BY <1>2, <1>3, <1>4 DEF DrainOK, ResourcesCharged
<1>9. AllWithinCaps
  <2>1. \A r : Of(r) = {}
    BY <1>2 DEF Of
  <2>2. Cardinality({}) = 0
    BY FS_EmptySet
  <2>3. \A r \in Repos : RepoCap[r] \in Nat /\ 0 <= RepoCap[r]
    BY CapAssumption
  <2>4. 0 <= GlobalCap
    BY CapAssumption
  <2> QED
    BY <1>2, <2>1, <2>2, <2>3, <2>4 DEF AllWithinCaps
<1> QED
  BY <1>1, <1>5, <1>6, <1>7, <1>8, <1>9 DEF ProcInv

\* Admission compares counters; LedgerExact makes that a bound on the map.
LEMMA CapsReserve ==
    ASSUME IInv, AllWithinCaps, NEW id \in SpawnIDs, NEW repo \in Repos, TryReserve(id, repo)
    PROVE  AllWithinCaps'
<1>1. /\ MapOK /\ LedgerExact /\ id \notin DOMAIN reservations
      /\ Charge(id, repo, "pending")
      /\ InFlight(repo) < RepoCap[repo] /\ GlobalInFlight < GlobalCap
  BY DEF IInv, TryReserve, CanReserve
<1>2. \A r : Of(r)' = IF r = repo THEN Of(r) \cup {id} ELSE Of(r)
  BY <1>1, ChargeEffect DEF Phases
<1>3. DOMAIN reservations' = DOMAIN reservations \cup {id}
  BY <1>1 DEF Charge
<1>4. /\ Cardinality(Of(repo)) < RepoCap[repo]
      /\ Cardinality(DOMAIN reservations) < GlobalCap
  BY <1>1 DEF LedgerExact, InFlight
<1>5. /\ IsFiniteSet(Of(repo)) /\ IsFiniteSet(DOMAIN reservations)
      /\ Cardinality(Of(repo)) \in Nat /\ Cardinality(DOMAIN reservations) \in Nat
      /\ RepoCap[repo] \in Nat /\ GlobalCap \in Nat
  BY <1>1, SetsFinite, CapAssumption DEF MapOK
<1>6. id \notin Of(repo)
  BY <1>1 DEF Of
<1>7. /\ Cardinality(Of(repo) \cup {id}) = Cardinality(Of(repo)) + 1
      /\ Cardinality(DOMAIN reservations \cup {id}) = Cardinality(DOMAIN reservations) + 1
  BY <1>1, <1>5, <1>6, FS_AddElement
<1>8. /\ Cardinality(Of(repo) \cup {id}) <= RepoCap[repo]
      /\ Cardinality(DOMAIN reservations \cup {id}) <= GlobalCap
  BY <1>4, <1>5, <1>7
<1> QED
  BY <1>2, <1>3, <1>8 DEF AllWithinCaps

\* One step of the process: at most one operation of the ledger, and the hands
\* and the caps are in order afterwards; only Reserve adds to the map.
LEMMA StepFacts ==
    ASSUME ProcInv, [Next]_vars
    PROVE  /\ HandsInv' /\ [StateNext]_stateVars /\ AllWithinCaps'
           /\ NoGain \/ \E id \in SpawnIDs : Reserve(id)
<1>1. HandsInv /\ IInv /\ TypeOK /\ AllWithinCaps
  BY DEF ProcInv, HandsInv, IInv
<1>2. CASE \E id \in SpawnIDs : Reserve(id)
  <2>1. PICK id \in SpawnIDs : Reserve(id)
    BY <1>2
  <2>2. CurRepo \in Repos /\ TryReserve(id, CurRepo)
    BY <1>1, <2>1, CurRepoOK DEF Reserve, HandsInv, ProcTyped, PollState
  <2> QED
    BY <1>1, <2>1, <2>2, ReserveInv, CapsReserve
<1>3. CASE SendCancelled
  BY <1>1, <1>3, SendCancelledInv, CapsNoGain
<1>4. CASE Send
  <2>1. UNCHANGED stateVars => NoGain
    BY DEF NoGain, stateVars
  <2> QED
    BY <1>1, <1>4, <2>1, SendInv, CapsNoGain
<1>5. CASE \/ Tick \/ SkipRepo \/ ReadRepoAvail \/ ReadGlobalAvail \/ ReadCoverage
           \/ EndRepo \/ PollStop
           \/ \E n \in 0 .. MaxQueued : EligibleQueuedJobs(n)
  <2>1. HandsInv' /\ UNCHANGED stateVars
    BY <1>1, <1>5, PollQuietActs
  <2>2. NoGain
    BY <2>1 DEF NoGain, stateVars
  <2> QED
    BY <1>1, <2>1, <2>2, CapsNoGain
<1>6. CASE \E w \in Workers : WorkerStep(w)
  <2>1. PICK w \in Workers : WorkerStep(w)
    BY <1>6
  <2>2. CASE Receive(w)
    BY <1>1, <2>2, ReceiveInv, CapsNoGain
  <2>3. CASE ~Receive(w)
    <3>1. OwnStep(w) /\ [StateNext]_stateVars
      BY <1>1, <2>1, <2>3, QuietActs, WorldActs, LedgerActs, ExitAct DEF WorkerStep
    <3>2. NoGain
      BY <3>1 DEF OwnStep
    <3> QED
      BY <1>1, <3>1, <3>2, OwnStepInv, CapsNoGain
  <2> QED
    BY <2>2, <2>3
<1>7. CASE Signal \/ ServerStopped \/ Drain
  BY <1>1, <1>7, MainInv, CapsNoGain
<1>8. CASE UNCHANGED vars
  <2>1. /\ UNCHANGED <<stateVars, worldVars>> /\ poll' = poll /\ intents' = intents
        /\ closed' = closed /\ worker' = worker /\ main' = main /\ issued' = issued
    BY <1>8 DEF vars, procVars
  <2>2. /\ reservations' = reservations /\ stacks' = stacks /\ runners' = runners
        /\ lost' = lost /\ strays' = strays
    BY <2>1 DEF stateVars, worldVars
  <2>3. NoGain
    BY <2>2 DEF NoGain
  <2>4. HandsInv'
    <3>1. /\ \A i, r : Fresh(i, r)' <=> Fresh(i, r)
          /\ \A i : InDebt(i)' <=> InDebt(i)
          /\ \A v : Spawn(v)' = Spawn(v)
          /\ CurRepo' = CurRepo /\ (ForcedMain' <=> ForcedMain)
      BY <2>1, <2>2 DEF Fresh, InDebt, HasReservation, Spawn, CurRepo, ForcedMain
    <3>2. \A v \in Workers : WorkerOK(v) => WorkerOK(v)'
      BY <2>1, <2>2, <3>1 DEF WorkerOK, HasReservation
    <3>3. HandsOK'
      BY <1>1, <2>1, <3>1, <3>2 DEF HandsInv, HandsOK
    <3>4. ProcTyped' /\ Exclusive' /\ Held' /\ HandsIssued'
      BY <1>1, <2>1, <2>2, <3>1 DEF HandsInv, ProcTyped, Exclusive, Held, HandsIssued
    <3>5. DrainOK' /\ ResourcesCharged'
      BY <1>1, <2>1, <2>2 DEF HandsInv, DrainOK, ResourcesCharged, AllWorkersStopped
    <3> QED
      BY <3>3, <3>4, <3>5 DEF HandsInv
  <2> QED
    BY <1>1, <2>1, <2>3, <2>4, CapsNoGain
<1> QED
  BY <1>2, <1>3, <1>4, <1>5, <1>6, <1>7, <1>8 DEF Next, PollStep, Exited

\* The inductive invariant of the process.
THEOREM ProcInductive == Spec => []ProcInv
<1>1. ProcInv /\ [Next]_vars => ProcInv'
  BY StepFacts, NextIInv DEF ProcInv, HandsInv
<1> QED
  BY <1>1, InitProcInv, PTL DEF Spec

\* Everything the process does to the ledger is a ledger operation with proper
\* arguments, at most one per step: what StateProofs shows of any caller (exact
\* counters, the barrier, the refinement of CapacityLedger) holds of the process.
THEOREM LedgerUsed == Spec => UsesLedger
<1>1. Init => StateInit
  BY DEF Init
<1>2. ProcInv /\ [Next]_vars => [StateNext]_stateVars
  BY StepFacts
<1> QED
  BY <1>1, <1>2, ProcInductive, PTL DEF Spec, UsesLedger, StateSpec

\* The goroutines' variables have their types.
THEOREM ProcTypeCorrect == Spec => []ProcTypeOK
<1>1. ProcInv => ProcTypeOK
  <2> SUFFICES ASSUME ProcInv
               PROVE  ProcTypeOK
    OBVIOUS
  <2>1. TypeOK /\ ProcTyped
    BY DEF ProcInv, IInv
  <2>2. stacks \subseteq SpawnIDs /\ runners \subseteq SpawnIDs
    BY <2>1 DEF ProcInv, ResourcesCharged, TypeOK
  <2>3. {issued, stacks, strays, runners, lost} \subseteq SUBSET SpawnIDs
    BY <2>1, <2>2 DEF ProcTyped
  <2> QED
    BY <2>1, <2>3 DEF ProcTypeOK, ProcTyped, PollState
<1> QED
  BY <1>1, ProcInductive, PTL

\* Failed spawns, failed cleanups and forced stops never free the capacity of
\* what a handle names or of a runner whose identity was answered.
THEOREM Charged == Spec => []ResourcesCharged
<1>1. ProcInv => ResourcesCharged
  BY DEF ProcInv
<1> QED
  BY <1>1, ProcInductive, PTL

\* So what runs stays within max_concurrent and global_max_runners.
THEOREM LiveCaps == Spec => []LiveWithinCaps
<1>1. ProcInv => LiveWithinCaps
  <2> SUFFICES ASSUME ProcInv
               PROVE  LiveWithinCaps
    OBVIOUS
  <2> DEFINE live == stacks \cup runners
  <2>1. MapOK /\ AllWithinCaps /\ live \subseteq DOMAIN reservations
    BY DEF ProcInv, IInv, ResourcesCharged
  <2>2. ASSUME NEW S, IsFiniteSet(S), NEW T \in SUBSET S, NEW c \in Nat, Cardinality(S) <= c
        PROVE  Cardinality(T) <= c
    <3>1. Cardinality(T) \in Nat /\ Cardinality(S) \in Nat /\ Cardinality(T) <= Cardinality(S)
      BY <2>2, FS_Subset, FS_CardinalityType
    <3> QED
      BY <3>1, <2>2
  <2>3. \A r : IsFiniteSet(Of(r))
    BY <2>1, SetsFinite
  <2>4. IsFiniteSet(DOMAIN reservations)
    BY <2>1 DEF MapOK
  <2>5. Cardinality(live) <= GlobalCap
    BY <2>1, <2>2, <2>4, CapAssumption DEF AllWithinCaps
  <2>6. \A r \in Repos : Cardinality(live \cap Of(r)) <= RepoCap[r]
    <3> TAKE r \in Repos
    <3>1. Cardinality(Of(r)) <= RepoCap[r] /\ RepoCap[r] \in Nat
      BY <2>1, CapAssumption DEF AllWithinCaps
    <3>2. live \cap Of(r) \in SUBSET Of(r)
      OBVIOUS
    <3> QED
      BY <2>2, <2>3, <3>1, <3>2
  <2> QED
    BY <2>5, <2>6 DEF LiveWithinCaps
<1> QED
  BY <1>1, ProcInductive, PTL

\* The channel is closed after its only sender has left.
THEOREM CloseAfterSender == Spec => []NoSendOnClosed
<1>1. ProcInv => NoSendOnClosed
  BY DEF ProcInv, DrainOK, NoSendOnClosed
<1> QED
  BY <1>1, ProcInductive, PTL

\* A reservation is in one pair of hands, or is debt left by a forced stop.
THEOREM Owned == Spec => []ReservationOwned
<1>1. ProcInv => ReservationOwned
  <2> SUFFICES ASSUME ProcInv
               PROVE  ReservationOwned
    OBVIOUS
  <2>1. HandsOK /\ Exclusive /\ Held /\ ProcTyped /\ HandsIssued
    BY DEF ProcInv
  <2>2. ASSUME NEW id \in DOMAIN reservations
        PROVE  \/ Holders(id) = 1
               \/ Holders(id) = 0 /\ id \in Debt /\ main \in {"forced", "forcedStop", "abandoned"}
    <3> DEFINE A == {i \in DOMAIN intents : intents[i][1] = id}
               B == {w \in Workers : worker[w].id = id}
               n == IF poll.pc = "send" /\ poll.id = id THEN 1 ELSE 0
    <3>1. id \in SpawnIDs /\ id # NoSpawn
      BY <2>1, PoolAssumption DEF HandsIssued, ProcTyped
    <3>2. poll.id = id => poll.pc = "send"
      BY <2>1, <3>1 DEF ProcTyped
    <3>3. Cardinality({}) = 0 /\ \A x : Cardinality({x}) = 1
      BY FS_EmptySet, FS_Singleton
    <3>4. Holders(id) = n + Cardinality(A) + Cardinality(B)
      BY DEF Holders
    <3>5. CASE poll.id = id
      <4>1. n = 1 /\ A = {} /\ B = {}
        BY <2>1, <3>1, <3>2, <3>5 DEF Exclusive, Spawn
      <4> HIDE DEF A, B, n
      <4> QED
        BY <3>3, <3>4, <4>1
    <3>6. CASE poll.id # id /\ \E i \in DOMAIN intents : intents[i][1] = id
      <4>1. PICK i \in DOMAIN intents : intents[i][1] = id
        BY <3>6
      <4>2. n = 0 /\ A = {i} /\ B = {}
        BY <2>1, <3>1, <3>6, <4>1 DEF Exclusive, Spawn
      <4> HIDE DEF A, B, n
      <4>3. Cardinality({i}) = 1 /\ Cardinality({}) = 0
        BY <3>3
      <4>4. Cardinality(A) = 1 /\ Cardinality(B) = 0
        BY <4>2, <4>3
      <4> QED
        BY <3>4, <4>2, <4>4
    <3>7. CASE /\ poll.id # id /\ ~\E i \in DOMAIN intents : intents[i][1] = id
               /\ \E w \in Workers : Spawn(w) = id
      <4>1. PICK w \in Workers : worker[w].id = id
        BY <3>7 DEF Spawn
      <4>2. n = 0 /\ A = {} /\ B = {w}
        BY <2>1, <3>1, <3>7, <4>1 DEF Exclusive, Spawn
      <4> HIDE DEF A, B, n
      <4>3. Cardinality(A) = 0 /\ Cardinality(B) = 1
        BY <3>3, <4>2
      <4> QED
        BY <3>4, <4>2, <4>3
    <3>8. CASE /\ poll.id # id /\ ~\E i \in DOMAIN intents : intents[i][1] = id
               /\ ~\E w \in Workers : Spawn(w) = id
      <4>1. n = 0 /\ A = {} /\ B = {}
        BY <3>8 DEF Spawn
      <4>2. InDebt(id) /\ ForcedMain
        BY <2>1, <3>8 DEF Held
      <4> HIDE DEF A, B, n
      <4> QED
        BY <3>3, <3>4, <4>1, <4>2 DEF InDebt, ForcedMain, Debt
    <3> QED
      BY <3>5, <3>6, <3>7, <3>8
  <2>3. \A i \in DOMAIN intents : HasReservation(intents[i][1], intents[i][2])
    BY <2>1 DEF HandsOK, Fresh
  <2>4. \A w \in Workers : worker[w].pc \notin {"recv", "finish", "stopped"} =>
                               HasReservation(worker[w].id, worker[w].repo)
    BY <2>1 DEF HandsOK, WorkerOK
  <2> QED
    BY <2>2, <2>3, <2>4 DEF ReservationOwned
<1> QED
  BY <1>1, ProcInductive, PTL

\* Of all that the process has an identifier of, a drain in time leaves nothing
\* and a forced stop only recorded debt.
THEOREM DrainClean == Spec => []DrainLeavesOnlyDebt
<1> DEFINE Ended == main \in {"drained", "forcedStop"}
<1>1. ProcInv => DrainLeavesOnlyDebt
  <2> SUFFICES ASSUME ProcInv, Ended
               PROVE  /\ intents = <<>>
                      /\ DOMAIN reservations = Debt
                      /\ stacks \cup runners \subseteq Debt
                      /\ main = "drained" => Debt = {}
    BY DEF DrainLeavesOnlyDebt
  <2>1. /\ HandsOK /\ Held /\ ProcTyped /\ DrainOK /\ ResourcesCharged /\ HandsIssued
    BY DEF ProcInv
  <2>2. PICK w \in Workers : TRUE
    <3>1. Workers # {}
      BY FS_EmptySet, PoolAssumption
    <3> QED
      BY <3>1
  <2>3. \A v \in Workers : worker[v].pc = "stopped" /\ Spawn(v) = NoSpawn
    BY <2>1 DEF DrainOK, AllWorkersStopped, HandsOK, WorkerOK, Spawn
  <2>4. intents = <<>> /\ poll.id = NoSpawn
    BY <2>1, <2>2, <2>3 DEF DrainOK, ProcTyped
  <2>5. \A id \in DOMAIN reservations : InDebt(id) /\ ForcedMain
    BY <2>1, <2>3, <2>4, PoolAssumption DEF Held, HandsIssued, ProcTyped
  <2>6. DOMAIN reservations = Debt
    BY <2>5 DEF Debt, InDebt
  <2>7. main = "drained" => DOMAIN reservations = {}
    BY <2>5 DEF ForcedMain
  <2> QED
    BY <2>1, <2>4, <2>6, <2>7 DEF ResourcesCharged
<1> QED
  BY <1>1, ProcInductive, PTL

-----------------------------------------------------------------------------
(* The poller and the pool.                                                *)

\* Different spawns in different hands of the pool: as many hands as spawns.
LEMMA HandsBounded ==
    ASSUME ProcInv, poll.pc = "send"
    PROVE  /\ IsFiniteSet({w \in Workers : Spawn(w) \in DOMAIN reservations})
           /\ Cardinality({w \in Workers : Spawn(w) \in DOMAIN reservations}) + Len(intents) + 1
                 <= Cardinality(DOMAIN reservations)
<1> DEFINE R == DOMAIN reservations
           Busy == {w \in Workers : Spawn(w) \in R}
           n == Len(intents)
           I == {intents[i][1] : i \in 1 .. n}
           J == I \cup {poll.id}
<1>1. /\ ProcTyped /\ HandsOK /\ Exclusive /\ IsFiniteSet(R) /\ Cardinality(R) \in Nat
  <2>1. ProcTyped /\ HandsOK /\ Exclusive /\ IsFiniteSet(R)
    BY DEF ProcInv, IInv, TypeOK
  <2> QED BY <2>1, FS_CardinalityType
<1>2. n \in Nat /\ DOMAIN intents = 1 .. n
  BY <1>1 DEF ProcTyped
<1>3. J \subseteq R /\ poll.id \notin I
  BY <1>1, <1>2 DEF HandsOK, Fresh, HasReservation, Exclusive
<1>4. IsFiniteSet(I) /\ Cardinality(I) = n
  <2> DEFINE f == [i \in 1 .. n |-> intents[i][1]]
  <2>1. IsFiniteSet(1 .. n) /\ Cardinality(1 .. n) = n
    <3> HIDE DEF n
    <3>1. 1 \in Int /\ n \in Int
      BY <1>2
    <3>2. IsFiniteSet(1 .. n) /\ Cardinality(1 .. n) = IF 1 > n THEN 0 ELSE n - 1 + 1
      BY <3>1, FS_Interval
    <3> QED BY <1>2, <3>2
  <2>2. f \in Surjection(1 .. n, I)
    BY DEF Surjection
  <2>3. f \in Injection(1 .. n, I)
    <3>1. \A i, j \in 1 .. n : f[i] = f[j] => i = j
      BY <1>1, <1>2 DEF Exclusive
    <3> QED BY <3>1 DEF Injection, IsInjective
  <2> QED BY <2>1, <2>2, <2>3, FS_Surjection
<1>5. IsFiniteSet(J) /\ Cardinality(J) = n + 1
  BY <1>3, <1>4, FS_AddElement
<1>6. IsFiniteSet(R \ J) /\ Cardinality(R \ J) \in Nat /\ Cardinality(R) = Cardinality(R \ J) + Cardinality(J)
  <2>1. IsFiniteSet(R \ J)
    BY <1>1, FS_Subset
  <2>2. Cardinality(R \ J) \in Nat /\ Cardinality(J) \in Nat
    BY <1>5, <2>1, FS_CardinalityType
  <2>3. R = (R \ J) \cup J /\ (R \ J) \cap J = {}
    BY <1>3
  <2> HIDE DEF R, J
  <2>4. Cardinality((R \ J) \cup J) = Cardinality(R \ J) + Cardinality(J) - Cardinality((R \ J) \cap J)
    BY <1>5, <2>1, FS_Union
  <2>5. Cardinality((R \ J) \cap J) = 0
    BY <2>3, FS_EmptySet
  <2>6. Cardinality(R) = Cardinality((R \ J) \cup J)
    BY <2>3
  <2> QED BY <2>1, <2>2, <2>4, <2>5, <2>6
<1>7. IsFiniteSet(Busy) /\ Cardinality(Busy) <= Cardinality(R \ J)
  <2> DEFINE g == [w \in Busy |-> Spawn(w)]
  <2>1. \A w \in Busy : Spawn(w) \in R \ J
    <3>1. \A w \in Workers : /\ Spawn(w) = NoSpawn \/ Spawn(w) # poll.id
                             /\ \A i \in 1 .. n : Spawn(w) # intents[i][1]
      BY <1>1, <1>2 DEF Exclusive
    <3>2. NoSpawn \notin R
      BY PoolAssumption DEF ProcInv, IInv, TypeOK
    <3> QED BY <3>1, <3>2
  <2>2. \A v, w \in Busy : Spawn(v) = Spawn(w) => v = w
    <3>1. NoSpawn \notin R
      BY PoolAssumption DEF ProcInv, IInv, TypeOK
    <3> QED BY <1>1, <3>1 DEF Exclusive
  <2> HIDE DEF Busy, R, J
  <2>3. g \in Injection(Busy, R \ J)
    BY <2>1, <2>2 DEF Injection, IsInjective
  <2> QED BY <1>6, <2>3, FS_Injection
<1>8. Cardinality(Busy) \in Nat
  BY <1>7, FS_CardinalityType
<1> HIDE DEF Busy, R, J
<1>9. Cardinality(Busy) + n + 1 <= Cardinality(R)
  BY <1>2, <1>5, <1>6, <1>7, <1>8
<1> QED BY <1>7, <1>9 DEF Busy, R

\* When the poller sends, there is a worker free of any reservation for each
\* intent in the channel and one for the new one: the pool has a worker per
\* unit of global_max_runners (run.go), and every reservation is in one hand.
THEOREM SendsFindWorkers == Spec => []SendFindsWorker
<1>1. ProcInv => SendFindsWorker
  <2> SUFFICES ASSUME ProcInv, poll.pc = "send"
               PROVE  Len(intents) < Cardinality({w \in Workers : Spawn(w) \notin DOMAIN reservations})
    BY DEF SendFindsWorker
  <2> DEFINE Busy == {w \in Workers : Spawn(w) \in DOMAIN reservations}
             Free == {w \in Workers : Spawn(w) \notin DOMAIN reservations}
  <2>1. /\ IsFiniteSet(Busy)
        /\ Cardinality(Busy) + Len(intents) + 1 <= Cardinality(DOMAIN reservations)
    BY HandsBounded
  <2>2. Cardinality(DOMAIN reservations) <= Cardinality(Workers) /\ IsFiniteSet(Workers)
    BY PoolAssumption DEF ProcInv, AllWithinCaps
  <2>3. IsFiniteSet(DOMAIN reservations) /\ Len(intents) \in Nat
    BY DEF ProcInv, IInv, TypeOK, ProcTyped
  <2>4. Workers = Busy \cup Free /\ Busy \cap Free = {} /\ Free \subseteq Workers
    OBVIOUS
  <2> HIDE DEF Busy, Free
  <2>5. IsFiniteSet(Free)
    BY <2>2, <2>4, FS_Subset
  <2>6. /\ Cardinality(Free) \in Nat /\ Cardinality(Busy) \in Nat /\ Cardinality(Workers) \in Nat
        /\ Cardinality(DOMAIN reservations) \in Nat
    BY <2>1, <2>2, <2>3, <2>5, FS_CardinalityType
  <2>7. Cardinality(Busy \cup Free) = Cardinality(Busy) + Cardinality(Free) - Cardinality(Busy \cap Free)
    BY <2>1, <2>5, FS_Union
  <2>8. Cardinality(Busy \cap Free) = 0
    BY <2>4, FS_EmptySet
  <2>9. Cardinality(Workers) = Cardinality(Busy) + Cardinality(Free)
    BY <2>4, <2>6, <2>7, <2>8
  <2>10. Len(intents) < Cardinality(Free)
    BY <2>1, <2>2, <2>3, <2>6, <2>9
  <2> QED BY <2>10 DEF Free
<1> QED BY <1>1, ProcInductive, PTL

-----------------------------------------------------------------------------
(* The poller and the demand.                                              *)

\* What a tick has left to reserve, with what covers the repository already,
\* is within the demand it has read; CoverageWithinDemand says so while it
\* reserves, but a send in between must keep the rest of the tick's share.
DemandOK ==
    poll.pc = "send" \/ (poll.pc = "reserve" /\ poll.left > 0) =>
        Cardinality(Covering(CurRepo)) + poll.left <= poll.queued

\* The coverage that is read is the number of covering reservations.
LEMMA CoverageExact ==
    ASSUME IInv, NEW repo \in Repos
    PROVE  /\ IsFiniteSet(Covering(repo)) /\ Cardinality(Covering(repo)) \in Nat
           /\ DemandCoverage(repo) = Cardinality(Covering(repo))
<1> DEFINE P == InPhase(repo, "pending")
           O == InPhase(repo, "online")
<1>1. perRepo[repo]["pending"] = Cardinality(P) /\ perRepo[repo]["online"] = Cardinality(O)
  BY DEF IInv, LedgerExact, Phases
<1>2. IsFiniteSet(P) /\ IsFiniteSet(O)
  <2>1. IsFiniteSet(DOMAIN reservations)
    BY DEF IInv, TypeOK
  <2>2. P \subseteq DOMAIN reservations /\ O \subseteq DOMAIN reservations
    BY DEF InPhase, Of
  <2> QED BY <2>1, <2>2, FS_Subset
<1>3. P \cap O = {}
  BY DEF InPhase
<1> HIDE DEF P, O
<1>4. Cardinality(P) \in Nat /\ Cardinality(O) \in Nat /\ Cardinality(P \cap O) = 0
  BY <1>2, <1>3, FS_CardinalityType, FS_EmptySet
<1>5. IsFiniteSet(P \cup O) /\ Cardinality(P \cup O) = Cardinality(P) + Cardinality(O) - Cardinality(P \cap O)
  BY <1>2, FS_Union
<1>6. Cardinality(P \cup O) = Cardinality(P) + Cardinality(O)
  BY <1>4, <1>5
<1>7. Cardinality(P) + Cardinality(O) \in Nat
  BY <1>4
<1>8. Covering(repo) = P \cup O
  BY DEF Covering, P, O
<1> QED BY <1>1, <1>5, <1>6, <1>7, <1>8 DEF DemandCoverage

\* No operation but TryReserve makes a reservation cover demand anew: a phase
\* once left is not entered again.
LEMMA NoNewCoverage ==
    ASSUME TypeOK, [StateNext]_stateVars, NoGain, NEW repo
    PROVE  Covering(repo)' \subseteq Covering(repo)
<1> DEFINE Open == {"pending", "online"}
<1>1. \A i : i \in Covering(repo) <=>
         i \in DOMAIN reservations /\ reservations[i].repo = repo /\ reservations[i].phase \in Open
  BY DEF Covering, InPhase, Of
<1>2. \A i : i \in Covering(repo)' <=>
         i \in DOMAIN reservations' /\ reservations'[i].repo = repo /\ reservations'[i].phase \in Open
  BY DEF Covering, InPhase, Of
<1>3. ASSUME NEW i \in DOMAIN reservations', reservations'[i].phase \in Open
      PROVE  reservations[i].phase \in Open
  <2>0. i \in DOMAIN reservations /\ reservations[i] \in SpawnState
    BY DEF NoGain, TypeOK
  <2>1. ASSUME NEW id \in SpawnIDs, NEW r \in Repos, Operation(id, r)
        PROVE  reservations[i].phase \in Open
    <3>1. ~TryReserve(id, r)
      BY DEF NoGain, TryReserve, CanReserve, Charge
    <3>2. CASE RecordJIT(id)
      BY <1>3, <2>0, <3>2 DEF RecordJIT, TypeOK, SpawnState
    <3>3. CASE MarkOnline(id) \/ MarkAssigned(id)
      BY <1>3, <2>0, <3>3 DEF MarkOnline, MarkAssigned, MovePhase, TypeOK, SpawnState
    <3>4. CASE MarkTeardownBlocked(id, r)
      <4>1. id \in DOMAIN reservations /\ MovePhase(id, "teardown_blocked")
        BY <3>4 DEF NoGain, MarkTeardownBlocked, Charge
      <4> QED BY <1>3, <2>0, <4>1 DEF MovePhase, TypeOK, SpawnState
    <3>5. CASE ResolveTeardown(id) \/ ReleaseReservation(id)
      BY <1>3, <2>0, <3>5 DEF ResolveTeardown, ReleaseReservation, releaseReservationLocked
    <3> QED BY <2>1, <3>1, <3>2, <3>3, <3>4, <3>5 DEF Operation
  <2>2. CASE reservations' = reservations
    BY <1>3, <2>2
  <2> QED BY <2>1, <2>2 DEF StateNext, SetDraining, stateVars
<1>4. \A i \in DOMAIN reservations' : i \in DOMAIN reservations /\ reservations'[i].repo = reservations[i].repo
  BY DEF NoGain
<1> QED BY <1>1, <1>2, <1>3, <1>4

\* A reservation in one phase covers one more queued job.
LEMMA ReserveCovers ==
    ASSUME TypeOK, NEW id \in SpawnIDs, NEW repo \in Repos, TryReserve(id, repo)
    PROVE  Covering(repo)' = Covering(repo) \cup {id} /\ id \notin Covering(repo)
<1>1. /\ id \notin DOMAIN reservations
      /\ reservations' = [i \in DOMAIN reservations \cup {id} |->
                            IF i = id THEN [repo |-> repo, phase |-> "pending", jit |-> FALSE]
                                      ELSE reservations[i]]
  BY DEF TryReserve, CanReserve, Charge
<1>2. /\ DOMAIN reservations' = DOMAIN reservations \cup {id}
      /\ reservations'[id].repo = repo /\ reservations'[id].phase = "pending"
      /\ \A i \in DOMAIN reservations : reservations'[i] = reservations[i]
  BY <1>1
<1> QED BY <1>1, <1>2 DEF Covering, InPhase, Of

LEMMA DemandStep == ProcInv /\ DemandOK /\ [Next]_vars => DemandOK'
<1> SUFFICES ASSUME ProcInv, DemandOK, [Next]_vars PROVE DemandOK'
  OBVIOUS
<1>0. /\ IInv /\ TypeOK /\ poll \in PollState /\ [StateNext]_stateVars
      /\ NoGain \/ \E id \in SpawnIDs : Reserve(id)
  BY StepFacts DEF ProcInv, IInv, ProcTyped
<1>1. /\ poll.left \in Nat /\ poll.queued \in Nat /\ poll.next \in Nat /\ poll.offset \in Nat
      /\ CurRepo \in Repos
  <2>1. poll.left \in Nat /\ poll.queued \in Nat /\ poll.next \in Nat /\ poll.offset \in Nat
    BY <1>0 DEF PollState
  <2> QED BY <2>1, CurRepoOK
<1>2. IsFiniteSet(Covering(CurRepo)) /\ Cardinality(Covering(CurRepo)) \in Nat
  BY <1>0, <1>1, CoverageExact
<1>a. ASSUME NEW id \in SpawnIDs, Reserve(id) PROVE poll' # poll
  <2>1. poll'.pc = "send" /\ poll.pc = "reserve"
    BY <1>0, <1>a DEF Reserve, PollAt, PollState
  <2> QED BY <2>1
<1>3. CASE poll' = poll /\ NoGain
  <2>1. CurRepo' = CurRepo
    BY <1>3 DEF CurRepo
  <2>2. Covering(CurRepo)' \subseteq Covering(CurRepo)
    <3>1. \A repo : Covering(repo)' \subseteq Covering(repo)
      BY <1>0, <1>3, NoNewCoverage
    <3>2. Covering(CurRepo)' = {id \in DOMAIN reservations' :
                                   reservations'[id].repo = CurRepo' /\ reservations'[id].phase \in {"pending", "online"}}
      BY DEF Covering, InPhase, Of
    <3> QED BY <2>1, <3>1, <3>2 DEF Covering, InPhase, Of
  <2>3. Cardinality(Covering(CurRepo)') \in Nat /\ Cardinality(Covering(CurRepo)') <= Cardinality(Covering(CurRepo))
    BY <1>2, <2>2, FS_Subset, FS_CardinalityType
  <2> QED BY <1>1, <1>2, <1>3, <2>3 DEF DemandOK
<1>4. CASE PollStep
  <2>1. CASE \/ Tick \/ SkipRepo \/ ReadRepoAvail \/ ReadGlobalAvail \/ EndRepo \/ SendCancelled \/ PollStop
             \/ \E n \in 0 .. MaxQueued : EligibleQueuedJobs(n)
    <3>1. poll'.pc \in {"visit", "idle", "repoAvail", "globalAvail", "coverage", "stopped"}
      BY <1>0, <2>1 DEF Tick, SkipRepo, ReadRepoAvail, ReadGlobalAvail, EndRepo, SendCancelled, PollStop,
          EligibleQueuedJobs, NextRepo, PollState
    <3> QED BY <3>1 DEF DemandOK
  <2>2. CASE ReadCoverage
    <3> DEFINE c == Cardinality(Covering(CurRepo))
    <3>1. /\ reservations' = reservations /\ poll'.pc = "reserve" /\ poll'.queued = poll.queued
          /\ poll'.left = MinOf(Monus(poll.queued, DemandCoverage(CurRepo)), poll.left)
          /\ poll'.next = poll.next /\ poll'.offset = poll.offset
      BY <1>0, <2>2 DEF ReadCoverage, PollOnly, stateVars, PollState
    <3>2. DemandCoverage(CurRepo) = c
      BY <1>0, <1>1, CoverageExact
    <3>3. CurRepo' = CurRepo /\ Covering(CurRepo)' = Covering(CurRepo)
      BY <3>1 DEF CurRepo, Covering, InPhase, Of
    <3> HIDE DEF c
    <3>4. c \in Nat
      BY <1>2 DEF c
    <3>5. poll'.left > 0 => c + poll'.left <= poll'.queued
      BY <1>1, <3>1, <3>2, <3>4 DEF MinOf, Monus
    <3> QED BY <3>1, <3>3, <3>5 DEF DemandOK, c
  <2>3. CASE \E id \in SpawnIDs : Reserve(id)
    <3>1. PICK id \in SpawnIDs : Reserve(id)
      BY <2>3
    <3>2. /\ TryReserve(id, CurRepo) /\ poll.pc = "reserve" /\ poll.left > 0
          /\ poll'.left = poll.left - 1 /\ poll'.queued = poll.queued
          /\ poll'.next = poll.next /\ poll'.offset = poll.offset
      BY <1>0, <3>1 DEF Reserve, PollAt, PollState
    <3>3. CurRepo' = CurRepo
      BY <3>2 DEF CurRepo
    <3>4. /\ Covering(CurRepo)' = Covering(CurRepo) \cup {id} /\ id \notin Covering(CurRepo)
      <4>1. ASSUME NEW repo \in Repos, TryReserve(id, repo)
            PROVE  Covering(repo)' = Covering(repo) \cup {id} /\ id \notin Covering(repo)
        BY <1>0, <4>1, ReserveCovers
      <4>2. ASSUME NEW repo, repo = CurRepo'
            PROVE  Covering(CurRepo)' = Covering(repo)'
        BY <4>2 DEF Covering, InPhase, Of
      <4> QED BY <1>1, <3>2, <3>3, <4>1, <4>2
    <3>5. Cardinality(Covering(CurRepo)') = Cardinality(Covering(CurRepo)) + 1
      BY <1>2, <3>4, FS_AddElement
    <3>6. Cardinality(Covering(CurRepo)) + poll.left <= poll.queued
      BY <3>2 DEF DemandOK
    <3> QED BY <1>1, <1>2, <3>2, <3>5, <3>6 DEF DemandOK
  <2>4. CASE Send
    <3>1. /\ reservations' = reservations /\ poll.pc = "send" /\ poll'.left = poll.left /\ poll'.queued = poll.queued
          /\ poll'.next = poll.next /\ poll'.offset = poll.offset
      BY <1>0, <2>4 DEF Send, PollAt, stateVars, PollState
    <3>2. CurRepo' = CurRepo /\ Covering(CurRepo)' = Covering(CurRepo)
      BY <3>1 DEF CurRepo, Covering, InPhase, Of
    <3> QED BY <3>1, <3>2 DEF DemandOK
  <2> QED BY <1>4, <2>1, <2>2, <2>3, <2>4 DEF PollStep
<1>5. CASE \E w \in Workers : WorkerStep(w)
  <2>1. poll' = poll
    BY <1>5 DEF WorkerStep, Receive, WorkerExit, Discard, Begin, Refuse, Proceed, AcquireJIT, FailJIT, Render,
        BackendSpawn, BlockPartialSpawn, ObserveOnline, ObserveAssigned, LifecycleEnds, Teardown, Deregister,
        Settle, RetryTeardownOK, RetryTeardownFailed, RetryDeletionOK, RetryDeletionFailed, Resolve, Finish, WorkerOnly
  <2>2. NoGain
    BY <1>0, <1>a, <2>1
  <2> QED BY <1>3, <2>1, <2>2
<1>6. CASE Signal \/ ServerStopped \/ Drain \/ Exited \/ UNCHANGED vars
  <2>1. poll' = poll
    BY <1>6 DEF Signal, ServerStopped, Drain, StoreDraining, StopPolling, JoinAndClose, WorkersDone, DrainDeadline,
        GraceElapsed, Exited, MainOnly, vars, procVars
  <2>2. NoGain
    BY <1>0, <1>a, <2>1
  <2> QED BY <1>3, <2>1, <2>2
<1> QED BY <1>4, <1>5, <1>6 DEF Next

\* A tick never promises a repository more runners than GitHub reported queued
\* jobs, although it reads the coverage once and workers register, assign and
\* release runners while it reserves and sends (tick, uncoveredDemand): what
\* covers the demand only shrinks under the poller's hands.
THEOREM TicksWithinDemand == Spec => []CoverageWithinDemand
<1>1. Init => DemandOK
  BY DEF Init, DemandOK
<1>2. Spec => []DemandOK
  BY <1>1, DemandStep, ProcInductive, PTL DEF Spec
<1>3. ProcInv /\ DemandOK => CoverageWithinDemand
  <2> SUFFICES ASSUME ProcInv, DemandOK PROVE CoverageWithinDemand
    OBVIOUS
  <2>1. poll.left \in Nat /\ poll.queued \in Nat /\ CurRepo \in Repos /\ IInv
    <3>1. poll.left \in Nat /\ poll.queued \in Nat /\ poll.next \in Nat /\ poll.offset \in Nat /\ IInv
      BY DEF ProcInv, ProcTyped, PollState
    <3> QED BY <3>1, CurRepoOK
  <2>2. Cardinality(Covering(CurRepo)) \in Nat
    BY <2>1, CoverageExact
  <2> QED BY <2>1, <2>2 DEF DemandOK, CoverageWithinDemand
<1> QED BY <1>2, <1>3, ProcInductive, PTL

=============================================================================
