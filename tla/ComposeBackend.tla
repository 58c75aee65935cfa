--------------------------- MODULE ComposeBackend ---------------------------
(***************************************************************************)
(* One spawn at the compose backend: the egress configuration rendered by  *)
(* egress/generate.go, Spawn and Teardown of backend/compose/compose.go    *)
(* over docker/spawn.go and docker/client.go, called as Execute calls them *)
(* (orchestrator/spawn.go).                                                *)
(*                                                                         *)
(* A step is one Docker request or one file operation.  While Docker is    *)
(* faulty any request may fail, and a request that fails may have taken    *)
(* effect: the identifier of what such a creation made is never known.     *)
(* Every request goes through the socket proxy, which may deny it.         *)
(***************************************************************************)
EXTENDS SocketProxy

CONSTANT Settings  \* pairs of the orchestrator's and the socket proxy's settings

\* A spawn's network goes by the identifier Docker makes up for it, which no
\* operator has given to the egress network.
ASSUME SettingsAssumption == \A pair \in Settings : pair.p.net # "internal"

VARIABLES
    pc,
    exists,      \* what Docker has of this spawn
    running,     \* the containers among it that run
    dir,         \* the spawn's egress directory exists
    refs,        \* the identifiers Spawn has learnt: the handle's Refs
    rolling,     \* containers the rollback has yet to delete
    errs,        \* the call under way has met an error
    force,       \* Teardown may remove a running runner
    said,        \* the backend's last answer
    faulty,      \* Docker and the file system may still fail
    settings     \* the orchestrator's (o) and the socket proxy's (p)

env == <<faulty, settings>>
vars == <<pc, exists, running, dir, refs, rolling, errs, force, said, env>>

Containers == {"proxy", "runner"}
Things == Containers \cup {"network"}
Goto(p) == pc' = p

-----------------------------------------------------------------------------
(* Docker, behind the socket proxy.                                        *)

Admits(request) == ServeHTTP(settings.p, request)

\* A creation answers with an identifier; or fails, and what the request made
\* is nobody's.  A denied request reaches no one.
Creates(x) ==
    /\ Admits(CreateRequest(settings.o, x))
    /\ exists' = exists \cup {x} /\ refs' = refs \cup {x}
CreateFails(x) ==
    /\ IF Admits(CreateRequest(settings.o, x))
       THEN faulty /\ exists' \in {exists, exists \cup {x}}
       ELSE UNCHANGED exists
    /\ UNCHANGED refs

\* A network with a running container on it, and without force a running
\* container, cannot be deleted.  What is gone already is deleted at once.
Deletable(x, f) ==
    /\ Admits(DeleteRequest(x))
    /\ IF x = "network" THEN running = {} ELSE f \/ x \notin running
Gone(x) == exists' = exists \ {x} /\ running' = running \ {x}
\* Mutant: what is gone already cannot be deleted again.
DeletesPresent(x, f) == x \in exists /\ Deletable(x, f) /\ Gone(x)
Deletes(x, f) == Deletable(x, f) /\ Gone(x)
DeleteFails(x, f) ==
    \/ (faulty \/ ~Deletable(x, f)) /\ UNCHANGED <<exists, running>>
    \/ faulty /\ Deletes(x, f)

Heals == faulty /\ faulty' = FALSE
         /\ UNCHANGED <<pc, exists, running, dir, refs, rolling, errs, force, said, settings>>

-----------------------------------------------------------------------------
(* Render, then Spawn.                                                     *)

\* Mutant: the rollback goes through the whole handle.
CreatedRefs == refs
\* docker.Spawn's map of the containers it created.
Created == refs \cap Containers

\* A failure may come before the directory is made, or while its files are
\* written.  failAndLeak follows: no backend call is made.
Render ==
    /\ pc = "render"
    /\ \/ dir' = TRUE /\ Goto("network")
       \/ dir' \in BOOLEAN /\ Goto("settled")
    /\ UNCHANGED <<exists, running, refs, rolling, errs, force, said, env>>

CreateNetwork ==
    /\ pc = "network"
    /\ \/ Creates("network") /\ Goto("createProxy") /\ UNCHANGED said
       \/ CreateFails("network") /\ Goto("settled") /\ said' = "rolledBack"
    /\ UNCHANGED <<running, dir, rolling, errs, force, env>>

CreateContainer(x, here, next) ==
    /\ pc = here
    /\ \/ Creates(x) /\ Goto(next) /\ UNCHANGED rolling
       \/ CreateFails(x) /\ Goto("rollback") /\ rolling' = Created
    /\ UNCHANGED <<running, dir, errs, force, said, env>>

StartContainer(x, here, next) ==
    /\ pc = here
    /\ \/ /\ Admits(StartRequest(x))
          /\ running' = running \cup {x} /\ Goto(next) /\ UNCHANGED rolling
          /\ said' = IF next = "started" THEN "started" ELSE said
       \/ /\ IF Admits(StartRequest(x)) THEN faulty /\ running' \in {running, running \cup {x}}
                                         ELSE UNCHANGED running
          /\ Goto("rollback") /\ rolling' = Created /\ UNCHANGED said
    /\ UNCHANGED <<exists, dir, refs, errs, force, env>>

\* The created containers are deleted in any order, all of them, each once.
Rollback ==
    /\ pc = "rollback"
    /\ \E x \in rolling :
          /\ \/ Deletes(x, TRUE) /\ UNCHANGED errs
             \/ DeleteFails(x, TRUE) /\ errs' = TRUE
          /\ rolling' = rolling \ {x}
    /\ UNCHANGED <<pc, dir, refs, force, said, env>>

\* Mutant: a failed Spawn always answers with the empty handle.
RollbackSilent ==
    /\ pc = "rollback" /\ rolling = {}
    /\ Deletes("network", TRUE) \/ DeleteFails("network", TRUE)
    /\ said' = "rolledBack" /\ Goto("settled") /\ force' = TRUE
    /\ UNCHANGED <<dir, refs, rolling, errs, env>>

\* The network goes last; anything unproven makes the answer carry a handle.
RollbackNetwork ==
    /\ pc = "rollback" /\ rolling = {}
    /\ \/ /\ Deletes("network", TRUE)
          /\ IF errs THEN said' = "partial" /\ Goto("call") ELSE said' = "rolledBack" /\ Goto("settled")
       \/ /\ DeleteFails("network", TRUE)
          /\ said' = "partial" /\ Goto("call")
    /\ force' = TRUE
    /\ UNCHANGED <<dir, refs, rolling, errs, env>>

-----------------------------------------------------------------------------
(* The runner's life, and Teardown with its retries.                       *)

RunnerExits ==
    /\ pc = "started" /\ "runner" \in running
    /\ running' = running \ {"runner"}
    /\ UNCHANGED <<pc, exists, dir, refs, rolling, errs, force, said, env>>

\* WaitForExit has seen the exit, or a timeout or failed observation forces.
WaitEnds ==
    /\ pc = "started"
    /\ force' \in BOOLEAN
    /\ force' \/ ("runner" \notin running /\ Admits(InspectRequest("runner")))
    /\ Goto("call")
    /\ UNCHANGED <<exists, running, dir, refs, rolling, errs, said, env>>

BeginTeardown ==
    /\ pc = "call" /\ Goto("tearRunner") /\ errs' = FALSE
    /\ UNCHANGED <<exists, running, dir, refs, rolling, force, said, env>>

\* Every phase is attempted; an identifier the handle lacks is passed over.
Phase(x, here, next, f) ==
    /\ pc = here /\ Goto(next)
    /\ \/ x \notin refs /\ UNCHANGED <<exists, running, errs>>
       \/ x \in refs /\ Deletes(x, f) /\ UNCHANGED errs
       \/ x \in refs /\ DeleteFails(x, f) /\ errs' = TRUE
    /\ UNCHANGED <<dir, refs, rolling, force, said, env>>

TearRunner == Phase("runner", "tearRunner", "tearProxy", force)
TearProxy == Phase("proxy", "tearProxy", "tearNetwork", TRUE)
TearNetwork == Phase("network", "tearNetwork", "tearDir", TRUE)

RemoveDir ==
    /\ pc = "tearDir" /\ Goto("verdict")
    /\ \/ dir' = FALSE /\ UNCHANGED errs
       \/ faulty /\ dir' \in {dir, FALSE} /\ errs' = TRUE
    /\ UNCHANGED <<exists, running, refs, rolling, force, said, env>>

\* Mutant: only the last phase decides.
VerdictOfNetwork ==
    /\ pc = "verdict"
    /\ IF "network" \in exists THEN said' = "failed" /\ Goto("call")
                               ELSE said' = "removed" /\ Goto("settled")
    /\ force' = TRUE
    /\ UNCHANGED <<exists, running, dir, refs, rolling, errs, env>>

\* The errors are joined; the worker retries with force until there is none.
Verdict ==
    /\ pc = "verdict"
    /\ IF errs THEN said' = "failed" /\ Goto("call") ELSE said' = "removed" /\ Goto("settled")
    /\ force' = TRUE
    /\ UNCHANGED <<exists, running, dir, refs, rolling, errs, env>>

\* The wait between two attempts is interrupted by the forced shutdown; the
\* spawn stays recorded as debt.
GiveUp ==
    /\ pc = "call" /\ said = "failed" /\ Goto("settled")
    /\ UNCHANGED <<exists, running, dir, refs, rolling, errs, force, said, env>>

Settled == pc = "settled" /\ UNCHANGED vars

-----------------------------------------------------------------------------
Init ==
    /\ pc = "render"
    /\ exists = {} /\ running = {} /\ dir = FALSE
    /\ refs = {} /\ rolling = {} /\ errs = FALSE /\ force = FALSE
    /\ said = "nothing" /\ faulty = TRUE
    /\ settings \in Settings

Spawn ==
    \/ Render \/ CreateNetwork
    \/ CreateContainer("proxy", "createProxy", "createRunner")
    \/ CreateContainer("runner", "createRunner", "startProxy")
    \/ StartContainer("proxy", "startProxy", "startRunner")
    \/ StartContainer("runner", "startRunner", "started")
    \/ Rollback \/ RollbackNetwork

Teardown == BeginTeardown \/ TearRunner \/ TearProxy \/ TearNetwork \/ RemoveDir \/ Verdict

Next == Spawn \/ RunnerExits \/ WaitEnds \/ Teardown \/ GiveUp \/ Heals \/ Settled

Spec == Init /\ [][Next]_vars

\* The worker runs, its wait is bounded, and Docker recovers in the end.
FairSpec == /\ Spec
            /\ WF_vars(Spawn) /\ WF_vars(WaitEnds) /\ WF_vars(Teardown)
            /\ WF_vars(Heals)

-----------------------------------------------------------------------------
\* The variables have their types.
ComposeTypeOK ==
    /\ exists \subseteq Things /\ running \subseteq Containers /\ dir \in BOOLEAN
    /\ refs \subseteq Things /\ rolling \subseteq Containers
    /\ errs \in BOOLEAN /\ force \in BOOLEAN /\ faulty \in BOOLEAN
    /\ said \in {"nothing", "started", "partial", "rolledBack", "removed", "failed"}

\* What the callers build on: the backend says "rolled back" or "removed" only
\* when nothing that it knows of is left, across partial creation, a rollback
\* that fails half way and retried teardowns.
Contract == INSTANCE BackendContract WITH
    call <- IF pc \in {"render", "started", "call", "settled"} THEN "none"
            ELSE IF pc \in {"tearRunner", "tearProxy", "tearNetwork", "tearDir", "verdict"}
            THEN "teardown" ELSE "spawn",
    left <- exists \cap refs # {}
ImplementsContract == Contract!Spec

Clean == pc = "settled" /\ said \in {"rolledBack", "removed"}

\* The backend owns the rollback on partial failure, as Execute's comment on the
\* call says: what is cleaned up is gone.
NothingLeft == Clean => exists = {}

\* Whatever answers were lost, a spawn that Execute takes for cleaned up runs
\* nothing any more: no runner is at work outside the capacity charged for it.
NothingLeftRunning == Clean => running = {}

\* A spawn whose cleanup has ended has left no egress directory: the package
\* comment of compose says that egress-config cleanup is handled there.
EgressDirRemoved == Clean => ~dir

\* The orchestrator and the socket proxy agree on Docker: with settings that
\* fit, nothing the orchestrator ever asks for is denied.  Each side has its own
\* list of fields and routes, and one more option on one side stops every spawn.
SpawnAdmitted ==
    Alike(settings.o, settings.p) => \A request \in Requests(settings.o) : Admits(request)

\* A denial leaves no debt: as long as Docker itself works, a spawn the socket
\* proxy denies is rolled back on the spot, so a policy that does not fit
\* fails spawns but never stops admission for the scope.
DenialLeavesNoDebt ==
    [](pc = "render" /\ ~faulty => [](said \notin {"partial", "failed"}))

\* Every spawn is settled in the end, however often its cleanup fails.
SpawnSettles == <>(pc = "settled")

=============================================================================
