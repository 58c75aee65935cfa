----------------------------- MODULE ColdStart -----------------------------
(***************************************************************************)
(* Crash and recovery of the whole process: what a dead process leaves     *)
(* behind, and the cold start that clears it away before the next one      *)
(* schedules anything (cmd/orchestrator/coldstart.go, backend_init.go and  *)
(* Run), for the three ways spawns are kept: Docker, one Kubernetes        *)
(* namespace, or a namespace per project.                                  *)
(*                                                                         *)
(* A step of the recovery is one request, a listing of resources being     *)
(* one; a request may fail, and one that fails may have taken effect.  The *)
(* runners of a dead process live on: they connect, take jobs and finish.  *)
(* While the process runs it makes and removes its spawns' resources in    *)
(* any order; Orchestrator and the backends' modules have the detail.      *)
(*                                                                         *)
(* A request of the dead process takes effect before the next process      *)
(* starts or not at all.  Names, labels and identifiers are the ones the   *)
(* process gives, so the checks of their form are left out.                *)
(***************************************************************************)
EXTENDS Integers, FiniteSets

CONSTANTS
    Spawns,      \* spawn identifiers, numbered in the order of their names
    Repos,       \* repositories, numbered in the order of their names
    RepoOf,      \* the repository of a spawn
    Foreign,     \* spawns of another scope's orchestrator
    Modes,       \* where spawns are kept: "compose", "kube" or "shared"
    MaxCrashes,  \* how often the process dies
    MaxFaults    \* how many requests and connections fail

ASSUME ColdAssumption ==
    /\ Spawns \subseteq Nat /\ Foreign \subseteq Spawns
    /\ Repos \subseteq Nat /\ Repos # {}
    /\ RepoOf \in [Spawns -> Repos]
    /\ Modes \subseteq {"compose", "kube", "shared"}
    /\ MaxCrashes \in Nat /\ MaxFaults \in Nat

VARIABLES
    mode,
    enrolled,   \* the repositories in the scope file
    things,     \* what the backend has of each spawn
    reg,        \* each spawn's registration, as GitHub shows it
    pc,         \* where the process is; "down" when there is none
    known,      \* the spawns in the process's ledger
    found,      \* the resources the recovery has found and not yet deleted
    unlisted,   \* the repositories whose registrations it has yet to list
    toDelete,   \* the registrations it has yet to delete
    crashes, faults

memory == <<known, found, unlisted, toDelete>>
vars == <<mode, enrolled, things, reg, pc, memory, crashes, faults>>

Least(S) == CHOOSE x \in S : \A y \in S : x <= y
Own == Spawns \ Foreign
Kinds == IF mode = "compose" THEN {"network", "proxy", "runner"} ELSE {"secret", "proxy", "runner"}

\* "lost" is a runner GitHub shows offline and still busy.
Registrations == {"none", "offline", "online", "busy", "lost"}
Works == UNCHANGED faults
Fails == faults > 0 /\ faults' = faults - 1

-----------------------------------------------------------------------------
(* The process between its cold start and its end.                         *)

\* Run ends, and with it all the process knew: killed, its management server
\* stopped, or the forced cleanup over its grace (then no worker is waited for).
Crash ==
    /\ pc # "down" /\ crashes > 0 /\ crashes' = crashes - 1
    /\ pc' = "down" /\ known' = {} /\ found' = {} /\ unlisted' = {} /\ toDelete' = {}
    /\ UNCHANGED <<mode, enrolled, things, reg, faults>>

\* NewSpawnID gives a new identifier; the model takes one nothing is left of again.
Fresh(s) == reg[s] = "none" /\ things[s] = {}

\* A spawn is in the ledger before its registration is asked for.
Register(s) ==
    /\ pc = "up" /\ s \in Own \ known /\ RepoOf[s] \in enrolled /\ Fresh(s)
    /\ known' = known \cup {s}
    /\ reg' = [reg EXCEPT ![s] = "offline"]
    /\ UNCHANGED <<mode, enrolled, things, pc, found, unlisted, toDelete, crashes, faults>>

Changes(s, k) ==
    /\ pc = "up" /\ s \in known
    /\ things' \in {[things EXCEPT ![s] = @ \cup {k}], [things EXCEPT ![s] = @ \ {k}]}
    /\ UNCHANGED <<mode, enrolled, reg, pc, memory, crashes, faults>>

\* deregister deletes a registration GitHub lets go of: a busy runner's it keeps.
Releases(s) == reg[s] \notin {"busy", "lost"}
Deregister(s) ==
    /\ pc = "up" /\ s \in known /\ Releases(s)
    /\ reg' = [reg EXCEPT ![s] = "none"]
    /\ UNCHANGED <<mode, enrolled, things, pc, memory, crashes, faults>>

\* The deferred ReleaseReservation, whatever is left of the spawn: a registration
\* or a network may never have been acknowledged.  Orchestrator and the backends
\* tell what can be left; here it may be anything.
Release(s) ==
    /\ pc = "up" /\ s \in known
    /\ known' = known \ {s}
    /\ UNCHANGED <<mode, enrolled, things, reg, pc, found, unlisted, toDelete, crashes, faults>>

\* A tick that finds no demand.
IdleTick == pc = "up" /\ UNCHANGED vars

-----------------------------------------------------------------------------
(* The runners, which need no orchestrator.                                *)

Connects(s) ==
    /\ reg[s] = "offline" /\ "runner" \in things[s]
    /\ reg' = [reg EXCEPT ![s] = "online"]
    /\ UNCHANGED <<mode, enrolled, things, pc, memory, crashes, faults>>

TakesJob(s) ==
    /\ reg[s] = "online"
    /\ reg' = [reg EXCEPT ![s] = "busy"]
    /\ UNCHANGED <<mode, enrolled, things, pc, memory, crashes, faults>>

\* GitHub drops the registration of a just-in-time runner with its only job.
Finishes(s) ==
    /\ reg[s] \in {"busy", "lost"}
    /\ reg' = [reg EXCEPT ![s] = "none"]
    /\ UNCHANGED <<mode, enrolled, things, pc, memory, crashes, faults>>

Disconnects(s) ==
    /\ Fails
    /\ \/ reg[s] = "online" /\ reg' = [reg EXCEPT ![s] = "offline"]
       \/ reg[s] = "busy" /\ reg' = [reg EXCEPT ![s] = "lost"]
    /\ UNCHANGED <<mode, enrolled, things, pc, memory, crashes>>

\* The operator takes a repository out of the scope file.
Withdraw(r) ==
    /\ pc = "down" /\ r \in enrolled /\ enrolled # {r}
    /\ enrolled' = enrolled \ {r}
    /\ UNCHANGED <<mode, things, reg, pc, memory, crashes, faults>>

-----------------------------------------------------------------------------
(* Cold start.                                                             *)

\* Whatever fails, Run returns the error and the process is started again.
GivesUp == pc' = "down" /\ known' = {} /\ found' = {} /\ unlisted' = {} /\ toDelete' = {}

Boot ==
    /\ pc = "down" /\ pc' = "find"
    /\ UNCHANGED <<mode, enrolled, things, reg, memory, crashes, faults>>

\* Resources are listed by the scope's label, for Kubernetes in the enrolled
\* namespaces only.  Networks have their own listing later.
InNamespaces(s) == mode = "shared" => RepoOf[s] \in enrolled
\* Mutant: the listing is not restricted to the scope's label.
RecoveredEverywhere == {r \in Spawns \X Kinds : r[2] \in things[r[1]] /\ r[2] # "network"}
Recovered ==
    {r \in Own \X Kinds : r[2] \in things[r[1]] /\ r[2] # "network" /\ InNamespaces(r[1])}

\* A repository that is not enrolled any more: Docker only looks at runners.
Ownership(r) ==
    \/ RepoOf[r[1]] \in enrolled
    \/ mode = "compose" /\ r[2] # "runner"

FindResources ==
    /\ pc = "find"
    /\ \/ /\ Works /\ \A r \in Recovered : Ownership(r)
          /\ found' = Recovered /\ unlisted' = enrolled /\ pc' = "list"
          /\ UNCHANGED <<known, toDelete>>
       \/ Works /\ (\E r \in Recovered : ~Ownership(r)) /\ GivesUp
       \/ Fails /\ GivesUp
    /\ UNCHANGED <<mode, enrolled, things, reg, crashes>>

Owned(s) == s \in Own
Listed(r) == {s \in Spawns : RepoOf[s] = r /\ reg[s] # "none"}
\* Mutant: a runner that could still connect counts too.
ActiveWhileRegistered(s) == reg[s] # "none"
Active(s) == reg[s] # "offline"

\* Every repository is listed and every registration judged before one is
\* deleted, and resources or none: a process may die with only a registration.
ListRunners ==
    /\ pc = "list" /\ unlisted # {}
    /\ LET r == Least(unlisted)
           owned == {s \in Listed(r) : Owned(s)}
       IN  \/ /\ Works /\ \A s \in owned : ~Active(s)
              /\ toDelete' = toDelete \cup owned /\ unlisted' = unlisted \ {r}
              /\ UNCHANGED <<pc, known, found>>
           \/ Works /\ (\E s \in owned : Active(s)) /\ GivesUp
           \/ Fails /\ GivesUp
    /\ UNCHANGED <<mode, enrolled, things, reg, crashes>>

\* Mutant: nothing recovered, nothing to do.
EndListOfSome == IF found = {} THEN pc' = "networks" /\ toDelete' = {} ELSE pc' = "deregister" /\ UNCHANGED toDelete
EndList == pc' = "deregister" /\ UNCHANGED toDelete
\* Mutant: a repository's registrations are deleted as they are listed.
ListedSome ==
    /\ pc = "list" /\ EndList
    /\ UNCHANGED <<mode, enrolled, things, reg, known, found, unlisted, crashes, faults>>
ListedAll ==
    /\ pc = "list" /\ unlisted = {} /\ EndList
    /\ UNCHANGED <<mode, enrolled, things, reg, known, found, unlisted, crashes, faults>>

\* Registrations by repository, then by name.
Earliest == LET r == Least({RepoOf[s] : s \in toDelete}) IN Least({s \in toDelete : RepoOf[s] = r})
\* Mutant: a registration that cannot be deleted is passed over.
RefusedPassedOver == toDelete' = toDelete \ {Earliest} /\ UNCHANGED <<pc, known, found, unlisted>>
Refused == GivesUp
DeleteRunner ==
    /\ pc = "deregister" /\ toDelete # {}
    /\ LET s == Earliest
           gone == reg' = [reg EXCEPT ![s] = "none"]
       IN  \/ /\ Works /\ Releases(s) /\ gone
              /\ toDelete' = toDelete \ {s} /\ UNCHANGED <<pc, known, found, unlisted>>
           \/ Works /\ ~Releases(s) /\ UNCHANGED reg /\ Refused
           \/ Fails /\ (UNCHANGED reg \/ (Releases(s) /\ gone)) /\ GivesUp
    /\ UNCHANGED <<mode, enrolled, things, crashes>>

DeletedRunners ==
    /\ pc = "deregister" /\ toDelete = {} /\ pc' = "delete"
    /\ UNCHANGED <<mode, enrolled, things, reg, memory, crashes, faults>>

Without(S) == [s \in Spawns |-> things[s] \ {k \in Kinds : <<s, k>> \in S}]

\* Docker: one container after the other, in the order of their identifiers,
\* which says nothing of their spawns.
DeleteContainer ==
    /\ mode = "compose" /\ pc = "delete"
    /\ \E r \in found :
        \/ /\ Works /\ things' = Without({r}) /\ found' = found \ {r}
           /\ UNCHANGED <<pc, known, unlisted, toDelete>>
        \/ Fails /\ things' \in {things, Without({r})} /\ GivesUp
    /\ UNCHANGED <<mode, enrolled, reg, crashes>>

\* Kubernetes: Teardown of one spawn after the other, which removes all of it
\* or fails.
TeardownRecovered ==
    /\ mode # "compose" /\ pc = "delete" /\ found # {}
    /\ LET s == Least({r[1] : r \in found})
           its == {r \in found : r[1] = s}
       IN  \/ /\ Works /\ things' = Without(its) /\ found' = found \ its
              /\ UNCHANGED <<pc, known, unlisted, toDelete>>
           \/ Fails /\ (\E S \in SUBSET its : things' = Without(S)) /\ GivesUp
    /\ UNCHANGED <<mode, enrolled, reg, crashes>>

DeletedResources ==
    /\ pc = "delete" /\ found = {}
    /\ pc' = IF mode = "compose" THEN "networks" ELSE "up"
    /\ UNCHANGED <<mode, enrolled, things, reg, memory, crashes, faults>>

\* The containers are off the networks now.  Docker keeps one that is in use.
Networks == {s \in Own : "network" \in things[s]}
DeleteNetwork ==
    /\ pc = "networks"
    /\ \E s \in Networks : LET gone == Without({<<s, "network">>}) IN
        \/ Works /\ things' = gone /\ UNCHANGED <<pc, memory>>
        \/ Fails /\ things' \in {things, gone} /\ GivesUp
    /\ UNCHANGED <<mode, enrolled, reg, crashes>>

\* Only now are the poll loop and the workers started.
Ready ==
    /\ pc = "networks" /\ Networks = {} /\ pc' = "up"
    /\ UNCHANGED <<mode, enrolled, things, reg, memory, crashes, faults>>

-----------------------------------------------------------------------------
(* The process and what is around it.                                      *)

\* The first start.  The ledger is empty (Configure), whatever is out there.
\* Another scope's spawn is there in the state that is easiest to delete.
Init ==
    /\ mode \in Modes
    /\ enrolled = Repos
    /\ things = [s \in Spawns |-> IF s \in Foreign THEN Kinds ELSE {}]
    /\ reg = [s \in Spawns |-> IF s \in Foreign THEN "offline" ELSE "none"]
    /\ pc = "down"
    /\ known = {} /\ found = {} /\ unlisted = {} /\ toDelete = {}
    /\ crashes = MaxCrashes /\ faults = MaxFaults

Recovery ==
    \/ Boot \/ FindResources \/ ListRunners \/ ListedAll \/ DeleteRunner \/ DeletedRunners
    \/ DeleteContainer \/ TeardownRecovered \/ DeletedResources \/ DeleteNetwork \/ Ready

Next ==
    \/ Recovery
    \/ Crash \/ IdleTick
    \/ \E r \in Repos : Withdraw(r)
    \/ \E s \in Own :
        \/ Register(s) \/ Deregister(s) \/ Release(s)
        \/ \E k \in Kinds : Changes(s, k)
        \/ Connects(s) \/ TakesJob(s) \/ Finishes(s) \/ Disconnects(s)

Spec == Init /\ [][Next]_vars

\* The restart policy starts a process that has ended, and the recovery takes
\* its steps.  Nothing is assumed of the leftover runners: one may stay connected
\* without a job, or at its job, for ever.
FairSpec == Spec /\ WF_vars(Recovery)

-----------------------------------------------------------------------------
(* Properties.                                                             *)

\* The variables have their types; a process that is down knows nothing; and
\* deletion starts when every repository has been listed
\* (cleanupRecoveredRunnerRegistrations).
ColdTypeOK ==
    /\ mode \in Modes /\ enrolled \in (SUBSET Repos) \ {{}}
    /\ things \in [Spawns -> SUBSET Kinds] /\ reg \in [Spawns -> Registrations]
    /\ pc \in {"down", "find", "list", "deregister", "delete", "networks", "up"}
    /\ known \subseteq Own /\ found \subseteq Spawns \X Kinds
    /\ unlisted \subseteq enrolled /\ toDelete \subseteq Own
    /\ crashes \in 0..MaxCrashes /\ faults \in 0..MaxFaults
    /\ pc # "up" => known = {}
    /\ pc \notin {"list", "deregister"} => toDelete = {}
    /\ pc # "list" => unlisted = {}

\* Nothing of the scope runs or is registered, as far as the process can see: it
\* does not see registrations of repositories taken out of the scope file, nor
\* with a namespace per project their resources.
CleanSlate ==
    \A s \in Own :
        /\ RepoOf[s] \in enrolled => reg[s] = "none"
        /\ InNamespaces(s) => things[s] = {}

\* The process starts to schedule from a clean slate, with its ledger empty,
\* wherever the processes before it died: none of its slots is given out while a
\* runner of theirs is about.  What it loses sight of itself, once it is up, is
\* for the next start.
StartsClean == [][pc # "up" /\ pc' = "up" => CleanSlate' /\ known' = {}]_vars

\* Registrations go first: the recovery takes no runner away that is still
\* registered, so never one with a job, whatever the runner did since its
\* registration was looked at (cleanupRecoveredSpawns).
RegistrationsFirst ==
    [][\A s \in Spawns :
        pc # "up" /\ "runner" \in things[s] /\ "runner" \notin things'[s] => reg[s] = "none"]_vars

\* The recovery leaves another scope's resources and registrations alone.
ForeignKept ==
    [][\A s \in Foreign : things'[s] = things[s] /\ reg'[s] = reg[s]]_vars

\* A repository whose leftover resources stop every start until the operator
\* enrols it again or removes them.
Withheld == \E s \in Own : \E k \in things[s] :
    k # "network" /\ InNamespaces(s) /\ ~Ownership(<<s, k>>)

\* A leftover runner is connected or at a job: it too stops every start.
Occupied == \E s \in Own : RepoOf[s] \in enrolled /\ reg[s] \in {"online", "busy", "lost"}

\* The process comes up again, however often it and its recovery were
\* interrupted, but for these two: a withdrawn repository has left resources, or
\* a leftover runner is active.  A runner that has gone, or that has never
\* connected, does not keep the process down.
Recovers == []<>(pc = "up" \/ Withheld \/ Occupied)

=============================================================================
