--------------------------- MODULE ColdStartProofs ---------------------------
(***************************************************************************)
(* Proofs about ColdStart: for any number of spawns, repositories, crashes *)
(* and failing requests, and for each of the three ways spawns are kept,   *)
(* the process starts from a clean slate, takes no registered runner    *)
(* away while it recovers, and leaves another scope's spawns alone.        *)
(*                                                                         *)
(* The invariant says what the recovery has got hold of once it has listed *)
(* the resources: every registration in a repository that it has listed,   *)
(* and every resource, is in its lists or gone.  It ends when the lists    *)
(* are empty.                                                              *)
(***************************************************************************)
EXTENDS ColdStart, WellFoundedInduction, TLAPS

\* The recovery is under way and has listed the resources.
Looked == pc \notin {"down", "find", "up"}

\* A registration of a repository that has been listed is to be deleted.
Judged ==
    Looked => \A s \in Own :
        RepoOf[s] \in enrolled \ unlisted /\ reg[s] # "none" => s \in toDelete

\* A resource the process can see is to be deleted, or a network.
Accounted ==
    Looked => \A s \in Own : InNamespaces(s) =>
        \A k \in things[s] : <<s, k>> \in found \/ (k = "network" /\ mode = "compose")

\* What is to be deleted is the scope's own, and a runner's repository enrolled.
FoundOwn == \A r \in found : r[1] \in Own /\ Ownership(r)
FoundWhen == pc \notin {"list", "deregister", "delete"} => found = {}

ColdInv == ColdTypeOK /\ Judged /\ Accounted /\ FoundOwn /\ FoundWhen

-----------------------------------------------------------------------------
(* Facts about the model's operators.                                      *)

\* The least element of a set of numbers that is not empty is in the set and
\* at most as large as any other: the order in which cold start goes through
\* repositories and registrations is well defined.
LEMMA LeastProperties ==
    ASSUME NEW S \in SUBSET Nat, S # {}
    PROVE  Least(S) \in S /\ \A y \in S : Least(S) <= y
<1> DEFINE R == {ss \in Nat \X Nat : ss[1] < ss[2]}
<1>1. IsWellFoundedOn(R, Nat)
    BY NatLessThanWellFounded DEF OpToRel
<1> HIDE DEF R
<1>2. PICK x \in S : \A y \in S : ~(<<y, x>> \in R)
    BY <1>1, WFMin
<1>3. ASSUME NEW y \in S PROVE x <= y
  <2>1. <<y, x>> \notin R
    BY <1>2
  <2>2. x \in Nat /\ y \in Nat
    OBVIOUS
  <2>3. <<y, x>> \in {ss \in Nat \X Nat : ss[1] < ss[2]} <=> y < x
    BY <2>2
  <2> QED BY <2>1, <2>2, <2>3 DEF R
<1> QED BY <1>3 DEF Least

\* The registration that is deleted next is one of those to be deleted.
LEMMA EarliestIsListed ==
    ASSUME toDelete \subseteq Own, toDelete # {}
    PROVE  Earliest \in toDelete
<1> DEFINE repos == {RepoOf[s] : s \in toDelete}
           r == Least(repos)
           ours == {s \in toDelete : RepoOf[s] = r}
<1>1. toDelete \subseteq Spawns /\ Spawns \subseteq Nat
    BY ColdAssumption DEF Own
<1>2. repos \in SUBSET Nat /\ repos # {}
    BY <1>1, ColdAssumption
<1>3. r \in repos
    BY <1>2, LeastProperties
<1>4. ours \in SUBSET Nat /\ ours # {}
    BY <1>1, <1>3
<1>5. Least(ours) \in ours
    BY <1>4, LeastProperties
<1> QED BY <1>5 DEF Earliest

\* Deletion takes exactly the pairs it is given away from what there is.
LEMMA WithoutRemoves ==
    ASSUME things \in [Spawns -> SUBSET Kinds], NEW S
    PROVE  /\ Without(S) \in [Spawns -> SUBSET Kinds]
           /\ \A s \in Spawns : \A k : k \in Without(S)[s] <=> k \in things[s] /\ <<s, k>> \notin S
BY DEF Without

-----------------------------------------------------------------------------
(* The invariant.                                                          *)

\* The first start: no process, and nothing of the scope's own.
LEMMA ColdInitial == Init => ColdInv
<1> SUFFICES ASSUME Init PROVE ColdInv
    OBVIOUS
<1>1. /\ \A s \in Spawns : (IF s \in Foreign THEN Kinds ELSE {}) \in SUBSET Kinds
      /\ reg \in [Spawns -> Registrations]
    BY DEF Init, Registrations
<1>2. things \in [Spawns -> SUBSET Kinds]
    BY <1>1 DEF Init
<1>3. enrolled \in (SUBSET Repos) \ {{}}
    BY ColdAssumption DEF Init
<1>4. crashes \in 0..MaxCrashes /\ faults \in 0..MaxFaults
    BY ColdAssumption DEF Init
<1>5. ColdTypeOK
    BY <1>1, <1>2, <1>3, <1>4 DEF Init, ColdTypeOK
<1> QED BY <1>5 DEF Init, ColdInv, Judged, Accounted, FoundOwn, FoundWhen, Looked

\* A process that ends, whichever way, forgets everything.
LEMMA ForgetsAll ==
    ASSUME ColdInv, GivesUp, UNCHANGED <<mode, enrolled, crashes>>,
           things' \in [Spawns -> SUBSET Kinds], reg' \in [Spawns -> Registrations],
           faults' \in 0..MaxFaults
    PROVE  ColdInv'
BY DEF GivesUp, ColdInv, ColdTypeOK, Judged, Accounted, FoundOwn, FoundWhen, Looked, Kinds, Own

\* A fault uses up one of those that are left.
LEMMA FailsType == ASSUME ColdTypeOK, Fails PROVE faults' \in 0..MaxFaults
BY ColdAssumption DEF ColdTypeOK, Fails

\* What runs and what the process does while it is up.
LEMMA RunningPreserves ==
    ASSUME ColdInv, NEW s \in Own,
           \/ Register(s) \/ Deregister(s) \/ Release(s) \/ (\E k \in Kinds : Changes(s, k))
           \/ Connects(s) \/ TakesJob(s) \/ Finishes(s) \/ Disconnects(s)
    PROVE  ColdInv'
<1> s \in Spawns
    BY DEF Own
<1> USE DEF ColdInv, ColdTypeOK, Judged, Accounted, FoundOwn, FoundWhen, Looked, InNamespaces, Ownership
<1>1. CASE Register(s)
    BY <1>1 DEF Register, Fresh, Registrations, Own, Kinds
<1>2. CASE Deregister(s)
    BY <1>2 DEF Deregister, memory, Registrations, Own, Kinds
<1>3. CASE Release(s)
    BY <1>3 DEF Release, Fresh, Own, Kinds
<1>4. ASSUME NEW k \in Kinds, Changes(s, k) PROVE ColdInv'
  <2>1. things' \in [Spawns -> SUBSET Kinds] /\ \A t \in Spawns \ {s} : things'[t] = things[t]
    BY <1>4 DEF Changes
  <2> QED BY <1>4, <2>1 DEF Changes, memory, Own, Kinds
<1>5. CASE Connects(s)
    BY <1>5 DEF Connects, memory, Registrations, Own, Kinds
<1>6. CASE TakesJob(s)
    BY <1>6 DEF TakesJob, memory, Registrations, Own, Kinds
<1>7. CASE Finishes(s)
    BY <1>7 DEF Finishes, memory, Registrations, Own, Kinds
<1>8. CASE Disconnects(s)
    BY <1>8, FailsType DEF Disconnects, memory, Registrations, Own, Kinds
<1> QED BY <1>1, <1>2, <1>3, <1>4, <1>5, <1>6, <1>7, <1>8

\* What the operator and the restart policy do.
LEMMA AroundPreserves ==
    ASSUME ColdInv, Crash \/ Boot \/ (\E r \in Repos : Withdraw(r))
    PROVE  ColdInv'
<1> USE DEF ColdInv, ColdTypeOK, Judged, Accounted, FoundOwn, FoundWhen, Looked, InNamespaces, Ownership
<1>1. CASE Crash
    BY <1>1, ColdAssumption DEF Crash, Own, Kinds
<1>2. CASE Boot
    BY <1>2 DEF Boot, memory, Own, Kinds
<1>3. ASSUME NEW r \in Repos, Withdraw(r) PROVE ColdInv'
    BY <1>3 DEF Withdraw, memory, Own, Kinds
<1> QED BY <1>1, <1>2, <1>3

\* The listings: what is not judged or found is not there.
LEMMA ListingPreserves ==
    ASSUME ColdInv, FindResources \/ ListRunners \/ ListedAll
    PROVE  ColdInv'
<1> USE DEF ColdInv
<1>1. CASE FindResources
  <2>1. CASE Works /\ found' = Recovered /\ unlisted' = enrolled /\ pc' = "list"
             /\ (\A r \in Recovered : Ownership(r)) /\ UNCHANGED <<known, toDelete>>
    BY <1>1, <2>1 DEF FindResources, Works, Recovered, ColdTypeOK, Judged, Accounted, FoundOwn,
        FoundWhen, Looked, InNamespaces, Ownership, Own, Kinds
  <2>2. CASE Works /\ GivesUp
    BY <1>1, <2>2, ForgetsAll DEF FindResources, Works, ColdTypeOK, Kinds
  <2>3. CASE Fails /\ GivesUp
    BY <1>1, <2>3, ForgetsAll, FailsType DEF FindResources, ColdTypeOK, Kinds
  <2> QED BY <1>1, <2>1, <2>2, <2>3 DEF FindResources
<1>2. CASE ListRunners
  <2> DEFINE r == Least(unlisted)
             owned == {s \in Listed(r) : Owned(s)}
  <2>1. CASE Works /\ toDelete' = toDelete \cup owned /\ unlisted' = unlisted \ {r}
             /\ UNCHANGED <<pc, known, found>>
    <3>1. owned = {s \in Own : RepoOf[s] = r /\ reg[s] # "none"}
        BY DEF Listed, Owned, Own
    <3> HIDE DEF r
    <3> QED BY <1>2, <2>1, <3>1 DEF ListRunners, Works, ColdTypeOK, Judged, Accounted, FoundOwn,
        FoundWhen, Looked, InNamespaces, Ownership, Own, Kinds
  <2>2. CASE Works /\ GivesUp
    BY <1>2, <2>2, ForgetsAll DEF ListRunners, Works, ColdTypeOK, Kinds
  <2>3. CASE Fails /\ GivesUp
    BY <1>2, <2>3, ForgetsAll, FailsType DEF ListRunners, ColdTypeOK, Kinds
  <2> QED BY <1>2, <2>1, <2>2, <2>3 DEF ListRunners
<1>3. CASE ListedAll
    BY <1>3 DEF ListedAll, EndList, ColdTypeOK, Judged, Accounted, FoundOwn, FoundWhen, Looked,
        InNamespaces, Ownership, Own, Kinds
<1> QED BY <1>1, <1>2, <1>3

\* The registrations: one that is passed over is not there any more.
LEMMA DeregistrationPreserves ==
    ASSUME ColdInv, DeleteRunner \/ DeletedRunners
    PROVE  ColdInv'
<1> USE DEF ColdInv
<1>1. CASE DeleteRunner
  <2> DEFINE s == Earliest
             gone == reg' = [reg EXCEPT ![s] = "none"]
  <2> HIDE DEF s
  <2>1. gone \/ UNCHANGED reg => reg' \in [Spawns -> Registrations]
    BY DEF ColdTypeOK, Registrations
  <2>2. CASE Works /\ gone /\ toDelete' = toDelete \ {s} /\ UNCHANGED <<pc, known, found, unlisted>>
    BY <1>1, <2>1, <2>2 DEF DeleteRunner, Works, ColdTypeOK, Judged, Accounted, FoundOwn,
        FoundWhen, Looked, InNamespaces, Ownership, Own, Kinds
  <2>3. CASE Works /\ UNCHANGED reg /\ GivesUp
    BY <1>1, <2>1, <2>3, ForgetsAll DEF DeleteRunner, Works, ColdTypeOK, Kinds
  <2>4. CASE Fails /\ (UNCHANGED reg \/ gone) /\ GivesUp
    BY <1>1, <2>1, <2>4, ForgetsAll, FailsType DEF DeleteRunner, ColdTypeOK, Kinds
  <2> QED BY <1>1, <2>2, <2>3, <2>4 DEF DeleteRunner, Refused, s
<1>2. CASE DeletedRunners
    BY <1>2 DEF DeletedRunners, memory, ColdTypeOK, Judged, Accounted, FoundOwn, FoundWhen, Looked,
        InNamespaces, Ownership, Own, Kinds
<1> QED BY <1>1, <1>2

\* A deletion that works takes from the list what it takes from the backend.
LEMMA DeletionKeepsAccount ==
    ASSUME ColdInv, NEW S, pc = "delete", things' = Without(S), found' = found \ S,
           UNCHANGED <<mode, enrolled, reg, crashes, faults, pc, known, unlisted, toDelete>>
    PROVE  ColdInv'
<1>1. /\ things' \in [Spawns -> SUBSET Kinds]
      /\ \A s \in Spawns : \A k : k \in things'[s] <=> k \in things[s] /\ <<s, k>> \notin S
    BY WithoutRemoves DEF ColdInv, ColdTypeOK
<1>2. ColdTypeOK'
    BY <1>1 DEF ColdInv, ColdTypeOK, Kinds, Own
<1>3. Accounted'
    BY <1>1 DEF ColdInv, Accounted, Looked, InNamespaces, Own
<1> QED BY <1>2, <1>3 DEF ColdInv, Judged, FoundOwn, FoundWhen, Looked, Ownership, Own

\* The resources, containers or whole spawns.
LEMMA DeletionPreserves ==
    ASSUME ColdInv, DeleteContainer \/ TeardownRecovered \/ DeletedResources
    PROVE  ColdInv'
<1>0. ColdTypeOK
    BY DEF ColdInv
<1>1. ASSUME NEW S, Fails, GivesUp, things' = Without(S), UNCHANGED <<mode, enrolled, reg, crashes>>
      PROVE  ColdInv'
  <2>1. things' \in [Spawns -> SUBSET Kinds]
    BY <1>0, <1>1, WithoutRemoves DEF ColdTypeOK
  <2> QED BY <1>0, <1>1, <2>1, ForgetsAll, FailsType DEF ColdTypeOK, Kinds
<1>2. CASE DeleteContainer
  <2>1. PICK r \in found :
            \/ /\ Works /\ things' = Without({r}) /\ found' = found \ {r}
               /\ UNCHANGED <<pc, known, unlisted, toDelete>>
            \/ Fails /\ things' \in {things, Without({r})} /\ GivesUp
    BY <1>2 DEF DeleteContainer
  <2>2. CASE Fails /\ GivesUp /\ things' = things
    BY <1>0, <1>2, <2>2, ForgetsAll, FailsType DEF DeleteContainer, ColdTypeOK, Kinds
  <2>3. CASE Fails /\ GivesUp /\ things' = Without({r})
    BY <1>1, <1>2, <2>3 DEF DeleteContainer
  <2>4. CASE Works /\ things' = Without({r}) /\ found' = found \ {r}
             /\ UNCHANGED <<pc, known, unlisted, toDelete>>
    BY <1>2, <2>4, DeletionKeepsAccount DEF DeleteContainer, Works
  <2> QED BY <2>1, <2>2, <2>3, <2>4
<1>3. CASE TeardownRecovered
  <2>1. PICK its \in SUBSET found :
            \/ /\ Works /\ things' = Without(its) /\ found' = found \ its
               /\ UNCHANGED <<pc, known, unlisted, toDelete>>
            \/ Fails /\ (\E S \in SUBSET its : things' = Without(S)) /\ GivesUp
    BY <1>3 DEF TeardownRecovered
  <2>2. CASE Fails /\ (\E S \in SUBSET its : things' = Without(S)) /\ GivesUp
    BY <1>1, <1>3, <2>2 DEF TeardownRecovered
  <2>3. CASE Works /\ things' = Without(its) /\ found' = found \ its
             /\ UNCHANGED <<pc, known, unlisted, toDelete>>
    BY <1>3, <2>3, DeletionKeepsAccount DEF TeardownRecovered, Works
  <2> QED BY <2>1, <2>2, <2>3
<1>4. CASE DeletedResources
    BY <1>4 DEF DeletedResources, memory, ColdInv, ColdTypeOK, Judged, Accounted, FoundOwn, FoundWhen,
        Looked, InNamespaces, Ownership, Own, Kinds
<1> QED BY <1>2, <1>3, <1>4

\* The networks, which are all that is left.
LEMMA NetworksPreserve ==
    ASSUME ColdInv, DeleteNetwork \/ Ready
    PROVE  ColdInv'
<1>0. ColdTypeOK
    BY DEF ColdInv
<1>1. CASE DeleteNetwork
  <2>1. PICK s \in Networks :
            \/ Works /\ things' = Without({<<s, "network">>}) /\ UNCHANGED <<pc, memory>>
            \/ Fails /\ things' \in {things, Without({<<s, "network">>})} /\ GivesUp
    BY <1>1 DEF DeleteNetwork
  <2>2. /\ Without({<<s, "network">>}) \in [Spawns -> SUBSET Kinds]
        /\ \A t \in Spawns : Without({<<s, "network">>})[t] \subseteq things[t]
    BY <1>0, WithoutRemoves DEF ColdTypeOK
  <2>3. CASE Fails /\ things' \in {things, Without({<<s, "network">>})} /\ GivesUp
    BY <1>0, <1>1, <2>2, <2>3, ForgetsAll, FailsType DEF DeleteNetwork, ColdTypeOK, Kinds
  <2>4. CASE Works /\ things' = Without({<<s, "network">>}) /\ UNCHANGED <<pc, memory>>
    BY <1>1, <2>2, <2>4 DEF DeleteNetwork, Works, memory, ColdInv, ColdTypeOK, Judged, Accounted,
        FoundOwn, FoundWhen, Looked, InNamespaces, Ownership, Own, Kinds
  <2> QED BY <2>1, <2>3, <2>4
<1>2. CASE Ready
    BY <1>2 DEF Ready, Networks, memory, ColdInv, ColdTypeOK, Judged, Accounted, FoundOwn, FoundWhen,
        Looked, InNamespaces, Ownership, Own, Kinds
<1> QED BY <1>1, <1>2

\* Every step preserves the invariant.
LEMMA ColdStep == ColdInv /\ [Next]_vars => ColdInv'
<1> SUFFICES ASSUME ColdInv, [Next]_vars PROVE ColdInv'
    OBVIOUS
<1>1. CASE Recovery
    BY <1>1, AroundPreserves, ListingPreserves, DeregistrationPreserves, DeletionPreserves,
        NetworksPreserve DEF Recovery
<1>2. CASE Crash \/ \E r \in Repos : Withdraw(r)
    BY <1>2, AroundPreserves
<1>3. ASSUME NEW s \in Own,
             \/ Register(s) \/ Deregister(s) \/ Release(s) \/ (\E k \in Kinds : Changes(s, k))
             \/ Connects(s) \/ TakesJob(s) \/ Finishes(s) \/ Disconnects(s)
      PROVE  ColdInv'
    BY <1>3, RunningPreserves
<1>4. CASE IdleTick \/ UNCHANGED vars
    BY <1>4 DEF IdleTick, vars, memory, ColdInv, ColdTypeOK, Judged, Accounted, FoundOwn, FoundWhen,
        Looked, InNamespaces, Ownership, Own, Kinds
<1> QED BY <1>1, <1>2, <1>3, <1>4 DEF Next

-----------------------------------------------------------------------------
(* The properties.                                                         *)

\* The invariant holds in every reachable state.
LEMMA ColdInvariant == Spec => []ColdInv
BY ColdInitial, ColdStep, PTL DEF Spec

\* The type invariant: a process that is down knows nothing, and deletion
\* starts when every repository has been listed.
THEOREM ColdTypesHold == Spec => []ColdTypeOK
<1>1. ColdInv => ColdTypeOK
    BY DEF ColdInv
<1> QED BY <1>1, ColdInvariant, PTL

\* However often the process and its recovery died and whichever requests
\* failed, Run starts polling only when everything of its scope that it can
\* see is gone.
THEOREM ColdStartsClean == Spec => StartsClean
<1>1. ASSUME ColdInv, [Next]_vars, pc # "up", pc' = "up"
      PROVE  CleanSlate' /\ known' = {}
  <2>1. /\ pc \in {"delete", "networks"} /\ found = {}
        /\ pc = "delete" => mode # "compose"
        /\ pc = "networks" => Networks = {}
        /\ UNCHANGED <<mode, enrolled, things, reg, known>>
    BY <1>1 DEF Next, Recovery, Boot, FindResources, ListRunners, ListedAll, EndList, DeleteRunner,
        DeletedRunners, Refused, GivesUp, DeleteContainer, TeardownRecovered, DeletedResources,
        DeleteNetwork, Ready, Crash, IdleTick, Withdraw, Register, Deregister, Release, Changes,
        Connects, TakesJob, Finishes, Disconnects, memory, vars, ColdInv, FoundWhen
  <2>2. toDelete = {} /\ unlisted = {} /\ known = {} /\ things \in [Spawns -> SUBSET Kinds]
    BY <1>1, <2>1 DEF ColdInv, ColdTypeOK
  <2>3. \A s \in Own : RepoOf[s] \in enrolled => reg[s] = "none"
    BY <1>1, <2>1, <2>2 DEF ColdInv, Judged, Looked
  <2>4. \A s \in Own : InNamespaces(s) => \A k \in things[s] : k = "network" /\ pc = "networks"
    BY <1>1, <2>1 DEF ColdInv, Accounted, Looked
  <2>5. \A s \in Own : InNamespaces(s) => things[s] = {}
    BY <2>1, <2>4 DEF Networks
  <2> QED BY <2>1, <2>2, <2>3, <2>5 DEF CleanSlate, InNamespaces
<1>2. ColdInv /\ [Next]_vars => [pc # "up" /\ pc' = "up" => CleanSlate' /\ known' = {}]_vars
    BY <1>1
<1> QED BY <1>2, ColdInvariant, PTL DEF Spec, StartsClean

\* While the recovery deletes resources, no spawn of an enrolled repository
\* is registered: only a process that is up registers.
LEMMA NoneRegistered ==
    ASSUME ColdInv, pc = "delete", NEW s \in Own, RepoOf[s] \in enrolled
    PROVE  reg[s] = "none"
BY DEF ColdInv, ColdTypeOK, Judged, Looked

\* What is taken away while the process is not up was found or is a network.
LEMMA TakesOnlyFound ==
    ASSUME ColdInv, [Next]_vars, pc # "up", NEW s \in Spawns, NEW k,
           k \in things[s], k \notin things'[s]
    PROVE  s \in Own /\ (k = "network" \/ (pc = "delete" /\ <<s, k>> \in found))
<1>0. ColdTypeOK
    BY DEF ColdInv
<1>1. ASSUME NEW S \in SUBSET found, things' = Without(S), pc = "delete"
      PROVE  s \in Own /\ pc = "delete" /\ <<s, k>> \in found
  <2>1. <<s, k>> \in S
    BY <1>0, <1>1, WithoutRemoves DEF ColdTypeOK
  <2> QED BY <1>1, <2>1 DEF ColdInv, FoundOwn
<1>2. CASE DeleteContainer
    BY <1>1, <1>2 DEF DeleteContainer
<1>3. CASE TeardownRecovered
  <2>1. PICK its \in SUBSET found :
            things' = Without(its) \/ (\E S \in SUBSET its : things' = Without(S))
    BY <1>3 DEF TeardownRecovered
  <2> QED BY <1>1, <1>3, <2>1 DEF TeardownRecovered
<1>4. CASE DeleteNetwork
  <2>1. PICK t \in Networks : things' \in {things, Without({<<t, "network">>})}
    BY <1>4 DEF DeleteNetwork
  <2>2. <<s, k>> \in {<<t, "network">>}
    BY <1>0, <2>1, WithoutRemoves DEF ColdTypeOK
  <2> QED BY <2>2 DEF Networks
<1>5. CASE UNCHANGED things
    BY <1>5
<1>6. DeleteContainer \/ TeardownRecovered \/ DeleteNetwork \/ UNCHANGED things
    BY DEF Next, Recovery, Boot, FindResources, ListRunners, ListedAll, DeleteRunner, DeletedRunners,
        DeletedResources, Ready, Crash, IdleTick, Withdraw, Register, Deregister, Release, Changes, Connects,
        TakesJob, Finishes, Disconnects, vars
<1> QED BY <1>2, <1>3, <1>4, <1>5, <1>6

\* Registrations go first: whatever a leftover runner did since its registration
\* was judged, cleanupRecoveredSpawns takes none away that is registered.
THEOREM RecoveryDeregistersFirst == Spec => RegistrationsFirst
<1>1. ASSUME ColdInv, [Next]_vars, NEW s \in Spawns, pc # "up",
             "runner" \in things[s], "runner" \notin things'[s]
      PROVE  reg[s] = "none"
  <2>1. s \in Own /\ pc = "delete" /\ <<s, "runner">> \in found
    BY <1>1, TakesOnlyFound
  <2>2. RepoOf[s] \in enrolled
    BY <1>1, <2>1 DEF ColdInv, FoundOwn, Ownership
  <2> QED BY <1>1, <2>1, <2>2, NoneRegistered
<1>2. ColdInv /\ [Next]_vars =>
        [\A s \in Spawns :
            pc # "up" /\ "runner" \in things[s] /\ "runner" \notin things'[s] => reg[s] = "none"]_vars
    BY <1>1
<1> QED BY <1>2, ColdInvariant, PTL DEF Spec, RegistrationsFirst

\* No step of the recovery, and none of a process that is up, touches a resource
\* or a registration of another scope.
THEOREM RecoveryKeepsForeign == Spec => ForeignKept
<1>1. ASSUME ColdInv, [Next]_vars, NEW s \in Foreign
      PROVE  things'[s] = things[s] /\ reg'[s] = reg[s]
  <2>0. s \in Spawns /\ s \notin Own /\ ColdTypeOK
    BY <1>1, ColdAssumption DEF Own, ColdInv
  <2>1. things'[s] = things[s]
    <3>1. ASSUME NEW S, things' = Without(S), \A r \in S : r[1] \in Own
          PROVE  things'[s] = things[s]
      <4>1. \A k : <<s, k>> \notin S
        BY <2>0, <3>1
      <4>2. \A k : k \in Without(S)[s] <=> k \in things[s]
        BY <2>0, <4>1, WithoutRemoves DEF ColdTypeOK
      <4>3. Without(S)[s] \in SUBSET Kinds /\ things[s] \in SUBSET Kinds
        BY <2>0, WithoutRemoves DEF ColdTypeOK
      <4>4. Without(S)[s] = things[s]
        BY <4>2, <4>3
      <4> QED BY <3>1, <4>4
    <3>2. \A r \in found : r[1] \in Own
        BY <1>1 DEF ColdInv, FoundOwn
    <3>3. CASE DeleteContainer
      <4>1. PICK r \in found : things' \in {things, Without({r})}
        BY <3>3 DEF DeleteContainer
      <4> QED BY <3>1, <3>2, <4>1
    <3>4. CASE TeardownRecovered
      <4>1. PICK S \in SUBSET found : things' = Without(S)
        BY <3>4 DEF TeardownRecovered
      <4> QED BY <3>1, <3>2, <4>1
    <3>5. CASE DeleteNetwork
      <4>1. PICK t \in Own : things' \in {things, Without({<<t, "network">>})}
        BY <3>5 DEF DeleteNetwork, Networks
      <4> QED BY <3>1, <4>1
    <3>6. ASSUME NEW t \in Own, NEW k, Changes(t, k) PROVE things'[s] = things[s]
        BY <2>0, <3>6 DEF Changes, ColdTypeOK
    <3>7. DeleteContainer \/ TeardownRecovered \/ DeleteNetwork \/ UNCHANGED things
            \/ \E t \in Own, k \in Kinds : Changes(t, k)
      BY <1>1 DEF Next, Recovery, Boot, FindResources, ListRunners, ListedAll, DeleteRunner,
        DeletedRunners, DeletedResources, Ready, Crash, IdleTick, Withdraw, Register, Deregister, Release,
        Connects, TakesJob, Finishes, Disconnects, vars
    <3> QED BY <3>3, <3>4, <3>5, <3>6, <3>7
  <2>2. reg'[s] = reg[s]
    <3>1. CASE DeleteRunner
      <4>1. Earliest \in Own
        BY <2>0, <3>1, EarliestIsListed DEF DeleteRunner, ColdTypeOK
      <4> QED BY <2>0, <3>1, <4>1 DEF DeleteRunner, ColdTypeOK
    <3>2. CASE \E t \in Own : Register(t) \/ Deregister(t) \/ Connects(t) \/ TakesJob(t)
                                \/ Finishes(t) \/ Disconnects(t)
      BY <2>0, <3>2 DEF Register, Deregister, Connects, TakesJob, Finishes, Disconnects, ColdTypeOK
    <3>3. CASE UNCHANGED reg
      BY <3>3
    <3>4. \/ DeleteRunner \/ UNCHANGED reg
          \/ \E t \in Own : Register(t) \/ Deregister(t) \/ Connects(t) \/ TakesJob(t)
                                \/ Finishes(t) \/ Disconnects(t)
      BY <1>1 DEF Next, Recovery, Boot, FindResources, ListRunners, ListedAll, DeletedRunners,
        DeleteContainer, TeardownRecovered, DeletedResources, DeleteNetwork, Ready, Crash, IdleTick, Withdraw,
        Release, Changes, vars
    <3> QED BY <3>1, <3>2, <3>3, <3>4
  <2> QED BY <2>1, <2>2
<1>2. ColdInv /\ [Next]_vars => [\A s \in Foreign : things'[s] = things[s] /\ reg'[s] = reg[s]]_vars
    BY <1>1
<1> QED BY <1>2, ColdInvariant, PTL DEF Spec, ForeignKept

=============================================================================
