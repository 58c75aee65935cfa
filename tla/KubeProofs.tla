----------------------------- MODULE KubeProofs -----------------------------
(***************************************************************************)
(* Proofs about KubeBackend: for any number of spawns, any scope the       *)
(* process starts with and any failing requests, each spawn keeps the      *)
(* contract of the backends, its pods are confined as long as they exist,  *)
(* its proxy serves its runner, and what one check lets pass the next does *)
(* not refuse.                                                             *)
(*                                                                         *)
(* The invariant says what of a spawn exists at each stage: nothing before *)
(* the default-deny policy is there, everything that was created so far    *)
(* while it is created, all of it once it has started, the Secret as long  *)
(* as anything; and nothing once a deletion has ended without an error.    *)
(***************************************************************************)
EXTENDS KubeBackend, FiniteSetTheorems, TLAPS

Early == {"idle", "admit", "deny", "files"}
Deleting == {"list", "delete", "done"}

Stages == Early \cup {"create", "started", "call", "settled"} \cup Deleting

\* The configuration is one the process starts with, and stays.
Configured ==
    /\ scope \in Scopes /\ Backend(scope) = "kube" /\ Starts(scope)
    /\ \A s \in Spawns : runner[s] \in RunnerYML(scope, s)
    /\ input = [s \in Spawns |-> SpawnInput(scope, s, runner[s])]

Shapes ==
    /\ objs \in [Spawns -> SUBSET Names] /\ ending \in [Spawns -> SUBSET Names]
    /\ pc \in [Spawns -> Stages] /\ todo \in [Spawns -> Seq(Names)]
    /\ dir \in [Spawns -> BOOLEAN] /\ errs \in [Spawns -> BOOLEAN] /\ faults \in 0..MaxFaults
    /\ said \in [Spawns -> {"nothing", "started", "partial", "rolledBack", "removed", "failed"}]

\* The last answer follows from the stage, and errors from a deletion only.
AnsweredOf(s) ==
    /\ pc[s] \in Early \cup {"create"} => said[s] = "nothing"
    /\ pc[s] = "started" => said[s] = "started"
    /\ pc[s] = "call" => said[s] \in {"started", "partial", "failed"}
    /\ pc[s] \in Deleting => said[s] \in {"nothing", "started", "partial", "failed"}
    /\ pc[s] # "done" => ~errs[s]

\* What exists of the spawn.
ExistsOf(s) ==
    /\ ending[s] \subseteq objs[s] /\ ending[s] \subseteq {"proxy", "runner", "secret"}
    /\ pc[s] \in Early \cup {"create", "started"} => ending[s] = {}
    /\ pc[s] \in Early => objs[s] = {}
    /\ pc[s] = "create" => Names \ ToSet(todo[s]) \subseteq objs[s]
    /\ pc[s] = "create" => todo[s] = CreateOrder \/ "secret" \in objs[s]
    /\ pc[s] = "started" => objs[s] = Names
    /\ objs[s] # {} => "secret" \in objs[s]
    /\ pc[s] = "done" /\ ~errs[s] => objs[s] = {}

\* A spawn is created in a denied namespace, from a validated configuration.
PreparedOf(s) ==
    /\ pc[s] \in {"files", "create"} \/ objs[s] # {} => input[s].namespace \in deny
    /\ pc[s] \in {"admit", "deny", "files", "create"} => ValidateEgress(runner[s])

StateOf(s) == AnsweredOf(s) /\ ExistsOf(s) /\ PreparedOf(s)

DenyShape == deny \subseteq {input[s].namespace : s \in Spawns}

KubeInv == Configured /\ Shapes /\ DenyShape /\ \A s \in Spawns : StateOf(s)

-----------------------------------------------------------------------------
(* Sequences of names.                                                     *)

\* The objects are created in an order that has every name and the Secret first.
LEMMA CreateOrderNames ==
    /\ CreateOrder \in Seq(Names) /\ Head(CreateOrder) = "secret"
    /\ Names \subseteq ToSet(CreateOrder)
<1>1. CreateOrder \in Seq(Names) /\ Head(CreateOrder) = "secret" /\ DOMAIN CreateOrder = 1..7
  BY DEF CreateOrder, Names
<1>2. /\ CreateOrder[1] = "secret" /\ CreateOrder[2] = "proxy-svc" /\ CreateOrder[3] = "runner-egress"
      /\ CreateOrder[4] = "proxy-egress" /\ CreateOrder[5] = "proxy-ingress"
      /\ CreateOrder[6] = "proxy" /\ CreateOrder[7] = "runner"
  BY DEF CreateOrder
<1> QED BY <1>1, <1>2 DEF ToSet, Names

\* Taking the first element leaves the others.
LEMMA TailNames ==
    ASSUME NEW q \in Seq(Names), q # <<>>
    PROVE  /\ Head(q) \in Names /\ Tail(q) \in Seq(Names)
           /\ ToSet(q) \subseteq ToSet(Tail(q)) \cup {Head(q)}
<1>1. Head(q) = q[1] /\ Head(q) \in Names /\ Tail(q) \in Seq(Names)
  BY DEF Names
<1>2. ASSUME NEW i \in DOMAIN q, i # 1 PROVE q[i] \in ToSet(Tail(q))
  <2>1. i \in 2..Len(q) /\ i - 1 \in 1..Len(Tail(q)) /\ Tail(q)[i - 1] = q[i]
    BY <1>2
  <2>2. i - 1 \in DOMAIN Tail(q)
    BY <1>1, <2>1
  <2> QED BY <2>1, <2>2 DEF ToSet
<1> QED BY <1>1, <1>2 DEF ToSet

\* A listing has names only.
LEMMA ListingNames == ASSUME NEW s PROVE Listing(s) \in Seq(Names)
<1> DEFINE listed(name) == IF name \in objs[s] THEN <<name>> ELSE <<>>
<1>1. \A name \in Names : listed(name) \in Seq(Names)
  OBVIOUS
<1>2. /\ listed("proxy") \in Seq(Names) /\ listed("runner") \in Seq(Names)
      /\ listed("proxy-svc") \in Seq(Names) /\ listed("proxy-egress") \in Seq(Names)
      /\ listed("proxy-ingress") \in Seq(Names) /\ listed("runner-egress") \in Seq(Names)
      /\ listed("secret") \in Seq(Names)
  BY <1>1 DEF Names
<1>3. Listing(s) = listed("proxy") \o listed("runner") \o listed("proxy-svc")
        \o listed("proxy-egress") \o listed("proxy-ingress") \o listed("runner-egress") \o listed("secret")
  BY DEF Listing
<1> HIDE DEF listed
<1> QED BY <1>2, <1>3

\* A sequence of names, as a set.
LEMMA SeqNames == ASSUME NEW q \in Seq(Names) PROVE ToSet(q) \subseteq Names
BY DEF ToSet

-----------------------------------------------------------------------------
(* The invariant.                                                          *)

\* Nothing exists before the spawns.
LEMMA KubeInitial == Init => KubeInv
<1> SUFFICES ASSUME Init PROVE KubeInv
  OBVIOUS
<1>1. Configured
  BY DEF Init, Configured
<1>2. Shapes
  <2>1. faults \in 0..MaxFaults
    BY KubeAssumption DEF Init
  <2>2. <<>> \in Seq(Names) /\ "idle" \in Stages
    BY DEF Stages, Early
  <2> QED BY <2>1, <2>2 DEF Init, Shapes
<1>3. \A s \in Spawns : StateOf(s)
  BY DEF Init, StateOf, AnsweredOf, ExistsOf, PreparedOf, Early, Deleting
<1>4. DenyShape
  BY DEF Init, DenyShape
<1> QED BY <1>1, <1>2, <1>3, <1>4 DEF KubeInv

\* A fault uses up one of those that are left.
LEMMA FaultsType == ASSUME Shapes, Works \/ Fails PROVE faults' \in 0..MaxFaults
BY KubeAssumption DEF Shapes, Works, Fails

\* Nothing but spawn s changes.
Others(s) ==
    \A t \in Spawns \ {s} :
        /\ objs'[t] = objs[t] /\ ending'[t] = ending[t] /\ pc'[t] = pc[t]
        /\ todo'[t] = todo[t] /\ errs'[t] = errs[t] /\ said'[t] = said[t]

\* Updating a function at one spawn keeps its type and its other values.
LEMMA UpdateOne ==
    ASSUME NEW T, NEW f \in [Spawns -> T], NEW s \in Spawns, NEW v \in T, NEW g,
           g = f \/ g = [f EXCEPT ![s] = v]
    PROVE  g \in [Spawns -> T] /\ \A t \in Spawns \ {s} : g[t] = f[t]
OBVIOUS

\* A step of one spawn concerns the others only through the namespaces that
\* are denied, and these stay so.
LEMMA StepOfOne ==
    ASSUME KubeInv, NEW s \in Spawns, UNCHANGED config, Shapes', Others(s), StateOf(s)',
           deny' \in {deny, deny \cup {input[s].namespace}}
    PROVE  KubeInv' /\ Others(s)
<1>1. Configured'
  BY DEF KubeInv, Configured, config
<1>2. ASSUME NEW t \in Spawns \ {s} PROVE StateOf(t)'
  <2>1. /\ objs'[t] = objs[t] /\ ending'[t] = ending[t] /\ pc'[t] = pc[t]
        /\ todo'[t] = todo[t] /\ errs'[t] = errs[t] /\ said'[t] = said[t]
    BY DEF Others
  <2>2. runner' = runner /\ input' = input
    BY DEF config
  <2>3. AnsweredOf(t)' /\ ExistsOf(t)'
    BY <2>1 DEF KubeInv, StateOf, AnsweredOf, ExistsOf
  <2>4. PreparedOf(t)'
    BY <2>1, <2>2 DEF KubeInv, StateOf, PreparedOf
  <2> QED BY <2>3, <2>4 DEF StateOf
<1>3. DenyShape'
  <2>1. input' = input
    BY DEF config
  <2> QED BY <2>1 DEF KubeInv, DenyShape
<1> QED BY <1>1, <1>2, <1>3 DEF KubeInv

\* Before the first object: Prepare, Admit, the default-deny policy, the files.
LEMMA PreparationPreserves ==
    ASSUME KubeInv, NEW s \in Spawns,
           Prepare(s) \/ Admit(s) \/ EnsureDefaultDenyPolicy(s) \/ ReadEgressFiles(s)
    PROVE  KubeInv' /\ Others(s)
<1>0. Shapes /\ StateOf(s)
  BY DEF KubeInv
<1> USE DEF Goto, Says, Refuses, config, world
<1>1. CASE Prepare(s)
  <2>1. Shapes' /\ Others(s) /\ UNCHANGED config /\ deny' = deny
    BY <1>0, <1>1, FaultsType DEF Prepare, Shapes, Others, Stages, Early
  <2>2. StateOf(s)'
    BY <1>0, <1>1 DEF Prepare, Shapes, StateOf, AnsweredOf, ExistsOf, PreparedOf, Early, Deleting
  <2> QED BY <2>1, <2>2, StepOfOne
<1>2. CASE Admit(s)
  <2>1. Shapes' /\ Others(s) /\ UNCHANGED config /\ deny' = deny
    BY <1>0, <1>2 DEF Admit, Shapes, Others, Stages, Early
  <2>2. StateOf(s)'
    BY <1>0, <1>2 DEF Admit, Shapes, StateOf, AnsweredOf, ExistsOf, PreparedOf, Early, Deleting
  <2> QED BY <2>1, <2>2, StepOfOne
<1>3. CASE EnsureDefaultDenyPolicy(s)
  <2>1. Shapes' /\ Others(s) /\ UNCHANGED config /\ deny' \in {deny, deny \cup {input[s].namespace}}
    BY <1>0, <1>3, FaultsType DEF EnsureDefaultDenyPolicy, Shapes, Others, Stages, Early
  <2>2. StateOf(s)'
    BY <1>0, <1>3 DEF EnsureDefaultDenyPolicy, Shapes, StateOf, AnsweredOf, ExistsOf, PreparedOf, Early, Deleting
  <2> QED BY <2>1, <2>2, StepOfOne
<1>4. CASE ReadEgressFiles(s)
  <2>1. Shapes' /\ Others(s) /\ UNCHANGED config /\ deny' = deny
    <3>1. todo' \in [Spawns -> Seq(Names)] /\ \A t \in Spawns \ {s} : todo'[t] = todo[t]
      <4>1. todo \in [Spawns -> Seq(Names)] /\ CreateOrder \in Seq(Names)
        BY <1>0, CreateOrderNames DEF Shapes
      <4>2. todo' = todo \/ todo' = [todo EXCEPT ![s] = CreateOrder]
        BY <1>4 DEF ReadEgressFiles
      <4> QED BY <4>1, <4>2, UpdateOne
    <3>2. /\ pc' \in [Spawns -> Stages] /\ \A t \in Spawns \ {s} : pc'[t] = pc[t] /\ said'[t] = said[t]
          /\ said' \in [Spawns -> {"nothing", "started", "partial", "rolledBack", "removed", "failed"}]
      BY <1>0, <1>4 DEF ReadEgressFiles, Shapes, Stages
    <3>3. objs' = objs /\ ending' = ending /\ dir' = dir /\ errs' = errs /\ UNCHANGED config /\ deny' = deny
      BY <1>4 DEF ReadEgressFiles
    <3>4. faults' \in 0..MaxFaults
      BY <1>0, <1>4, FaultsType DEF ReadEgressFiles
    <3> QED BY <1>0, <3>1, <3>2, <3>3, <3>4 DEF Shapes, Others
  <2>2. StateOf(s)'
    BY <1>0, <1>4, CreateOrderNames DEF ReadEgressFiles, Shapes, StateOf, AnsweredOf, ExistsOf, PreparedOf,
        Early, Deleting
  <2> QED BY <2>1, <2>2, StepOfOne
<1> QED BY <1>1, <1>2, <1>3, <1>4

\* A failed creation goes on to the rollback, or is at its end with an error.
LEMMA RollBackGoes ==
    ASSUME Shapes, NEW s \in Spawns, RollBack(s)
    PROVE  /\ pc' \in [Spawns -> Stages] /\ errs' \in [Spawns -> BOOLEAN]
           /\ \A t \in Spawns \ {s} : pc'[t] = pc[t] /\ errs'[t] = errs[t]
           /\ (pc'[s] = "list" /\ errs'[s] = errs[s]) \/ (pc'[s] = "done" /\ errs'[s] = TRUE)
BY DEF RollBack, Goto, Shapes, Stages, Deleting

\* Creation: each object that was asked for exists, the Secret before the rest.
LEMMA CreationPreserves ==
    ASSUME KubeInv, NEW s \in Spawns, ApplySpawn(s) \/ GetSecretFails(s) \/ Started(s)
    PROVE  KubeInv' /\ Others(s)
<1>0. Shapes /\ StateOf(s)
  BY DEF KubeInv
<1> USE DEF Goto, Says, config, world
<1>1. CASE ApplySpawn(s)
  <2> DEFINE name == Head(todo[s])
  <2>1. /\ pc[s] = "create" /\ todo[s] \in Seq(Names) /\ todo[s] # <<>>
        /\ UNCHANGED <<config, ending, deny, dir, said>> /\ faults' \in 0..MaxFaults
    BY <1>0, <1>1, FaultsType DEF ApplySpawn, Shapes
  <2>2. name \in Names /\ Tail(todo[s]) \in Seq(Names) /\ ToSet(todo[s]) \subseteq ToSet(Tail(todo[s])) \cup {name}
    BY <2>1, TailNames
  <2>3. todo[s] = CreateOrder => name = "secret"
    BY CreateOrderNames
  <2>4. CASE /\ objs' = [objs EXCEPT ![s] = @ \cup {name}]
             /\ todo' = [todo EXCEPT ![s] = Tail(@)] /\ UNCHANGED <<pc, errs>>
    <3> HIDE DEF name
    <3>1. Shapes' /\ Others(s)
      BY <1>0, <2>1, <2>2, <2>4 DEF Shapes, Others
    <3>2. objs'[s] = objs[s] \cup {name} /\ todo'[s] = Tail(todo[s]) /\ UNCHANGED <<pc, errs, said, ending, deny>>
      BY <1>0, <2>1, <2>4 DEF Shapes
    <3>3. "secret" \in objs'[s]
      BY <1>0, <2>1, <2>3, <3>2 DEF StateOf, ExistsOf
    <3>4. Names \ ToSet(todo'[s]) \subseteq objs'[s]
      BY <1>0, <2>1, <2>2, <3>2 DEF StateOf, ExistsOf
    <3>5. StateOf(s)'
      BY <1>0, <2>1, <3>2, <3>3, <3>4 DEF StateOf, AnsweredOf, ExistsOf, PreparedOf, Early, Deleting
    <3> QED BY <2>1, <3>1, <3>5, StepOfOne
  <2>5. CASE /\ objs' \in {objs, [objs EXCEPT ![s] = @ \cup {name}]}
             /\ todo' = [todo EXCEPT ![s] = <<>>] /\ RollBack(s)
    <3> HIDE DEF name
    <3>1. Shapes' /\ Others(s)
      <4>1. /\ objs' \in [Spawns -> SUBSET Names] /\ todo' \in [Spawns -> Seq(Names)]
            /\ \A t \in Spawns \ {s} : objs'[t] = objs[t] /\ todo'[t] = todo[t]
        <5>1. objs' \in [Spawns -> SUBSET Names] /\ \A t \in Spawns \ {s} : objs'[t] = objs[t]
          BY <1>0, <2>2, <2>5 DEF Shapes
        <5>2. todo' \in [Spawns -> Seq(Names)] /\ \A t \in Spawns \ {s} : todo'[t] = todo[t]
          BY <1>0, <2>5 DEF Shapes
        <5> QED BY <5>1, <5>2
      <4>2. /\ pc' \in [Spawns -> Stages] /\ errs' \in [Spawns -> BOOLEAN]
            /\ \A t \in Spawns \ {s} : pc'[t] = pc[t] /\ errs'[t] = errs[t]
        BY <1>0, <2>5, RollBackGoes
      <4>3. ending' = ending /\ dir' = dir /\ said' = said
        BY <2>1
      <4> QED BY <1>0, <2>1, <4>1, <4>2, <4>3 DEF Shapes, Others
    <3>2. objs'[s] \in {objs[s], objs[s] \cup {name}} /\ UNCHANGED <<said, ending, deny>>
      BY <1>0, <2>1, <2>5 DEF Shapes
    <3>3. (pc'[s] = "list" /\ errs'[s] = errs[s]) \/ (pc'[s] = "done" /\ errs'[s] = TRUE)
      BY <1>0, <2>5, RollBackGoes
    <3>4. objs'[s] # {} => "secret" \in objs'[s]
      BY <1>0, <2>1, <2>3, <3>2 DEF StateOf, ExistsOf
    <3>5. StateOf(s)'
      BY <1>0, <2>1, <3>2, <3>3, <3>4 DEF StateOf, AnsweredOf, ExistsOf, PreparedOf, Early, Deleting
    <3> QED BY <2>1, <3>1, <3>5, StepOfOne
  <2> QED BY <1>1, <2>4, <2>5 DEF ApplySpawn, CreateObject
<1>2. CASE GetSecretFails(s)
  <2>1. Shapes' /\ Others(s) /\ UNCHANGED config /\ deny' = deny
    <3>1. todo' \in [Spawns -> Seq(Names)] /\ \A t \in Spawns \ {s} : todo'[t] = todo[t]
      BY <1>0, <1>2 DEF GetSecretFails, Shapes
    <3>2. /\ pc' \in [Spawns -> Stages] /\ errs' \in [Spawns -> BOOLEAN]
          /\ \A t \in Spawns \ {s} : pc'[t] = pc[t] /\ errs'[t] = errs[t]
      BY <1>0, <1>2, RollBackGoes DEF GetSecretFails
    <3>3. objs' = objs /\ ending' = ending /\ dir' = dir /\ said' = said /\ UNCHANGED config /\ deny' = deny
      BY <1>2 DEF GetSecretFails
    <3>4. faults' \in 0..MaxFaults
      BY <1>0, <1>2, FaultsType DEF GetSecretFails
    <3> QED BY <1>0, <3>1, <3>2, <3>3, <3>4 DEF Shapes, Others
  <2>2. UNCHANGED <<said, objs, ending, deny, config>> /\ pc[s] = "create"
    BY <1>2 DEF GetSecretFails
  <2>3. (pc'[s] = "list" /\ errs'[s] = errs[s]) \/ (pc'[s] = "done" /\ errs'[s] = TRUE)
    BY <1>0, <1>2, RollBackGoes DEF GetSecretFails
  <2>4. StateOf(s)'
    BY <1>0, <2>2, <2>3 DEF StateOf, AnsweredOf, ExistsOf, PreparedOf, Early, Deleting
  <2> QED BY <2>1, <2>4, StepOfOne
<1>3. CASE Started(s)
  <2>1. Shapes' /\ Others(s) /\ UNCHANGED config /\ deny' = deny
    BY <1>0, <1>3 DEF Started, Shapes, Others, Stages
  <2>2. UNCHANGED <<objs, ending, deny, errs>> /\ pc'[s] = "started" /\ said'[s] = "started" /\ pc[s] = "create"
    BY <1>0, <1>3 DEF Started, Shapes
  <2>3. objs[s] = Names
    <3>1. todo[s] = <<>> /\ ToSet(<<>>) = {}
      BY <1>3 DEF Started, ToSet
    <3>2. Names \subseteq objs[s] /\ objs[s] \subseteq Names
      BY <1>0, <2>2, <3>1 DEF Shapes, StateOf, ExistsOf
    <3> QED BY <3>2
  <2>4. StateOf(s)'
    BY <1>0, <2>1, <2>2, <2>3 DEF StateOf, AnsweredOf, ExistsOf, PreparedOf, Early, Deleting
  <2> QED BY <2>1, <2>4, StepOfOne
<1> QED BY <1>1, <1>2, <1>3

\* Deletion: what is deleted is gone or on its way, and the Secret goes last.
LEMMA DeletionPreserves ==
    ASSUME KubeInv, NEW s \in Spawns,
           ListSpawnResources(s) \/ DeleteSpawnResource(s) \/ ConfirmDeleted(s)
               \/ (\E name \in Names : Vanish(s, name))
    PROVE  KubeInv' /\ Others(s)
<1>0. Shapes /\ StateOf(s)
  BY DEF KubeInv
<1> USE DEF Goto, config, world
<1>1. CASE ListSpawnResources(s)
  <2>1. Shapes' /\ Others(s) /\ UNCHANGED config /\ deny' = deny
    <3>1. todo' = todo \/ todo' = [todo EXCEPT ![s] = Listing(s)]
      BY <1>1 DEF ListSpawnResources
    <3>2. todo' \in [Spawns -> Seq(Names)] /\ \A t \in Spawns \ {s} : todo'[t] = todo[t]
      <4>1. todo \in [Spawns -> Seq(Names)] /\ Listing(s) \in Seq(Names)
        BY <1>0, ListingNames DEF Shapes
      <4> QED BY <3>1, <4>1, UpdateOne
    <3>3. /\ pc' \in [Spawns -> Stages] /\ errs' \in [Spawns -> BOOLEAN]
          /\ \A t \in Spawns \ {s} : pc'[t] = pc[t] /\ errs'[t] = errs[t]
      BY <1>0, <1>1 DEF ListSpawnResources, Shapes, Stages, Deleting
    <3>4. objs' = objs /\ ending' = ending /\ dir' = dir /\ said' = said /\ UNCHANGED config /\ deny' = deny
      BY <1>1 DEF ListSpawnResources
    <3>5. faults' \in 0..MaxFaults
      BY <1>0, <1>1, FaultsType DEF ListSpawnResources
    <3> QED BY <1>0, <3>2, <3>3, <3>4, <3>5 DEF Shapes, Others
  <2>2. /\ UNCHANGED <<objs, ending, said, deny, input>> /\ pc[s] = "list"
        /\ (pc'[s] = "delete" /\ errs'[s] = errs[s]) \/ (pc'[s] = "done" /\ errs'[s] = TRUE)
    BY <1>0, <1>1 DEF ListSpawnResources, Shapes
  <2>3. StateOf(s)'
    BY <1>0, <2>2 DEF StateOf, AnsweredOf, ExistsOf, PreparedOf, Early, Deleting
  <2> QED BY <2>1, <2>3, StepOfOne
<1>2. CASE DeleteSpawnResource(s)
  <2> DEFINE name == Head(todo[s])
  <2>1. /\ pc[s] = "delete" /\ todo[s] \in Seq(Names) /\ todo[s] # <<>> /\ faults' \in 0..MaxFaults
        /\ UNCHANGED <<config, deny, dir, said>> /\ (Deletes(s, name) \/ UNCHANGED <<objs, ending>>)
    BY <1>0, <1>2, FaultsType DEF DeleteSpawnResource, Shapes
  <2>2. \/ todo' = [todo EXCEPT ![s] = Tail(@)] /\ UNCHANGED <<pc, errs>>
        \/ /\ todo' = [todo EXCEPT ![s] = <<>>]
           /\ pc' = [pc EXCEPT ![s] = "done"] /\ errs' = [errs EXCEPT ![s] = TRUE]
    BY <1>2 DEF DeleteSpawnResource
  <2>3. Tail(todo[s]) \in Seq(Names)
    BY <2>1, TailNames
  <2>4. /\ objs' \in [Spawns -> SUBSET Names] /\ ending' \in [Spawns -> SUBSET Names]
        /\ \A t \in Spawns \ {s} : objs'[t] = objs[t] /\ ending'[t] = ending[t]
        /\ objs'[s] \subseteq objs[s] /\ ("secret" \in objs[s] => "secret" \in objs'[s])
        /\ ending'[s] \subseteq objs'[s] /\ ending'[s] \subseteq {"proxy", "runner", "secret"}
    <3> HIDE DEF name
    <3>1. CASE UNCHANGED <<objs, ending>>
      BY <1>0, <3>1 DEF Shapes, StateOf, ExistsOf
    <3>2. CASE name \in {"proxy", "runner", "secret"} /\ Deletes(s, name)
      <4>1. objs' = objs /\ ending' = [ending EXCEPT ![s] = @ \cup ({name} \cap objs[s])]
        BY <3>2 DEF Deletes
      <4>2. ending \in [Spawns -> SUBSET Names] /\ objs[s] \subseteq Names
        BY <1>0 DEF Shapes
      <4>3. /\ ending' \in [Spawns -> SUBSET Names] /\ ending'[s] = ending[s] \cup ({name} \cap objs[s])
            /\ \A t \in Spawns \ {s} : ending'[t] = ending[t]
        BY <4>1, <4>2
      <4> QED BY <1>0, <3>2, <4>1, <4>3 DEF Shapes, StateOf, ExistsOf
    <3>3. CASE name \notin {"proxy", "runner", "secret"} /\ Deletes(s, name)
      <4>1. objs' = [objs EXCEPT ![s] = @ \ {name}] /\ ending' = ending
        BY <3>3 DEF Deletes
      <4>2. name \notin ending[s]
        BY <1>0, <3>3 DEF StateOf, ExistsOf
      <4> QED BY <1>0, <3>3, <4>1, <4>2 DEF Shapes, StateOf, ExistsOf
    <3> QED BY <2>1, <3>1, <3>2, <3>3
  <2> HIDE DEF name
  <2>5. Shapes' /\ Others(s)
    <3>1. todo' \in [Spawns -> Seq(Names)] /\ \A t \in Spawns \ {s} : todo'[t] = todo[t]
      <4>1. todo \in [Spawns -> Seq(Names)] /\ <<>> \in Seq(Names)
        BY <1>0 DEF Shapes
      <4>2. todo' = [todo EXCEPT ![s] = Tail(todo[s])] \/ todo' = [todo EXCEPT ![s] = <<>>]
        BY <2>2
      <4> QED BY <2>3, <4>1, <4>2, UpdateOne
    <3>2. /\ pc' \in [Spawns -> Stages] /\ errs' \in [Spawns -> BOOLEAN]
          /\ \A t \in Spawns \ {s} : pc'[t] = pc[t] /\ errs'[t] = errs[t]
      BY <1>0, <2>2 DEF Shapes, Stages, Deleting
    <3>3. dir' = dir /\ said' = said
      BY <2>1
    <3> QED BY <1>0, <2>1, <2>4, <3>1, <3>2, <3>3 DEF Shapes, Others
  <2>6. (pc'[s] = "delete" /\ errs'[s] = errs[s]) \/ (pc'[s] = "done" /\ errs'[s] = TRUE)
    BY <1>0, <2>1, <2>2 DEF Shapes
  <2>7. StateOf(s)'
    BY <1>0, <2>1, <2>4, <2>6 DEF StateOf, AnsweredOf, ExistsOf, PreparedOf, Early, Deleting
  <2> QED BY <2>1, <2>5, <2>7, StepOfOne
<1>3. CASE ConfirmDeleted(s)
  <2>1. Shapes' /\ Others(s) /\ UNCHANGED config /\ deny' = deny
    BY <1>0, <1>3, FaultsType DEF ConfirmDeleted, Shapes, Others, Stages, Deleting
  <2>2. /\ UNCHANGED <<objs, ending, said, deny, input>> /\ pc[s] = "delete" /\ pc'[s] = "done"
        /\ (objs[s] = {} /\ errs'[s] = errs[s]) \/ errs'[s] = TRUE
    BY <1>0, <1>3 DEF ConfirmDeleted, Shapes
  <2>3. StateOf(s)'
    BY <1>0, <2>2 DEF StateOf, AnsweredOf, ExistsOf, PreparedOf, Early, Deleting
  <2> QED BY <2>1, <2>3, StepOfOne
<1>4. ASSUME NEW name \in Names, Vanish(s, name) PROVE KubeInv' /\ Others(s)
  <2>1. Shapes' /\ Others(s) /\ UNCHANGED config /\ deny' = deny
    BY <1>0, <1>4 DEF Vanish, Shapes, Others
  <2>2. /\ UNCHANGED <<pc, todo, errs, said, deny, config>> /\ name \in ending[s]
        /\ objs'[s] = objs[s] \ {name} /\ ending'[s] = ending[s] \ {name}
        /\ (name = "secret" => objs[s] = {name})
    BY <1>0, <1>4 DEF Vanish, Shapes
  <2>3. StateOf(s)'
    BY <1>0, <2>2 DEF StateOf, AnsweredOf, ExistsOf, PreparedOf, Early, Deleting
  <2> QED BY <2>1, <2>3, StepOfOne
<1> QED BY <1>1, <1>2, <1>3, <1>4

\* The answers, and what Execute makes of them.
LEMMA AnswersPreserve ==
    ASSUME KubeInv, NEW s \in Spawns,
           RolledBack(s) \/ WaitEnds(s) \/ BeginTeardown(s) \/ TornDown(s) \/ GiveUp(s)
    PROVE  KubeInv' /\ Others(s)
<1>0. Shapes /\ StateOf(s)
  BY DEF KubeInv
<1> USE DEF Goto, Says, Refuses, config, world
<1>1. CASE RolledBack(s)
  <2>1. Shapes' /\ Others(s) /\ UNCHANGED config /\ deny' = deny
    BY <1>0, <1>1 DEF RolledBack, Shapes, Others, Stages
  <2>2. StateOf(s)'
    BY <1>0, <1>1 DEF RolledBack, Shapes, StateOf, AnsweredOf, ExistsOf, PreparedOf, Early, Deleting
  <2> QED BY <2>1, <2>2, StepOfOne
<1>2. CASE WaitEnds(s)
  <2>1. Shapes' /\ Others(s) /\ UNCHANGED config /\ deny' = deny
    BY <1>0, <1>2 DEF WaitEnds, Shapes, Others, Stages
  <2>2. StateOf(s)'
    BY <1>0, <1>2 DEF WaitEnds, Shapes, StateOf, AnsweredOf, ExistsOf, PreparedOf, Early, Deleting
  <2> QED BY <2>1, <2>2, StepOfOne
<1>3. CASE BeginTeardown(s)
  <2>1. Shapes' /\ Others(s) /\ UNCHANGED config /\ deny' = deny
    BY <1>0, <1>3 DEF BeginTeardown, Shapes, Others, Stages, Deleting
  <2>2. StateOf(s)'
    BY <1>0, <1>3 DEF BeginTeardown, Shapes, StateOf, AnsweredOf, ExistsOf, PreparedOf, Early, Deleting
  <2> QED BY <2>1, <2>2, StepOfOne
<1>4. CASE TornDown(s)
  <2>1. Shapes' /\ Others(s) /\ UNCHANGED config /\ deny' = deny
    <3>1. faults' \in 0..MaxFaults /\ UNCHANGED <<objs, ending, todo, config, deny>>
      BY <1>0, <1>4, FaultsType DEF TornDown
    <3>2. /\ dir' \in [Spawns -> BOOLEAN] /\ errs' \in [Spawns -> BOOLEAN]
          /\ \A t \in Spawns \ {s} : errs'[t] = errs[t]
      BY <1>0, <1>4 DEF TornDown, Shapes
    <3>3. /\ pc' \in [Spawns -> Stages] /\ \A t \in Spawns \ {s} : pc'[t] = pc[t]
          /\ said' \in [Spawns -> {"nothing", "started", "partial", "rolledBack", "removed", "failed"}]
          /\ \A t \in Spawns \ {s} : said'[t] = said[t]
      BY <1>0, <1>4 DEF TornDown, Shapes, Stages
    <3> QED BY <1>0, <3>1, <3>2, <3>3 DEF Shapes, Others
  <2>2. StateOf(s)'
    BY <1>0, <1>4 DEF TornDown, Shapes, StateOf, AnsweredOf, ExistsOf, PreparedOf, Early, Deleting
  <2> QED BY <2>1, <2>2, StepOfOne
<1>5. CASE GiveUp(s)
  <2>1. Shapes' /\ Others(s) /\ UNCHANGED config /\ deny' = deny
    BY <1>0, <1>5 DEF GiveUp, Shapes, Others, Stages
  <2>2. StateOf(s)'
    BY <1>0, <1>5 DEF GiveUp, Shapes, StateOf, AnsweredOf, ExistsOf, PreparedOf, Early, Deleting
  <2> QED BY <2>1, <2>2, StepOfOne
<1> QED BY <1>1, <1>2, <1>3, <1>4, <1>5

\* Every step preserves the invariant.
LEMMA KubeStep == KubeInv /\ [Next]_vars => KubeInv'
<1> SUFFICES ASSUME KubeInv, [Next]_vars PROVE KubeInv'
  OBVIOUS
<1>1. ASSUME NEW s \in Spawns, Worker(s) \/ GiveUp(s) \/ \E name \in Names : Vanish(s, name)
      PROVE  KubeInv'
  BY <1>1, PreparationPreserves, CreationPreserves, DeletionPreserves, AnswersPreserve DEF Worker
<1>2. CASE UNCHANGED vars
  BY <1>2 DEF vars, config, KubeInv, Configured, Shapes, DenyShape, StateOf, AnsweredOf, ExistsOf, PreparedOf
<1> QED BY <1>1, <1>2 DEF Next, Settled

\* The invariant holds in every reachable state.
LEMMA KubeInvariant == Spec => []KubeInv
BY KubeInitial, KubeStep, PTL DEF Spec

\* The type invariant.
THEOREM KubeTypesHold == Spec => []KubeTypeOK
<1>1. KubeInv => KubeTypeOK
  BY SeqNames DEF KubeInv, Shapes, DenyShape, StateOf, ExistsOf, KubeTypeOK, Stages, Early, Deleting
<1> QED BY <1>1, KubeInvariant, PTL

-----------------------------------------------------------------------------
(* The contract.                                                           *)

\* A step of another spawn is none of this one's.
LEMMA OthersStutter ==
    ASSUME NEW s \in Spawns, NEW t \in Spawns \ {s}, Others(s)
    PROVE  UNCHANGED Contract(t)!vars
<1>1. objs'[t] = objs[t] /\ pc'[t] = pc[t] /\ said'[t] = said[t]
  BY DEF Others
<1> QED BY <1>1 DEF Contract!vars, Calling

\* Within a call: Spawn may add, a deletion only removes.
LEMMA WorkStep ==
    ASSUME NEW s \in Spawns, Calling(s)' = Calling(s), said'[s] = said[s],
           Calling(s) = "spawn" \/ objs'[s] \subseteq objs[s]
    PROVE  [Contract(s)!Next]_(Contract(s)!vars)
<1> DEFINE left == objs[s] # {}
<1>1. left' \in BOOLEAN
  OBVIOUS
<1>2. CASE Calling(s) = "spawn"
  BY <1>1, <1>2 DEF Contract!Next, Contract!Work, Contract!vars
<1>3. CASE left' = left
  BY <1>3 DEF Contract!vars
<1>4. CASE Calling(s) # "spawn" /\ left' # left
  <2>1. left' = FALSE
    BY <1>4
  <2> QED BY <2>1 DEF Contract!Next, Contract!Work, Contract!vars
<1> QED BY <1>2, <1>3, <1>4

\* Spawn is called and works on: it answers when it is refused, has started, or
\* its rollback has ended.
LEMMA SpawnKeepsContract ==
    ASSUME KubeInv, NEW s \in Spawns,
           \/ Prepare(s) \/ Admit(s) \/ EnsureDefaultDenyPolicy(s) \/ ReadEgressFiles(s)
           \/ ApplySpawn(s) \/ GetSecretFails(s) \/ Started(s) \/ RolledBack(s)
    PROVE  [Contract(s)!Next]_(Contract(s)!vars)
<1>0. Shapes /\ AnsweredOf(s) /\ ExistsOf(s)
  BY DEF KubeInv, StateOf
<1> USE DEF Goto, Says, Refuses, world
<1>1. CASE Prepare(s)
  <2>1. UNCHANGED <<objs, said>> /\ said[s] = "nothing" /\ Calling(s) = "none" /\ pc'[s] \in {"admit", "settled"}
    BY <1>0, <1>1 DEF Prepare, Shapes, Calling, AnsweredOf, Early
  <2>2. CASE pc'[s] = "admit"
    <3>1. Calling(s)' = "spawn"
      BY <2>1, <2>2 DEF Calling
    <3> QED BY <2>1, <3>1 DEF Contract!Next, Contract!CallSpawn
  <2>3. CASE pc'[s] = "settled"
    <3>1. Calling(s)' = "none"
      BY <2>1, <2>3 DEF Calling
    <3> QED BY <2>1, <3>1 DEF Contract!vars
  <2> QED BY <2>1, <2>2, <2>3
<1>2. CASE Admit(s) \/ EnsureDefaultDenyPolicy(s) \/ ReadEgressFiles(s)
  <2>1. /\ objs' = objs /\ objs[s] = {} /\ Calling(s) = "spawn"
        /\ \/ pc'[s] \in {"deny", "files", "create"} /\ said' = said
           \/ pc'[s] = "settled" /\ said'[s] = "rolledBack"
    BY <1>0, <1>2 DEF Admit, EnsureDefaultDenyPolicy, ReadEgressFiles, Shapes, Calling, AnsweredOf, ExistsOf, Early
  <2>2. CASE pc'[s] \in {"deny", "files", "create"} /\ said' = said
    <3>1. Calling(s)' = "spawn"
      BY <2>1, <2>2 DEF Calling
    <3> QED BY <2>1, <2>2, <3>1, WorkStep
  <2>3. CASE pc'[s] = "settled" /\ said'[s] = "rolledBack"
    <3>1. Calling(s)' = "none"
      BY <2>3 DEF Calling
    <3> QED BY <2>1, <2>3, <3>1 DEF Contract!Next, Contract!AnswerSpawn
  <2> QED BY <2>1, <2>2, <2>3
<1>3. CASE ApplySpawn(s) \/ GetSecretFails(s)
  <2>1. said' = said /\ Calling(s) = "spawn" /\ said[s] = "nothing" /\ pc'[s] \in {"create", "list", "done"}
    BY <1>0, <1>3, RollBackGoes DEF ApplySpawn, GetSecretFails, Shapes, Calling, AnsweredOf, Early
  <2>2. Calling(s)' = "spawn"
    BY <2>1 DEF Calling
  <2> QED BY <2>1, <2>2, WorkStep
<1>4. CASE Started(s)
  <2>1. Calling(s) = "spawn" /\ pc'[s] = "started" /\ said'[s] = "started"
    BY <1>0, <1>4 DEF Started, Shapes, Calling, AnsweredOf, Early
  <2>2. Calling(s)' = "none"
    BY <2>1 DEF Calling
  <2> QED BY <2>1, <2>2 DEF Contract!Next, Contract!AnswerSpawn
<1>5. CASE RolledBack(s)
  <2>1. /\ Calling(s) = "spawn" /\ objs' = objs
        /\ \/ pc'[s] = "call" /\ said'[s] = "partial"
           \/ pc'[s] = "settled" /\ said'[s] = "rolledBack" /\ objs[s] = {}
    BY <1>0, <1>5 DEF RolledBack, Shapes, Calling, AnsweredOf, ExistsOf, Early
  <2>2. Calling(s)' = "none"
    BY <2>1 DEF Calling
  <2> QED BY <2>1, <2>2 DEF Contract!Next, Contract!AnswerSpawn
<1> QED BY <1>1, <1>2, <1>3, <1>4, <1>5

\* Teardown, and what happens to a spawn between the calls.
LEMMA TeardownKeepsContract ==
    ASSUME KubeInv, NEW s \in Spawns,
           \/ WaitEnds(s) \/ BeginTeardown(s) \/ ListSpawnResources(s) \/ DeleteSpawnResource(s)
           \/ ConfirmDeleted(s) \/ TornDown(s) \/ GiveUp(s) \/ \E name \in Names : Vanish(s, name)
    PROVE  [Contract(s)!Next]_(Contract(s)!vars)
<1>0. Shapes /\ AnsweredOf(s) /\ ExistsOf(s)
  BY DEF KubeInv, StateOf
<1> USE DEF Goto, Says, world
<1>1. CASE WaitEnds(s) \/ GiveUp(s)
  <2>1. UNCHANGED <<objs, said>> /\ Calling(s) = "none" /\ pc'[s] \in {"call", "settled"}
    BY <1>0, <1>1 DEF WaitEnds, GiveUp, Shapes, Calling
  <2>2. Calling(s)' = "none"
    BY <2>1 DEF Calling
  <2> QED BY <2>1, <2>2 DEF Contract!vars
<1>2. CASE BeginTeardown(s)
  <2>1. /\ UNCHANGED <<objs, said>> /\ Calling(s) = "none" /\ pc'[s] = "list"
        /\ said[s] \in {"started", "partial", "failed"}
    BY <1>0, <1>2 DEF BeginTeardown, Shapes, Calling, AnsweredOf
  <2>2. Calling(s)' = "teardown"
    BY <2>1 DEF Calling
  <2> QED BY <2>1, <2>2 DEF Contract!Next, Contract!CallTeardown
<1>3. CASE ListSpawnResources(s) \/ DeleteSpawnResource(s) \/ ConfirmDeleted(s)
  <2>1. said' = said /\ pc[s] \in {"list", "delete"} /\ pc'[s] \in {"delete", "done"}
    BY <1>0, <1>3 DEF ListSpawnResources, DeleteSpawnResource, ConfirmDeleted, Shapes
  <2>2. objs'[s] \subseteq objs[s]
    BY <1>0, <1>3 DEF ListSpawnResources, DeleteSpawnResource, ConfirmDeleted, Deletes, Shapes
  <2>3. Calling(s)' = Calling(s)
    BY <2>1 DEF Calling
  <2> QED BY <2>1, <2>2, <2>3, WorkStep
<1>4. CASE TornDown(s)
  <2>1. /\ objs' = objs /\ Calling(s) = "teardown"
        /\ \/ pc'[s] = "call" /\ said'[s] = "failed"
           \/ pc'[s] = "settled" /\ said'[s] = "removed" /\ objs[s] = {}
    BY <1>0, <1>4 DEF TornDown, Shapes, Calling, AnsweredOf, ExistsOf
  <2>2. Calling(s)' = "none"
    BY <2>1 DEF Calling
  <2> QED BY <2>1, <2>2 DEF Contract!Next, Contract!AnswerTeardown
<1>5. CASE \E name \in Names : Vanish(s, name)
  <2>1. UNCHANGED <<pc, said>> /\ objs'[s] \subseteq objs[s]
    BY <1>0, <1>5 DEF Vanish, Shapes
  <2>2. Calling(s)' = Calling(s)
    BY <2>1 DEF Calling
  <2> QED BY <2>1, <2>2, WorkStep
<1> QED BY <1>1, <1>2, <1>3, <1>4, <1>5

\* For every spawn, whatever the others do, the backend keeps the contract that
\* Execute relies on: "rolled back" and "removed" are said only when nothing of
\* the spawn is left (Spawn, Teardown and DeleteSpawnScoped of backend/kube).
THEOREM KubeKeepsContract == Spec => KubeImplementsContract
<1>1. Init => \A s \in Spawns : Contract(s)!Init
  BY DEF Init, Contract!Init, Calling
<1>2. KubeInv /\ [Next]_vars => [\A s \in Spawns : [Contract(s)!Next]_(Contract(s)!vars)]_vars
  <2> SUFFICES ASSUME KubeInv, Next, NEW t \in Spawns PROVE [Contract(t)!Next]_(Contract(t)!vars)
    OBVIOUS
  <2>1. ASSUME NEW s \in Spawns, Worker(s) \/ GiveUp(s) \/ \E name \in Names : Vanish(s, name)
        PROVE  [Contract(t)!Next]_(Contract(t)!vars)
    <3>1. CASE t = s
      BY <2>1, <3>1, SpawnKeepsContract, TeardownKeepsContract DEF Worker
    <3>2. CASE t # s
      <4>1. Others(s)
        BY <2>1, PreparationPreserves, CreationPreserves, DeletionPreserves, AnswersPreserve DEF Worker
      <4> QED BY <3>2, <4>1, OthersStutter
    <3> QED BY <3>1, <3>2
  <2>2. CASE UNCHANGED vars
    BY <2>2 DEF vars, Contract!vars, Calling
  <2> QED BY <2>1, <2>2 DEF Next, Settled
<1> QED BY <1>1, <1>2, KubeInvariant, PTL DEF Spec, KubeImplementsContract

-----------------------------------------------------------------------------
(* The network policies.                                                   *)

\* A spawn's input names the spawn.
LEMMA InputNames ==
    ASSUME KubeInv, NEW s \in Spawns
    PROVE  input[s] = SpawnInput(scope, s, runner[s]) /\ input[s].id = s /\ s # "any"
<1>1. input[s] = SpawnInput(scope, s, runner[s])
  BY DEF KubeInv, Configured
<1>2. SpawnInput(scope, s, runner[s]).id = s
  BY DEF SpawnInput
<1> QED BY <1>1, <1>2, KubeAssumption

\* The pods of a spawn, as traffic sees them.
LEMMA PodIs ==
    ASSUME KubeInv, NEW s \in Spawns, NEW n \in {"runner", "proxy"}
    PROVE  Pod(s, n) = [pod |-> TRUE, range |-> "pods", ns |-> input[s].namespace, role |-> n, spawn |-> s]
<1>1. input[s].id = s
  BY InputNames
<1>2. LET o == SpawnObject(n, input[s])
      IN  o.meta.ns = input[s].namespace /\ o.meta.labels.role = n /\ o.meta.labels.spawn = s
  <2>1. CASE n = "runner"
    <3>1. SpawnObject(n, input[s]) = RunnerPod(input[s])
      BY <2>1 DEF SpawnObject
    <3> QED BY <1>1, <2>1, <3>1 DEF RunnerPod, Object, Labels
  <2>2. CASE n = "proxy"
    <3>1. SpawnObject(n, input[s]) = ProxyPod(input[s])
      BY <2>2 DEF SpawnObject
    <3> QED BY <1>1, <2>2, <3>1 DEF ProxyPod, Object, Labels
  <2> QED BY <2>1, <2>2
<1> QED BY <1>2 DEF Pod, PodEndpoint

\* A policy is a namespace's default-deny or one of three of a spawn.
LEMMA PolicyKinds ==
    ASSUME NEW p \in Policies
    PROVE  \/ \E ns \in deny : p = DefaultDenyNetworkPolicy(ns)
           \/ \E u \in Spawns :
                 \/ "runner-egress" \in objs[u] /\ p = RunnerEgressNetworkPolicy(input[u])
                 \/ "proxy-egress" \in objs[u] /\ p = ProxyEgressNetworkPolicy(input[u])
                 \/ "proxy-ingress" \in objs[u] /\ p = ProxyIngressNetworkPolicy(input[u])
<1>1. CASE p \in {DefaultDenyNetworkPolicy(ns) : ns \in deny}
  BY <1>1
<1>2. CASE \E u \in Spawns : \E n \in objs[u] \cap {"runner-egress", "proxy-egress", "proxy-ingress"} :
              p = SpawnObject(n, input[u])
  <2>0. PICK u \in Spawns : \E n \in objs[u] \cap {"runner-egress", "proxy-egress", "proxy-ingress"} :
            p = SpawnObject(n, input[u])
    BY <1>2
  <2>1. PICK n \in objs[u] \cap {"runner-egress", "proxy-egress", "proxy-ingress"} : p = SpawnObject(n, input[u])
    BY <2>0
  <2>2. /\ n = "runner-egress" => SpawnObject(n, input[u]) = RunnerEgressNetworkPolicy(input[u])
        /\ n = "proxy-egress" => SpawnObject(n, input[u]) = ProxyEgressNetworkPolicy(input[u])
        /\ n = "proxy-ingress" => SpawnObject(n, input[u]) = ProxyIngressNetworkPolicy(input[u])
    BY DEF SpawnObject
  <2> QED BY <2>1, <2>2
<1> QED BY <1>1, <1>2 DEF Policies

\* Conversely, these are policies as long as they exist.
LEMMA PoliciesPresent ==
    /\ \A ns \in deny : DefaultDenyNetworkPolicy(ns) \in Policies
    /\ \A u \in Spawns :
          /\ "runner-egress" \in objs[u] => RunnerEgressNetworkPolicy(input[u]) \in Policies
          /\ "proxy-egress" \in objs[u] => ProxyEgressNetworkPolicy(input[u]) \in Policies
          /\ "proxy-ingress" \in objs[u] => ProxyIngressNetworkPolicy(input[u]) \in Policies
<1>1. \A ns \in deny : DefaultDenyNetworkPolicy(ns) \in Policies
  BY DEF Policies
<1>2. ASSUME NEW u \in Spawns, NEW n \in objs[u] \cap {"runner-egress", "proxy-egress", "proxy-ingress"}
      PROVE  SpawnObject(n, input[u]) \in Policies
  BY DEF Policies
<1>3. ASSUME NEW u \in Spawns
      PROVE  /\ SpawnObject("runner-egress", input[u]) = RunnerEgressNetworkPolicy(input[u])
             /\ SpawnObject("proxy-egress", input[u]) = ProxyEgressNetworkPolicy(input[u])
             /\ SpawnObject("proxy-ingress", input[u]) = ProxyIngressNetworkPolicy(input[u])
  BY DEF SpawnObject
<1> QED BY <1>1, <1>2, <1>3

\* The fields of the policies.
LEMMA DenyFields ==
    ASSUME NEW ns
    PROVE  /\ DefaultDenyNetworkPolicy(ns).meta.ns = ns /\ DefaultDenyNetworkPolicy(ns).selects = Everyone
           /\ DefaultDenyNetworkPolicy(ns).types = {"Egress", "Ingress"}
           /\ DefaultDenyNetworkPolicy(ns).egress = {} /\ DefaultDenyNetworkPolicy(ns).ingress = {}
BY DEF DefaultDenyNetworkPolicy

LEMMA PolicyFields ==
    ASSUME NEW name, NEW in, NEW role, NEW selects, NEW types, NEW egress, NEW ingress
    PROVE  /\ Policy(name, in, role, selects, types, egress, ingress).meta.ns = in.namespace
           /\ Policy(name, in, role, selects, types, egress, ingress).selects = selects
           /\ Policy(name, in, role, selects, types, egress, ingress).types = types
           /\ Policy(name, in, role, selects, types, egress, ingress).egress = egress
           /\ Policy(name, in, role, selects, types, egress, ingress).ingress = ingress
BY DEF Policy, Object

\* The ports a runner finds open at its proxy.
OpenPorts(in) == Tcp({proxyPort} \cup in.tcp) \cup (IF in.dnsmasq THEN Dns ELSE {})

LEMMA RunnerEgressFields ==
    ASSUME NEW in
    PROVE  /\ RunnerEgressNetworkPolicy(in).meta.ns = in.namespace
           /\ RunnerEgressNetworkPolicy(in).selects = [role |-> "runner", spawn |-> in.id]
           /\ RunnerEgressNetworkPolicy(in).types = {"Egress"}
           /\ RunnerEgressNetworkPolicy(in).egress = {[peers |-> {PodPeer("proxy", in)}, ports |-> OpenPorts(in)],
                 [peers |-> clusterDNSPeers, ports |-> Dns]}
<1> DEFINE selects == [role |-> "runner", spawn |-> in.id]
           rules == {[peers |-> {PodPeer("proxy", in)}, ports |-> OpenPorts(in)],
                 [peers |-> clusterDNSPeers, ports |-> Dns]}
<1>1. RunnerEgressNetworkPolicy(in) = Policy("runner-egress", in, "runner", selects, {"Egress"}, rules, {})
  BY DEF RunnerEgressNetworkPolicy, OpenPorts
<1> HIDE DEF selects, rules
<1>2. /\ RunnerEgressNetworkPolicy(in).meta.ns = in.namespace /\ RunnerEgressNetworkPolicy(in).selects = selects
      /\ RunnerEgressNetworkPolicy(in).types = {"Egress"}
      /\ RunnerEgressNetworkPolicy(in).egress = rules
  BY <1>1, PolicyFields
<1> QED BY <1>2 DEF selects, rules

LEMMA ProxyEgressFields ==
    ASSUME NEW in
    PROVE  /\ ProxyEgressNetworkPolicy(in).meta.ns = in.namespace
           /\ ProxyEgressNetworkPolicy(in).selects = [role |-> "proxy", spawn |-> in.id]
           /\ ProxyEgressNetworkPolicy(in).types = {"Egress"}
           /\ ProxyEgressNetworkPolicy(in).egress = {[peers |-> clusterDNSPeers, ports |-> Dns],
                 [peers |-> {BlockPeer(Addresses \ Blocked)}, ports |-> AllPorts],
                 [peers |-> {BlockPeer(in.private)}, ports |-> AllPorts]}
<1> DEFINE selects == [role |-> "proxy", spawn |-> in.id]
           rules == {[peers |-> clusterDNSPeers, ports |-> Dns],
                 [peers |-> {BlockPeer(Addresses \ Blocked)}, ports |-> AllPorts],
                 [peers |-> {BlockPeer(in.private)}, ports |-> AllPorts]}
<1>1. ProxyEgressNetworkPolicy(in) = Policy("proxy-egress", in, "proxy", selects, {"Egress"}, rules, {})
  BY DEF ProxyEgressNetworkPolicy
<1> HIDE DEF selects, rules
<1>2. /\ ProxyEgressNetworkPolicy(in).meta.ns = in.namespace /\ ProxyEgressNetworkPolicy(in).selects = selects
      /\ ProxyEgressNetworkPolicy(in).types = {"Egress"}
      /\ ProxyEgressNetworkPolicy(in).egress = rules
  BY <1>1, PolicyFields
<1> QED BY <1>2 DEF selects, rules

LEMMA ProxyIngressFields ==
    ASSUME NEW in
    PROVE  /\ ProxyIngressNetworkPolicy(in).meta.ns = in.namespace
           /\ ProxyIngressNetworkPolicy(in).selects = [role |-> "proxy", spawn |-> in.id]
           /\ ProxyIngressNetworkPolicy(in).types = {"Ingress"}
           /\ ProxyIngressNetworkPolicy(in).ingress = {[peers |-> {PodPeer("runner", in)}, ports |-> OpenPorts(in)]}
<1> DEFINE selects == [role |-> "proxy", spawn |-> in.id]
           rules == {[peers |-> {PodPeer("runner", in)}, ports |-> OpenPorts(in)]}
<1>1. ProxyIngressNetworkPolicy(in) = Policy("proxy-ingress", in, "proxy", selects, {"Ingress"}, {}, rules)
  BY DEF ProxyIngressNetworkPolicy, OpenPorts
<1> HIDE DEF selects, rules
<1>2. /\ ProxyIngressNetworkPolicy(in).meta.ns = in.namespace /\ ProxyIngressNetworkPolicy(in).selects = selects
      /\ ProxyIngressNetworkPolicy(in).types = {"Ingress"}
      /\ ProxyIngressNetworkPolicy(in).ingress = rules
  BY <1>1, PolicyFields
<1> QED BY <1>2 DEF selects, rules

\* A pod of a spawn is selected in both directions: its namespace is denied
\* before the first object of the spawn is created, and stays denied.
LEMMA PodsDenied ==
    ASSUME KubeInv, NEW s \in Spawns, NEW n \in PodsOf(s), NEW type \in {"Egress", "Ingress"}
    PROVE  Selecting(Policies, Pod(s, n), type) # {}
<1> DEFINE ns == input[s].namespace
<1>1. ns \in deny /\ n \in {"runner", "proxy"}
  BY DEF KubeInv, StateOf, PreparedOf, PodsOf
<1>2. DefaultDenyNetworkPolicy(ns) \in Policies
  BY <1>1, PoliciesPresent
<1>3. SelectorMatches(Everyone, Pod(s, n)) /\ Pod(s, n).ns = ns
  BY <1>1, PodIs DEF SelectorMatches, Everyone
<1> QED BY <1>2, <1>3, DenyFields DEF Selecting

\* What a runner may open past the pods is cluster DNS.
LEMMA RunnerConfined ==
    ASSUME KubeInv, NEW s \in Spawns, "runner" \in objs[s], NEW range, NEW port,
           Sends(Policies, Pod(s, "runner"), Outside(range), port)
    PROVE  range = "dns" /\ port \in Dns
<1> DEFINE pod == Pod(s, "runner")
<1>1. pod.pod = TRUE /\ pod.role = "runner" /\ Selecting(Policies, pod, "Egress") # {}
  <2>1. "runner" \in PodsOf(s)
    BY DEF PodsOf
  <2>2. Selecting(Policies, pod, "Egress") # {}
    BY <2>1, PodsDenied
  <2>3. pod = [pod |-> TRUE, range |-> "pods", ns |-> input[s].namespace, role |-> "runner", spawn |-> s]
    BY PodIs
  <2> QED BY <2>2, <2>3
<1> HIDE DEF pod
<1>2. PICK p \in Selecting(Policies, pod, "Egress") : \E r \in p.egress : RuleAllows(p, r, Outside(range), port)
  BY <1>1 DEF Sends, pod
<1>3. p \in Policies /\ "Egress" \in p.types /\ p.selects.role \in {"any", "runner"} /\ p.egress # {}
  BY <1>1, <1>2 DEF Selecting, SelectorMatches
<1>4. PICK u \in Spawns : p = RunnerEgressNetworkPolicy(input[u])
  <2>1. ASSUME NEW u \in Spawns
        PROVE  /\ ProxyEgressNetworkPolicy(input[u]).selects.role = "proxy"
               /\ ProxyIngressNetworkPolicy(input[u]).types = {"Ingress"}
    <3>1. /\ ProxyEgressNetworkPolicy(input[u]).selects = [role |-> "proxy", spawn |-> input[u].id]
          /\ ProxyIngressNetworkPolicy(input[u]).types = {"Ingress"}
      BY ProxyEgressFields, ProxyIngressFields, Zenon
    <3> QED BY <3>1
  <2> QED BY <1>3, <2>1, PolicyKinds, DenyFields
<1>5. PICK r \in p.egress : RuleAllows(p, r, Outside(range), port)
  BY <1>2
<1>6. r \in {[peers |-> {PodPeer("proxy", input[u])}, ports |-> OpenPorts(input[u])],
             [peers |-> clusterDNSPeers, ports |-> Dns]}
  BY <1>4, <1>5, RunnerEgressFields
<1>7. PICK q \in r.peers : range \in q.block /\ port \in r.ports
  BY <1>5 DEF RuleAllows, SelectorMatches, Outside
<1>8. PodPeer("proxy", input[u]).block = {} /\ BlockPeer({"dns"}).block = {"dns"}
  BY DEF PodPeer, BlockPeer
<1> QED BY <1>6, <1>7, <1>8 DEF clusterDNSPeers

\* A pod accepts connections from the runner of its own spawn only, if at all.
LEMMA PodsApart ==
    ASSUME KubeInv, NEW s \in Spawns, NEW t \in Spawns, NEW m \in PodsOf(s), NEW n \in PodsOf(t), NEW port,
           Receives(Policies, Pod(s, m), Pod(t, n), port)
    PROVE  s = t /\ n = "proxy"
<1> DEFINE from == Pod(s, m)
           to == Pod(t, n)
<1>0. Selecting(Policies, to, "Ingress") # {}
  BY PodsDenied
<1>1. /\ from.spawn = s /\ from.pod = TRUE /\ to.pod = TRUE /\ to.role = n /\ to.spawn = t
  <2>1. m \in {"runner", "proxy"} /\ n \in {"runner", "proxy"}
    BY DEF PodsOf
  <2>2. from = [pod |-> TRUE, range |-> "pods", ns |-> input[s].namespace, role |-> m, spawn |-> s]
    BY <2>1, PodIs
  <2>3. to = [pod |-> TRUE, range |-> "pods", ns |-> input[t].namespace, role |-> n, spawn |-> t]
    BY <2>1, PodIs
  <2> QED BY <2>2, <2>3
<1> HIDE DEF from, to
<1>2. PICK p \in Selecting(Policies, to, "Ingress") : \E r \in p.ingress : RuleAllows(p, r, from, port)
  BY <1>0, <1>1 DEF Receives, from, to
<1>3. p \in Policies /\ "Ingress" \in p.types /\ p.selects.role \in {"any", n} /\ p.selects.spawn \in {"any", t}
      /\ p.ingress # {}
  BY <1>1, <1>2 DEF Selecting, SelectorMatches
<1>4. PICK u \in Spawns : p = ProxyIngressNetworkPolicy(input[u])
  <2>1. ASSUME NEW u \in Spawns
        PROVE  /\ ProxyEgressNetworkPolicy(input[u]).types = {"Egress"}
               /\ RunnerEgressNetworkPolicy(input[u]).types = {"Egress"}
    BY ProxyEgressFields, RunnerEgressFields
  <2>2. \A ns \in deny : p # DefaultDenyNetworkPolicy(ns)
    BY <1>3, DenyFields
  <2>3. "Ingress" \notin {"Egress"}
    OBVIOUS
  <2> QED BY <1>3, <2>1, <2>2, <2>3, PolicyKinds
<1>5. p.selects = [role |-> "proxy", spawn |-> input[u].id] /\ input[u].id = u /\ u # "any"
  BY <1>4, ProxyIngressFields, InputNames
<1>6. n = "proxy" /\ u = t
  BY <1>3, <1>5
<1>7. PICK r \in p.ingress : RuleAllows(p, r, from, port)
  BY <1>2
<1>8. r = [peers |-> {PodPeer("runner", input[u])}, ports |-> OpenPorts(input[u])]
  <2>1. p.ingress = {[peers |-> {PodPeer("runner", input[u])}, ports |-> OpenPorts(input[u])]}
    BY <1>4, ProxyIngressFields, Zenon
  <2> QED BY <1>7, <2>1
<1>9. PodPeer("runner", input[u]).block = {} /\ PodPeer("runner", input[u]).pods.spawn = u
  BY <1>5 DEF PodPeer
<1>10. SelectorMatches(PodPeer("runner", input[u]).pods, from)
  BY <1>7, <1>8, <1>9 DEF RuleAllows
<1> QED BY <1>1, <1>5, <1>6, <1>9, <1>10 DEF SelectorMatches

\* For any number of spawns in any namespaces and whatever private ranges are
\* approved: a runner opens no connection past its own proxy but to cluster
\* DNS, and no pod reaches a pod of another spawn or a runner, from creation
\* until the last pod is gone (the four network policies of kube/objects.go and
\* the order in which Spawn and DeleteSpawnScoped make and delete them).
THEOREM SpawnsStayConfined == Spec => []SpawnsConfined
<1>1. KubeInv => SpawnsConfined
  <2> SUFFICES ASSUME KubeInv PROVE SpawnsConfined
    OBVIOUS
  <2>1. ASSUME NEW s \in Spawns, "runner" \in objs[s], NEW range, NEW port,
               Sends(Policies, Pod(s, "runner"), Outside(range), port)
        PROVE  range = "dns" /\ port \in Dns
    BY <2>1, RunnerConfined
  <2>2. ASSUME NEW s \in Spawns, NEW t \in Spawns, NEW m \in PodsOf(s), NEW n \in PodsOf(t),
               s # t \/ n = "runner", NEW port
        PROVE  ~Connects(Policies, Pod(s, m), Pod(t, n), port)
    BY <2>2, PodsApart DEF Connects
  <2> QED BY <2>1, <2>2 DEF SpawnsConfined
<1> QED BY <1>1, KubeInvariant, PTL

-----------------------------------------------------------------------------
(* The configuration.                                                      *)

\* The fields of a spawn's input that are taken from its runner configuration.
LEMMA InputFields ==
    ASSUME KubeInv, NEW s \in Spawns
    PROVE  /\ input[s].repo = Block(scope, s).repo
           /\ input[s].namespace = route(scope, Block(scope, s).repo)
           /\ input[s].dnsmasq = runner[s].dnsmasq /\ input[s].tcp = ToSet(runner[s].tcp)
           /\ input[s].private = ResolvedPolicy(scope, runner[s]).private
           /\ input[s].memory = runner[s].memory /\ input[s].cpus = runner[s].cpus
           /\ input[s].files =
                 {"squid.conf", "haproxy.cfg"} \cup (IF runner[s].dnsmasq THEN {"dnsmasq.conf"} ELSE {})
<1>1. input[s] = SpawnInput(scope, s, runner[s])
  BY InputNames
<1> QED BY <1>1 DEF SpawnInput

\* A spawn's block is one of the scope's.
LEMMA BlockListed ==
    ASSUME KubeInv, NEW s \in Spawns
    PROVE  BlockOf[s] \in DOMAIN scope.repos /\ Block(scope, s) \in Blocks(scope)
<1>1. scope \in Scopes
  BY DEF KubeInv, Configured
<1>2. BlockOf[s] \in DOMAIN scope.repos
  BY <1>1, KubeAssumption
<1> QED BY <1>2 DEF Block, Blocks, ToSet

\* A shared scope has passed the validation of its projects and the enrollment.
LEMMA SharedValidated ==
    ASSUME KubeInv, SharedKubernetes(scope)
    PROVE  /\ IsInjective([i \in DOMAIN scope.repos |-> scope.repos[i].namespace])
           /\ \A b \in Blocks(scope) : validateApprovedRunner(b.runner) /\ Renders(scope, b.runner)
           /\ NewForProjects(scope.name, ProjectNamespaces(scope))
<1>1. Starts(scope) /\ Backend(scope) = "kube"
  BY DEF KubeInv, Configured
<1>2. validateProjects(scope)
  BY <1>1 DEF Starts, Validate
<1>3. NewForProjects(scope.name, ProjectNamespaces(scope))
  BY <1>1 DEF Starts
<1> QED BY <1>2, <1>3 DEF validateProjects

\* In shared mode a spawn has the operator's configuration.
LEMMA SharedRunner ==
    ASSUME KubeInv, SharedKubernetes(scope), NEW s \in Spawns
    PROVE  runner[s] = Block(scope, s).runner
<1>1. runner[s] \in RunnerYML(scope, s)
  BY DEF KubeInv, Configured
<1> QED BY <1>1 DEF RunnerYML

\* What a spawn's configuration is parsed from has been parsed.
LEMMA RunnerParsed ==
    ASSUME KubeInv, NEW s \in Spawns
    PROVE  Parsed(runner[s])
<1>1. runner[s] \in RunnerYML(scope, s) /\ scope \in Scopes
  BY DEF KubeInv, Configured
<1>2. CASE SharedKubernetes(scope)
  <2>1. runner[s] = Block(scope, s).runner /\ Block(scope, s) \in Blocks(scope)
    BY <1>2, SharedRunner, BlockListed
  <2>2. Block(scope, s).runner # Unset
    BY <1>2, <2>1, SharedValidated DEF validateApprovedRunner
  <2> QED BY <1>1, <2>1, <2>2, KubeAssumption
<1>3. CASE ~SharedKubernetes(scope)
  BY <1>1, <1>3, KubeAssumption DEF RunnerYML
<1> QED BY <1>2, <1>3

\* In shared mode the routes are those of the blocks: the enrollment leaves no
\* two projects that could be taken for each other.
LEMMA SharedRoutes ==
    ASSUME KubeInv, SharedKubernetes(scope), NEW s \in Spawns
    PROVE  input[s].namespace = Block(scope, s).namespace
<1> DEFINE b == Block(scope, s)
           own == [repo |-> b.repo, ns |-> b.namespace]
           found == CHOOSE p \in ProjectNamespaces(scope) : p.repo = b.repo
<1>1. own \in ProjectNamespaces(scope) /\ own.repo = b.repo
  BY BlockListed DEF ProjectNamespaces
<1>2. found \in ProjectNamespaces(scope) /\ found.repo = b.repo
  BY <1>1
<1>3. input[s].namespace = found.ns
  BY InputFields DEF route
<1> HIDE DEF found
<1>4. \A p, q \in ProjectNamespaces(scope) : p # q => RepoLabel(p.repo) # RepoLabel(q.repo)
  BY SharedValidated DEF NewForProjects
<1>5. found = own
  BY <1>1, <1>2, <1>4
<1> QED BY <1>3, <1>5

-----------------------------------------------------------------------------
(* Nothing is refused.                                                     *)

\* The ports of tcp_egress are finitely many.
LEMMA PortsFinite == ASSUME NEW q \in Seq(Nat) PROVE IsFiniteSet(Tcp(ToSet(q)))
<1> DEFINE f == [i \in 1..Len(q) |-> <<"tcp", q[i]>>]
<1>1. Len(q) \in Nat /\ DOMAIN q = 1..Len(q)
  OBVIOUS
<1>2. f \in Surjection(1..Len(q), Tcp(ToSet(q)))
  <2>1. f \in [1..Len(q) -> Tcp(ToSet(q))]
    BY <1>1 DEF Tcp, ToSet
  <2>2. ASSUME NEW x \in Tcp(ToSet(q)) PROVE \E i \in 1..Len(q) : f[i] = x
    BY <1>1 DEF Tcp, ToSet
  <2> QED BY <2>1, <2>2 DEF Surjection
<1>3. IsFiniteSet(1..Len(q))
  BY <1>1, FS_Interval
<1> QED BY <1>2, <1>3, FS_Surjection

\* Two finite sets without a common element.
LEMMA DisjointUnion ==
    ASSUME NEW S, NEW T, IsFiniteSet(S), IsFiniteSet(T), S \cap T = {}
    PROVE  IsFiniteSet(S \cup T) /\ Cardinality(S \cup T) = Cardinality(S) + Cardinality(T)
<1>1. /\ Cardinality(S) \in Nat /\ Cardinality(T) \in Nat
      /\ IsFiniteSet(S \cup T) /\ Cardinality(S \cup T) = Cardinality(S) + Cardinality(T) - Cardinality(S \cap T)
  BY FS_CardinalityType, FS_Union
<1>2. Cardinality(S \cap T) = 0
  BY FS_EmptySet
<1> QED BY <1>1, <1>2

\* A Service with validated ports lists none twice.
LEMMA ServiceOfValidated ==
    ASSUME KubeInv, NEW s \in Spawns, ValidateEgress(runner[s])
    PROVE  ServiceAdmitted(ProxyService(input[s]))
<1> DEFINE squid == Tcp({proxyPort})
           dns == IF input[s].dnsmasq THEN Dns ELSE {}
           tcp == Tcp(input[s].tcp)
<1>1. /\ ProxyService(input[s]).listed.squid = squid /\ ProxyService(input[s]).listed.dns = dns
      /\ ProxyService(input[s]).listed.tcp = tcp
  BY DEF ProxyService
<1>2. IsFiniteSet(squid) /\ IsFiniteSet(dns) /\ IsFiniteSet(tcp)
  <2>1. squid = {<<"tcp", proxyPort>>} /\ Dns = {<<"tcp", dnsPort>>} \cup {<<"udp", dnsPort>>}
    BY DEF Tcp, Dns
  <2>2. IsFiniteSet(squid)
    BY <2>1, FS_Singleton
  <2>3. IsFiniteSet(Dns)
    BY <2>1, FS_Singleton, FS_AddElement
  <2>4. IsFiniteSet(tcp)
    BY RunnerParsed, InputFields, PortsFinite DEF Parsed
  <2> QED BY <2>2, <2>3, <2>4, FS_EmptySet
<1>3. proxyPort \notin input[s].tcp /\ (input[s].dnsmasq => dnsPort \notin input[s].tcp)
  BY InputFields DEF ValidateEgress
<1>4. squid \cap dns = {} /\ (squid \cup dns) \cap tcp = {}
  BY <1>3 DEF Tcp, Dns, proxyPort, dnsPort
<1> HIDE DEF squid, dns, tcp
<1>5. IsFiniteSet(squid \cup dns) /\ Cardinality(squid \cup dns) = Cardinality(squid) + Cardinality(dns)
  BY <1>2, <1>4, DisjointUnion
<1>6. Cardinality((squid \cup dns) \cup tcp) = Cardinality(squid \cup dns) + Cardinality(tcp)
  BY <1>2, <1>4, <1>5, DisjointUnion
<1> QED BY <1>1, <1>5, <1>6 DEF ServiceAdmitted, ServicePorts

\* The builders make what the deletion expects.
LEMMA ObjectsAreOwn ==
    ASSUME NEW in, NEW name \in Names
    PROVE  IsSpawnResource(SpawnObject(name, in).meta, in)
<1> DEFINE o == SpawnObject(name, in).meta
<1>1. /\ o.name = name /\ o.labels.repo = RepoLabel(in.repo) /\ o.owner \in {"secret", "none"}
      /\ \/ name = "secret" /\ o.kind = "secret" /\ o.labels.role = "proxy"
         \/ name = "proxy-svc" /\ o.kind = "service" /\ o.labels.role = "proxy"
         \/ name = "runner-egress" /\ o.kind = "networkpolicy" /\ o.labels.role = "runner"
         \/ name \in {"proxy-egress", "proxy-ingress"} /\ o.kind = "networkpolicy" /\ o.labels.role = "proxy"
         \/ name = "proxy" /\ o.kind = "pod" /\ o.labels.role = "proxy"
         \/ name = "runner" /\ o.kind = "pod" /\ o.labels.role = "runner"
  <2>1. CASE name = "secret"
    BY <2>1 DEF SpawnObject, SpawnSecret, Object, Labels
  <2>2. CASE name = "proxy-svc"
    BY <2>2 DEF SpawnObject, ProxyService, Object, Labels
  <2>3. CASE name = "runner-egress"
    BY <2>3 DEF SpawnObject, RunnerEgressNetworkPolicy, Policy, Object, Labels
  <2>4. CASE name = "proxy-egress"
    BY <2>4 DEF SpawnObject, ProxyEgressNetworkPolicy, Policy, Object, Labels
  <2>5. CASE name = "proxy-ingress"
    BY <2>5 DEF SpawnObject, ProxyIngressNetworkPolicy, Policy, Object, Labels
  <2>6. CASE name = "proxy"
    BY <2>6 DEF SpawnObject, ProxyPod, Object, Labels
  <2>7. CASE name = "runner"
    BY <2>7 DEF SpawnObject, RunnerPod, Object, Labels
  <2> QED BY <2>1, <2>2, <2>3, <2>4, <2>5, <2>6, <2>7 DEF Names
<1> HIDE DEF o
<1>2. o.labels.role = expectedSpawnResourceRole(o.kind, o.name)
  BY <1>1 DEF expectedSpawnResourceRole
<1> QED BY <1>1, <1>2 DEF IsSpawnResource, o

\* What one step lets pass, the next does not refuse, whatever scope the
\* process has started with: the validators of scope and runner configuration,
\* the renderer, the API server, appendSpawnResource and the pods' mounts agree.
THEOREM ChecksAgree == Spec => []NothingRefused
<1>1. ASSUME KubeInv, NEW s \in Spawns, SharedKubernetes(scope)
      PROVE  ValidateEgress(runner[s]) /\ Renders(scope, runner[s]) /\ InputValid(s)
  <2>1. runner[s] = Block(scope, s).runner /\ Block(scope, s) \in Blocks(scope)
    BY <1>1, SharedRunner, BlockListed
  <2>2. validateApprovedRunner(runner[s]) /\ Renders(scope, runner[s])
    BY <1>1, <2>1, SharedValidated
  <2>3. input[s].memory = runner[s].memory /\ input[s].cpus = runner[s].cpus
    BY <1>1, InputFields
  <2> QED BY <2>2, <2>3 DEF validateApprovedRunner, InputValid
<1>2. ASSUME KubeInv, NEW s \in Spawns, pc[s] = "create", NEW name
      PROVE  Admitted(s, name)
  <2>1. ValidateEgress(runner[s])
    BY <1>2 DEF KubeInv, StateOf, PreparedOf
  <2> QED BY <1>2, <2>1, ServiceOfValidated DEF Admitted
<1>3. ASSUME KubeInv, NEW s \in Spawns PROVE AllOwn(s)
  BY <1>3, ObjectsAreOwn DEF AllOwn, KubeInv, Shapes
<1>4. ASSUME KubeInv, NEW s \in Spawns, NEW n \in PodsOf(s)
      PROVE  "secret" \in objs[s] /\ SpawnObject(n, input[s]).keys \subseteq SpawnSecret(input[s]).keys
  <2>1. "secret" \in objs[s] /\ n \in {"runner", "proxy"}
    BY <1>4 DEF KubeInv, StateOf, ExistsOf, PodsOf
  <2>2. SpawnSecret(input[s]).keys = {"jit-config"} \cup input[s].files
    BY DEF SpawnSecret
  <2>3. /\ input[s].files = {"squid.conf", "haproxy.cfg"} \cup (IF runner[s].dnsmasq THEN {"dnsmasq.conf"} ELSE {})
        /\ input[s].dnsmasq = runner[s].dnsmasq
    BY <1>4, InputFields
  <2>4. CASE n = "runner"
    BY <2>1, <2>2, <2>4 DEF SpawnObject, RunnerPod
  <2>5. CASE n = "proxy"
    <3>1. SpawnObject(n, input[s]).keys =
              {"squid.conf", "haproxy.cfg"} \cup (IF input[s].dnsmasq THEN {"dnsmasq.conf"} ELSE {})
      BY <2>5 DEF SpawnObject, ProxyPod
    <3> QED BY <2>1, <2>2, <2>3, <3>1
  <2> QED BY <2>1, <2>4, <2>5
<1>5. KubeInv => NothingRefused
  BY <1>1, <1>2, <1>3, <1>4 DEF NothingRefused
<1> QED BY <1>5, KubeInvariant, PTL

\* Once a scope declares a setting of shared mode, every spawn of it runs on the
\* operator's configuration, in a namespace that neither the controller nor
\* another project has, under labels no other project has (route and
\* NewForProjects, with what validateProjects has let pass).
THEOREM EnrolledStayApart == Spec => []EnrolledApart
<1>1. KubeInv => EnrolledApart
  <2> SUFFICES ASSUME KubeInv, \E b \in Blocks(scope) : b.declared \/ b.runner # Unset \/ b.namespace # Unset
               PROVE  \A s, t \in Spawns :
                        /\ runner[s] = Block(scope, s).runner /\ input[s].namespace # Namespace(scope.name)
                        /\ Block(scope, s) # Block(scope, t) =>
                              /\ input[s].namespace # input[t].namespace
                              /\ RepoLabel(Block(scope, s).repo) # RepoLabel(Block(scope, t).repo)
    BY DEF EnrolledApart
  <2>1. SharedKubernetes(scope)
    BY DEF SharedKubernetes
  <2> DEFINE project(s) == [repo |-> Block(scope, s).repo, ns |-> Block(scope, s).namespace]
  <2>2. ASSUME NEW s \in Spawns
        PROVE  /\ runner[s] = Block(scope, s).runner /\ input[s].namespace = project(s).ns
               /\ project(s) \in ProjectNamespaces(scope)
    BY <2>1, SharedRunner, SharedRoutes, BlockListed DEF ProjectNamespaces
  <2>3. \A p \in ProjectNamespaces(scope) : p.ns # Namespace(scope.name)
    BY <2>1, SharedValidated DEF NewForProjects, NamespaceAllowed
  <2>4. ASSUME NEW s \in Spawns, NEW t \in Spawns, Block(scope, s) # Block(scope, t)
        PROVE  project(s).ns # project(t).ns /\ RepoLabel(project(s).repo) # RepoLabel(project(t).repo)
    <3>1. BlockOf[s] # BlockOf[t] /\ BlockOf[s] \in DOMAIN scope.repos /\ BlockOf[t] \in DOMAIN scope.repos
      BY <2>4, BlockListed DEF Block
    <3>2. Block(scope, s).namespace # Block(scope, t).namespace
      BY <2>1, <3>1, SharedValidated DEF IsInjective, Block
    <3>3. project(s) # project(t)
      BY <3>2
    <3> QED BY <2>1, <2>2, <3>2, <3>3, SharedValidated DEF NewForProjects
  <2>5. ASSUME NEW s \in Spawns
        PROVE  runner[s] = Block(scope, s).runner /\ input[s].namespace # Namespace(scope.name)
    BY <2>2, <2>3
  <2>6. ASSUME NEW s \in Spawns, NEW t \in Spawns, Block(scope, s) # Block(scope, t)
        PROVE  /\ input[s].namespace # input[t].namespace
               /\ RepoLabel(Block(scope, s).repo) # RepoLabel(Block(scope, t).repo)
    BY <2>2, <2>4, <2>6
  <2> QED BY <2>5, <2>6
<1> QED BY <1>1, KubeInvariant, PTL

-----------------------------------------------------------------------------
(* The proxy serves its runner.                                            *)

PolicyKeys == {"allowWildcards", "suffixMatch", "wildcards", "private"}

\* Overrides leave how dnsmasq matches alone, and take back no permission.
LEMMA OverridesApplied ==
    ASSUME NEW base, DOMAIN base = PolicyKeys, base.allowWildcards \in BOOLEAN, NEW allowed, NEW o
    PROVE  LET policy == ApplyProjectOverrides(base, allowed, o)
           IN  /\ DOMAIN policy = PolicyKeys /\ policy.suffixMatch = base.suffixMatch
               /\ policy.allowWildcards \in BOOLEAN /\ (base.allowWildcards => policy.allowWildcards)
               /\ policy.wildcards \in {o.wildcards, base.wildcards}
BY DEF ApplyProjectOverrides, PolicyKeys

\* A policy that matches suffixes in dnsmasq allows wildcards in Squid, and its
\* wildcards are names of hosts.
LEMMA PolicyResolved ==
    ASSUME KubeInv, NEW s \in Spawns
    PROVE  /\ ResolvedPolicy(scope, runner[s]).suffixMatch => ResolvedPolicy(scope, runner[s]).allowWildcards
           /\ ResolvedPolicy(scope, runner[s]).wildcards \subseteq [star : BOOLEAN, name : Domains]
<1> DEFINE start == Defaults(scope.profile)
           base == buildBasePolicy(scope)
           policy == ResolvedPolicy(scope, runner[s])
<1>1. /\ DOMAIN start = PolicyKeys /\ start.allowWildcards \in BOOLEAN
      /\ start.allowWildcards = start.suffixMatch /\ start.wildcards = {}
  BY DEF Defaults, PolicyKeys
<1>2. base = ApplyProjectOverrides(start, OverrideKeys, scope.overrides)
  BY DEF buildBasePolicy
<1>3. policy = ApplyProjectOverrides(base, scope.allowed, runner[s].overrides)
  BY DEF ResolvedPolicy
<1>4. /\ scope.overrides.wildcards \subseteq [star : BOOLEAN, name : Domains]
      /\ runner[s].overrides.wildcards \subseteq [star : BOOLEAN, name : Domains]
  BY RunnerParsed, KubeAssumption DEF KubeInv, Configured, Parsed, Overrides
<1> HIDE DEF start, base, policy
<1>5. /\ DOMAIN base = PolicyKeys /\ base.allowWildcards \in BOOLEAN
      /\ base.suffixMatch = start.suffixMatch /\ (start.allowWildcards => base.allowWildcards)
      /\ base.wildcards \in {scope.overrides.wildcards, {}}
  <2>1. /\ DOMAIN base = PolicyKeys /\ base.suffixMatch = start.suffixMatch
        /\ base.allowWildcards \in BOOLEAN /\ (start.allowWildcards => base.allowWildcards)
        /\ base.wildcards \in {scope.overrides.wildcards, start.wildcards}
    BY <1>1, <1>2, OverridesApplied
  <2> QED BY <1>1, <2>1
<1>6. /\ policy.suffixMatch = base.suffixMatch /\ (base.allowWildcards => policy.allowWildcards)
      /\ policy.wildcards \in {runner[s].overrides.wildcards, base.wildcards}
  BY <1>3, <1>5, OverridesApplied
<1> QED BY <1>1, <1>4, <1>5, <1>6 DEF policy

\* The first rule that matches decides.
LEMMA FirstMatch ==
    ASSUME NEW rules, DOMAIN rules = 1..6, NEW q, NEW k \in 1..6, q \in rules[k].acl,
           \A j \in 1..6 : j < k => q \notin rules[j].acl
    PROVE  Allows(rules, q) = rules[k].allow
<1> DEFINE S == {i \in 1..6 : q \in rules[i].acl}
<1>1. k \in S /\ \A y \in S : k <= y
  OBVIOUS
<1>2. Min(S) = k
  <2>1. Min(S) \in S /\ \A y \in S : Min(S) <= y
    BY <1>1 DEF Min
  <2> HIDE DEF S
  <2>2. Min(S) <= k /\ k <= Min(S) /\ Min(S) \in 1..6
    BY <1>1, <2>1 DEF S
  <2> QED BY <2>2
<1> QED BY <1>2 DEF Allows

\* What Squid lets through: CONNECT to the TLS port, to an approved private
\* range or else to no blocked one and to a domain that is listed.
LEMMA SquidAllows ==
    ASSUME NEW r, NEW policy, NEW q \in Asks
    PROVE  Allows(RenderSquid(r, policy), q) <=>
              /\ q.ssl
              /\ \/ q.to \in policy.private
                 \/ /\ q.to \notin Blocked
                    /\ q \in DstDomain(GitHubCoreDomains \cup BuiltInEgressDomains)
                          \cup DstDomain(AllowedDomains(r, policy))
<1> DEFINE rules == RenderSquid(r, policy)
           core == DstDomain(GitHubCoreDomains \cup BuiltInEgressDomains)
           listed == DstDomain(AllowedDomains(r, policy))
           plain == {p \in Asks : ~p.ssl}
<1>1. /\ DOMAIN rules = 1..6
      /\ rules[1].acl = plain /\ rules[1].allow = FALSE
      /\ rules[2].acl = Dst(policy.private) /\ rules[2].allow = TRUE
      /\ rules[3].acl = Dst(Blocked) /\ rules[3].allow = FALSE
      /\ rules[4].acl = core /\ rules[4].allow = TRUE
      /\ rules[5].acl = listed /\ rules[5].allow = TRUE
      /\ rules[6].acl = Asks /\ rules[6].allow = FALSE
  BY DEF RenderSquid
<1>2. /\ (q \in plain <=> ~q.ssl) /\ (q \in Dst(policy.private) <=> q.to \in policy.private)
      /\ (q \in Dst(Blocked) <=> q.to \in Blocked)
  BY DEF Dst
<1> HIDE DEF rules, core, listed, plain
<1>3. ASSUME NEW k \in 1..6, q \in rules[k].acl, \A j \in 1..6 : j < k => q \notin rules[j].acl
      PROVE  Allows(rules, q) = rules[k].allow
  BY <1>1, <1>3, FirstMatch
<1>4. CASE q \in plain
  <2>1. Allows(rules, q) = FALSE
    BY <1>1, <1>3, <1>4
  <2> QED BY <1>2, <1>4, <2>1 DEF rules
<1>5. CASE q \notin plain /\ q \in Dst(policy.private)
  <2>1. Allows(rules, q) = TRUE
    <3>1. q \in rules[2].acl /\ \A j \in 1..6 : j < 2 => q \notin rules[j].acl
      BY <1>1, <1>5
    <3> QED BY <1>1, <1>3, <3>1
  <2> QED BY <1>2, <1>5, <2>1 DEF rules
<1>6. CASE q \notin plain /\ q \notin Dst(policy.private) /\ q \in Dst(Blocked)
  <2>1. Allows(rules, q) = FALSE
    <3>1. q \in rules[3].acl /\ \A j \in 1..6 : j < 3 => j = 1 \/ j = 2
      BY <1>1, <1>6
    <3> QED BY <1>1, <1>3, <1>6, <3>1
  <2> QED BY <1>2, <1>6, <2>1 DEF rules
<1>7. CASE q \notin plain /\ q \notin Dst(policy.private) /\ q \notin Dst(Blocked) /\ q \in core
  <2>1. Allows(rules, q) = TRUE
    <3>1. q \in rules[4].acl /\ \A j \in 1..6 : j < 4 => j = 1 \/ j = 2 \/ j = 3
      BY <1>1, <1>7
    <3> QED BY <1>1, <1>3, <1>7, <3>1
  <2> QED BY <1>2, <1>7, <2>1 DEF rules, core
<1>8. CASE /\ q \notin plain /\ q \notin Dst(policy.private) /\ q \notin Dst(Blocked)
           /\ q \notin core /\ q \in listed
  <2>1. Allows(rules, q) = TRUE
    <3>1. q \in rules[5].acl /\ \A j \in 1..6 : j < 5 => j = 1 \/ j = 2 \/ j = 3 \/ j = 4
      BY <1>1, <1>8
    <3> QED BY <1>1, <1>3, <1>8, <3>1
  <2> QED BY <1>2, <1>8, <2>1 DEF rules, listed
<1>9. CASE /\ q \notin plain /\ q \notin Dst(policy.private) /\ q \notin Dst(Blocked)
           /\ q \notin core /\ q \notin listed
  <2>1. Allows(rules, q) = FALSE
    <3>1. q \in rules[6].acl /\ \A j \in 1..6 : j < 6 => j = 1 \/ j = 2 \/ j = 3 \/ j = 4 \/ j = 5
      BY <1>1, <1>9
    <3> QED BY <1>1, <1>3, <1>9, <3>1
  <2> QED BY <1>2, <1>9, <2>1 DEF rules, core, listed
<1> QED BY <1>4, <1>5, <1>6, <1>7, <1>8, <1>9

\* Of the ranges, what a policy lets be reached: the approved ones and the world.
Reachable(private) == {range \in Addresses : range \in private \/ range = "world"}

LEMMA WorldIsOpen == "world" \in Addresses /\ Addresses \ Blocked = {"world"}
BY KubeAssumption DEF Addresses, Blocked

\* Squid reaches these ranges,
LEMMA SquidReaches ==
    ASSUME NEW r, NEW policy
    PROVE  {q.to : q \in {p \in Asks : Allows(RenderSquid(r, policy), p)}} = Reachable(policy.private)
<1> DEFINE allowed == {p \in Asks : Allows(RenderSquid(r, policy), p)}
<1>1. ASSUME NEW q \in allowed PROVE q.to \in Reachable(policy.private)
  <2>1. q \in Asks /\ q.to \in Addresses
    BY DEF Asks
  <2>2. q.to \in policy.private \/ q.to \notin Blocked
    BY <2>1, SquidAllows
  <2> QED BY <2>1, <2>2, WorldIsOpen DEF Reachable
<1>2. ASSUME NEW range \in Reachable(policy.private) PROVE \E q \in allowed : q.to = range
  <2> DEFINE q == [to |-> range, name |-> "github.com", sub |-> FALSE, ssl |-> TRUE]
  <2>1. q \in Asks /\ q.to = range /\ q.ssl /\ q.name = "github.com"
    BY KubeAssumption DEF Asks, Reachable
  <2>2. q \in DstDomain(GitHubCoreDomains \cup BuiltInEgressDomains)
    <3>1. [dots |-> 1, name |-> "github.com"] \in GitHubCoreDomains \cup BuiltInEgressDomains
      BY DEF GitHubCoreDomains
    <3> QED BY <2>1, <3>1 DEF DstDomain
  <2>3. range \in policy.private \/ range \notin Blocked
    BY WorldIsOpen DEF Reachable
  <2> HIDE DEF q
  <2>4. Allows(RenderSquid(r, policy), q)
    BY <2>1, <2>2, <2>3, SquidAllows
  <2> QED BY <2>1, <2>4
<1> QED BY <1>1, <1>2

\* HAProxy reaches these ranges,
LEMMA HAProxyReaches ==
    ASSUME NEW r, NEW policy
    PROVE  RenderHAProxy(r, policy) = [port \in ToSet(r.tcp) \ r.oddHosts |-> Reachable(policy.private)]
<1>1. Range(r.tcp) = ToSet(r.tcp)
  BY DEF Range, ToSet
<1>2. {range \in Addresses : range \in Blocked => range \in policy.private} = Reachable(policy.private)
  BY WorldIsOpen DEF Reachable
<1> QED BY <1>1, <1>2 DEF RenderHAProxy

\* and so does the proxy pod, whose only policy for egress is its spawn's.
LEMMA ProxySends ==
    ASSUME KubeInv, NEW s \in Spawns, "proxy" \in objs[s], "proxy-egress" \in objs[s], NEW range, NEW port
    PROVE  Sends(Policies, Pod(s, "proxy"), Outside(range), port) <=>
              \/ range = "dns" /\ port \in Dns
              \/ range \in (Addresses \ Blocked) \cup input[s].private /\ port \in AllPorts
<1> DEFINE pod == Pod(s, "proxy")
           in == input[s]
           own == ProxyEgressNetworkPolicy(in)
           rules == {[peers |-> clusterDNSPeers, ports |-> Dns],
                     [peers |-> {BlockPeer(Addresses \ Blocked)}, ports |-> AllPorts],
                     [peers |-> {BlockPeer(in.private)}, ports |-> AllPorts]}
<1>1. pod = [pod |-> TRUE, range |-> "pods", ns |-> input[s].namespace, role |-> "proxy", spawn |-> s]
  BY PodIs
<1>2. /\ own.meta.ns = in.namespace /\ own.selects = [role |-> "proxy", spawn |-> s]
      /\ own.types = {"Egress"} /\ own.egress = rules
  <2>1. in.id = s
    BY InputNames
  <2> QED BY <2>1, ProxyEgressFields
<1>3. own \in Policies
  BY PoliciesPresent
<1> HIDE DEF own, pod, rules
<1>4. own \in Selecting(Policies, pod, "Egress")
  BY <1>1, <1>2, <1>3 DEF Selecting, SelectorMatches
<1>5. ASSUME NEW p \in Selecting(Policies, pod, "Egress"), p.egress # {} PROVE p = own
  <2>1. p \in Policies /\ "Egress" \in p.types /\ p.selects.role \in {"any", "proxy"} /\ p.selects.spawn \in {"any", s}
    BY <1>1, <1>5 DEF Selecting, SelectorMatches
  <2>2. \A ns \in deny : p # DefaultDenyNetworkPolicy(ns)
    BY <1>5, DenyFields
  <2>3. ASSUME NEW u \in Spawns
        PROVE  /\ RunnerEgressNetworkPolicy(input[u]).selects = [role |-> "runner", spawn |-> u]
               /\ ProxyEgressNetworkPolicy(input[u]).selects = [role |-> "proxy", spawn |-> u]
               /\ ProxyIngressNetworkPolicy(input[u]).types = {"Ingress"} /\ u # "any"
    <3>1. input[u].id = u /\ u # "any"
      BY InputNames
    <3> QED BY <3>1, RunnerEgressFields, ProxyEgressFields, ProxyIngressFields
  <2>4. PICK u \in Spawns : \/ p = RunnerEgressNetworkPolicy(input[u])
                            \/ p = ProxyEgressNetworkPolicy(input[u])
                            \/ p = ProxyIngressNetworkPolicy(input[u])
    BY <2>1, <2>2, PolicyKinds
  <2>5. p = ProxyEgressNetworkPolicy(input[u])
    <3>1. p.selects # [role |-> "runner", spawn |-> u] /\ p.types # {"Ingress"}
      BY <2>1
    <3> QED BY <2>3, <2>4, <3>1
  <2>6. u = s
    <3>1. p.selects = [role |-> "proxy", spawn |-> u] /\ u # "any"
      BY <2>3, <2>5
    <3> QED BY <2>1, <3>1
  <2> QED BY <2>5, <2>6 DEF own
<1>6. Sends(Policies, pod, Outside(range), port) <=> \E r \in rules : RuleAllows(own, r, Outside(range), port)
  BY <1>1, <1>2, <1>4, <1>5 DEF Sends
<1>7. ASSUME NEW r PROVE RuleAllows(own, r, Outside(range), port) <=>
                           port \in r.ports /\ \E q \in r.peers : range \in q.block
  BY DEF RuleAllows, SelectorMatches, Outside
<1>8. \A ranges : BlockPeer(ranges).block = ranges
  BY DEF BlockPeer
<1>9. (\E r \in rules : port \in r.ports /\ \E q \in r.peers : range \in q.block) <=>
        \/ port \in Dns /\ range \in {"dns"}
        \/ port \in AllPorts /\ range \in Addresses \ Blocked
        \/ port \in AllPorts /\ range \in in.private
  <2>1. ASSUME NEW ports, NEW ranges
        PROVE  LET r == [peers |-> {BlockPeer(ranges)}, ports |-> ports]
               IN  (port \in r.ports /\ \E q \in r.peers : range \in q.block) <=> port \in ports /\ range \in ranges
    BY <1>8
  <2> QED BY <2>1 DEF rules, clusterDNSPeers
<1> QED BY <1>6, <1>7, <1>9 DEF pod

LEMMA PolicyReaches ==
    ASSUME KubeInv, NEW s \in Spawns, "proxy" \in objs[s], "proxy-egress" \in objs[s]
    PROVE  {range \in Addresses :
              \A port \in AllPorts : Sends(Policies, Pod(s, "proxy"), Outside(range), port)} =
           Reachable(input[s].private)
<1>1. <<"tcp", proxyPort>> \in AllPorts /\ <<"tcp", proxyPort>> \notin Dns
  BY KubeAssumption DEF AllPorts, Dns, proxyPort, dnsPort
<1>2. ASSUME NEW range \in Addresses
      PROVE  (\A port \in AllPorts : Sends(Policies, Pod(s, "proxy"), Outside(range), port)) <=>
                range \in Reachable(input[s].private)
  <2>1. ASSUME NEW port
        PROVE  Sends(Policies, Pod(s, "proxy"), Outside(range), port) <=>
                  \/ range = "dns" /\ port \in Dns
                  \/ range \in {"world"} \cup input[s].private /\ port \in AllPorts
    BY ProxySends, WorldIsOpen
  <2> QED BY <1>1, <2>1 DEF Reachable
<1> QED BY <1>2 DEF Reachable

\* From its runner, the proxy accepts connections at every port it has open.
LEMMA RunnerConnects ==
    ASSUME KubeInv, NEW s \in Spawns, {"runner-egress", "proxy-ingress"} \subseteq objs[s],
           NEW port \in OpenPorts(input[s])
    PROVE  Connects(Policies, Pod(s, "runner"), Pod(s, "proxy"), port)
<1> DEFINE in == input[s]
           from == Pod(s, "runner")
           to == Pod(s, "proxy")
           egress == RunnerEgressNetworkPolicy(in)
           ingress == ProxyIngressNetworkPolicy(in)
           out == [peers |-> {PodPeer("proxy", in)}, ports |-> OpenPorts(in)]
           back == [peers |-> {PodPeer("runner", in)}, ports |-> OpenPorts(in)]
<1>1. /\ from = [pod |-> TRUE, range |-> "pods", ns |-> in.namespace, role |-> "runner", spawn |-> s]
      /\ to = [pod |-> TRUE, range |-> "pods", ns |-> in.namespace, role |-> "proxy", spawn |-> s]
  BY PodIs
<1>2. in.id = s
  BY InputNames
<1>3. /\ egress \in Policies /\ egress.meta.ns = in.namespace /\ egress.types = {"Egress"}
      /\ egress.selects = [role |-> "runner", spawn |-> s] /\ out \in egress.egress
  BY <1>2, PoliciesPresent, RunnerEgressFields
<1>4. /\ ingress \in Policies /\ ingress.meta.ns = in.namespace /\ ingress.types = {"Ingress"}
      /\ ingress.selects = [role |-> "proxy", spawn |-> s] /\ back \in ingress.ingress
  BY <1>2, PoliciesPresent, ProxyIngressFields
<1>5. SelectorMatches(PodPeer("proxy", in).pods, to) /\ SelectorMatches(PodPeer("runner", in).pods, from)
  BY <1>1, <1>2 DEF PodPeer, SelectorMatches
<1> HIDE DEF in, from, to, egress, ingress
<1>6. Sends(Policies, from, to, port)
  <2>1. egress \in Selecting(Policies, from, "Egress")
    BY <1>1, <1>3 DEF Selecting, SelectorMatches
  <2>2. RuleAllows(egress, out, to, port)
    BY <1>1, <1>3, <1>5 DEF RuleAllows, in
  <2> QED BY <1>3, <2>1, <2>2 DEF Sends
<1>7. Receives(Policies, from, to, port)
  <2>1. ingress \in Selecting(Policies, to, "Ingress")
    BY <1>1, <1>4 DEF Selecting, SelectorMatches
  <2>2. RuleAllows(ingress, back, from, port)
    BY <1>1, <1>4, <1>5 DEF RuleAllows, in
  <2> QED BY <1>4, <2>1, <2>2 DEF Receives
<1> QED BY <1>6, <1>7 DEF Connects, from, to

\* The Service's ports, the pod's and those of the policies are the same.
LEMMA PortsAgree ==
    ASSUME NEW in
    PROVE  ServicePorts(ProxyService(in)) = OpenPorts(in) /\ ProxyPod(in).ports = OpenPorts(in)
<1>1. ProxyPod(in).ports = OpenPorts(in)
  BY DEF ProxyPod, OpenPorts
<1>2. /\ ProxyService(in).listed.squid = Tcp({proxyPort}) /\ ProxyService(in).listed.tcp = Tcp(in.tcp)
      /\ ProxyService(in).listed.dns = IF in.dnsmasq THEN Dns ELSE {}
  BY DEF ProxyService
<1>3. Tcp({proxyPort} \cup in.tcp) = Tcp({proxyPort}) \cup Tcp(in.tcp)
  BY DEF Tcp
<1>4. ServicePorts(ProxyService(in)) = OpenPorts(in)
  BY <1>2, <1>3 DEF ServicePorts, OpenPorts
<1> QED BY <1>1, <1>4

\* A name dnsmasq forwards is served by Squid, unless it is listed with its dot.
LEMMA NamesServed ==
    ASSUME KubeInv, NEW s \in Spawns, NEW sub \in BOOLEAN,
           NEW name \in RenderDNSMasq(runner[s], ResolvedPolicy(scope, runner[s])),
           [dots |-> 1, name |-> name] \notin runner[s].domains
    PROVE  Allows(RenderSquid(runner[s], ResolvedPolicy(scope, runner[s])),
                  [to |-> "world", name |-> name, sub |-> sub, ssl |-> TRUE])
<1> DEFINE r == runner[s]
           policy == ResolvedPolicy(scope, r)
           q == [to |-> "world", name |-> name, sub |-> sub, ssl |-> TRUE]
           e == [dots |-> 1, name |-> name]
<1>1. name \in Domains /\ e \in AllowedDomains(r, policy)
  <2>1. CASE \E d \in r.domains : name = d.name
    <3>1. PICK d \in r.domains : name = d.name
      BY <2>1
    <3>2. d \in [dots : {0, 1}, name : Domains]
      BY RunnerParsed DEF Parsed
    <3>3. d = [dots |-> d.dots, name |-> name] /\ d.dots \in {0, 1} /\ name \in Domains
      BY <3>1, <3>2
    <3>4. d.dots + 1 = 1
      BY <3>1, <3>3
    <3>5. e = [dots |-> d.dots + 1, name |-> d.name]
      BY <3>1, <3>4
    <3> QED BY <3>1, <3>3, <3>5 DEF AllowedDomains
  <2>2. CASE policy.suffixMatch /\ \E w \in policy.wildcards : w.star /\ name = w.name
    <3>1. PICK w \in policy.wildcards : w.star /\ name = w.name
      BY <2>2
    <3>2. policy.allowWildcards /\ w \in [star : BOOLEAN, name : Domains]
      BY <2>2, PolicyResolved
    <3>3. e = [dots |-> IF w.star THEN 1 ELSE 0, name |-> w.name] /\ name \in Domains
      BY <3>1, <3>2
    <3> QED BY <3>1, <3>2, <3>3 DEF AllowedDomains
  <2> QED BY <2>1, <2>2 DEF RenderDNSMasq
<1>2. q \in Asks /\ q.ssl = TRUE /\ q.to = "world" /\ q.name = name
  BY <1>1, WorldIsOpen DEF Asks
<1> HIDE DEF q, policy
<1>3. q \in DstDomain(AllowedDomains(r, policy))
  BY <1>1, <1>2 DEF DstDomain
<1>4. Allows(RenderSquid(r, policy), q)
  BY <1>2, <1>3, WorldIsOpen, SquidAllows
<1> QED BY <1>4 DEF q, policy

\* From the moment Spawn succeeds the runner reaches every port of its proxy's
\* Service, Squid, HAProxy and the network policy let through the same ranges,
\* and dnsmasq forwards no name Squid does not serve: the renderers of egress/,
\* the builders of kube/objects.go and the resolved policy agree for every
\* scope and runner configuration.
THEOREM ProxyAlwaysServes == Spec => []ProxyServesRunner
<1>1. ASSUME KubeInv, NEW s \in Spawns, pc[s] = "started"
      PROVE  LET in == input[s]
                 r == runner[s]
                 policy == ResolvedPolicy(scope, r)
                 squid == RenderSquid(r, policy)
                 reached == {range \in Addresses :
                               \A port \in AllPorts : Sends(Policies, Pod(s, "proxy"), Outside(range), port)}
             IN  /\ SelectorMatches(ProxyService(in).selector, Pod(s, "proxy"))
                 /\ \A port \in ServicePorts(ProxyService(in)) :
                       port \in ProxyPod(in).ports /\ Connects(Policies, Pod(s, "runner"), Pod(s, "proxy"), port)
                 /\ \A port \in Dns : Sends(Policies, Pod(s, "proxy"), Outside("dns"), port)
                 /\ {q.to : q \in {p \in Asks : Allows(squid, p)}} = reached
                 /\ RenderHAProxy(r, policy) = [port \in in.tcp \ r.oddHosts |-> reached]
                 /\ \A name \in RenderDNSMasq(r, policy) :
                       [dots |-> 1, name |-> name] \in r.domains
                       \/ \A sub \in BOOLEAN :
                             Allows(squid, [to |-> "world", name |-> name, sub |-> sub, ssl |-> TRUE])
  <2> DEFINE in == input[s]
             r == runner[s]
             policy == ResolvedPolicy(scope, r)
             squid == RenderSquid(r, policy)
             reached == {range \in Addresses :
                           \A port \in AllPorts : Sends(Policies, Pod(s, "proxy"), Outside(range), port)}
  <2>1. {"proxy", "runner-egress", "proxy-egress", "proxy-ingress"} \subseteq objs[s]
    BY <1>1 DEF KubeInv, StateOf, ExistsOf, Names
  <2>2. SelectorMatches(ProxyService(in).selector, Pod(s, "proxy"))
    <3>1. Pod(s, "proxy") = [pod |-> TRUE, range |-> "pods", ns |-> in.namespace, role |-> "proxy", spawn |-> s]
      BY <1>1, PodIs
    <3>2. ProxyService(in).selector = [role |-> "proxy", spawn |-> s]
      BY <1>1, InputNames DEF ProxyService
    <3> QED BY <3>1, <3>2 DEF SelectorMatches
  <2>3. ASSUME NEW port \in ServicePorts(ProxyService(in))
        PROVE  port \in ProxyPod(in).ports /\ Connects(Policies, Pod(s, "runner"), Pod(s, "proxy"), port)
    <3>1. port \in OpenPorts(in) /\ port \in ProxyPod(in).ports
      BY PortsAgree
    <3> QED BY <1>1, <2>1, <3>1, RunnerConnects
  <2>4. ASSUME NEW port \in Dns PROVE Sends(Policies, Pod(s, "proxy"), Outside("dns"), port)
    BY <1>1, <2>1, ProxySends
  <2>5. policy.private = in.private /\ ToSet(r.tcp) = in.tcp
    BY <1>1, InputFields
  <2>6. reached = Reachable(in.private)
    BY <1>1, <2>1, PolicyReaches
  <2>7. {q.to : q \in {p \in Asks : Allows(squid, p)}} = Reachable(policy.private)
    BY SquidReaches
  <2>8. RenderHAProxy(r, policy) = [port \in ToSet(r.tcp) \ r.oddHosts |-> Reachable(policy.private)]
    BY HAProxyReaches
  <2>9. ASSUME NEW name \in RenderDNSMasq(r, policy), [dots |-> 1, name |-> name] \notin r.domains, NEW sub \in BOOLEAN
        PROVE  Allows(squid, [to |-> "world", name |-> name, sub |-> sub, ssl |-> TRUE])
    BY <1>1, <2>9, NamesServed
  <2> HIDE DEF reached, policy, squid
  <2>10. /\ {q.to : q \in {p \in Asks : Allows(squid, p)}} = reached
         /\ RenderHAProxy(r, policy) = [port \in in.tcp \ r.oddHosts |-> reached]
    BY <2>5, <2>6, <2>7, <2>8
  <2> QED BY <2>2, <2>3, <2>4, <2>9, <2>10 DEF reached, policy, squid
<1>2. KubeInv => ProxyServesRunner
  BY <1>1 DEF ProxyServesRunner
<1> QED BY <1>2, KubeInvariant, PTL

=============================================================================
