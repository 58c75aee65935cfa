---------------------------- MODULE ComposeProofs ----------------------------
(***************************************************************************)
(* Proofs about ComposeBackend: for all settings of the orchestrator and   *)
(* the socket proxy, and whichever requests fail with or without effect,   *)
(* the compose backend keeps the contract Execute reads its answers by,    *)
(* and what it calls cleaned up runs nothing.                              *)
(*                                                                         *)
(* The invariant relates where a call is, what Spawn has learnt and the    *)
(* errors it has met: as long as a rollback or a Teardown has met none,    *)
(* everything known that its steps so far were for is gone.                *)
(***************************************************************************)
EXTENDS ComposeBackend, TLAPS

Preparing == {"render", "network"}
Spawning == {"network", "createProxy", "createRunner", "startProxy", "startRunner", "rollback"}
Tearing == {"tearRunner", "tearProxy", "tearNetwork", "tearDir", "verdict"}

\* The answer so far follows from where the spawn is.
Answered ==
    /\ pc \in {"render", "started", "call", "settled"} \cup Spawning \cup Tearing
    /\ pc \in {"render"} \cup Spawning => said = "nothing"
    /\ pc = "started" => said = "started"
    /\ pc \in {"call"} \cup Tearing => said \in {"started", "partial", "failed"}

\* Nothing is known before the network is, nothing is started before it is
\* known, and a Teardown always knows the network.
Learnt ==
    /\ pc \in Preparing => refs = {}
    /\ pc \notin Preparing \cup {"settled"} => "network" \in refs
    /\ pc = "createRunner" => "proxy" \in refs
    /\ pc \in {"startProxy", "startRunner", "started"} => refs = Things
    /\ running \subseteq refs

\* Without an error, what the steps so far were for is gone.
Proven ==
    /\ pc \in {"render"} \cup (Spawning \ {"rollback"}) => ~errs
    /\ pc = "rollback" /\ ~errs => exists \cap refs \subseteq rolling \cup {"network"}
    /\ pc = "tearProxy" /\ ~errs => exists \cap refs \subseteq {"proxy", "network"}
    /\ pc = "tearNetwork" /\ ~errs => exists \cap refs \subseteq {"network"}
    /\ pc \in {"tearDir", "verdict"} /\ ~errs => exists \cap refs = {} /\ running = {}

ComposeInv ==
    ComposeTypeOK /\ Answered /\ Learnt /\ Proven /\ NothingLeftRunning /\ settings \in Settings

-----------------------------------------------------------------------------
(* The invariant.                                                          *)

\* Nothing exists before the spawn.
LEMMA ComposeInitial == Init => ComposeInv
BY DEF Init, ComposeInv, ComposeTypeOK, Answered, Learnt, Proven, NothingLeftRunning, Clean, Preparing,
    Spawning, Tearing, Things, Containers

\* A deletion, successful or not, adds nothing and stops nothing else.
LEMMA DeletionShrinks ==
    ASSUME NEW x, NEW f, Deletes(x, f) \/ DeleteFails(x, f)
    PROVE  exists' \subseteq exists /\ running' \subseteq running
BY DEF Deletes, DeleteFails, Gone

\* Spawn with its rollback.
LEMMA SpawnPreserves == ASSUME ComposeInv, Spawn PROVE ComposeInv'
<1> USE DEF ComposeInv, ComposeTypeOK, Answered, Learnt, Proven, NothingLeftRunning, Clean, Preparing,
    Spawning, Tearing, Things, Containers, Goto, env
<1>1. CASE Render
    BY <1>1 DEF Render
<1>2. CASE CreateNetwork
    BY <1>2 DEF CreateNetwork, Creates, CreateFails
<1>3. CASE CreateContainer("proxy", "createProxy", "createRunner")
    BY <1>3 DEF CreateContainer, Creates, CreateFails, Created
<1>4. CASE CreateContainer("runner", "createRunner", "startProxy")
  <2>1. CASE Creates("runner") /\ pc' = "startProxy" /\ UNCHANGED rolling
    <3>1. refs' = Things
      BY <1>4, <2>1 DEF CreateContainer, Creates
    <3> QED BY <1>4, <2>1, <3>1 DEF CreateContainer, Creates
  <2>2. CASE CreateFails("runner") /\ pc' = "rollback" /\ rolling' = Created
    BY <1>4, <2>2 DEF CreateContainer, CreateFails, Created
  <2> QED BY <1>4, <2>1, <2>2 DEF CreateContainer
<1>5. CASE StartContainer("proxy", "startProxy", "startRunner")
    BY <1>5 DEF StartContainer, Created
<1>6. CASE StartContainer("runner", "startRunner", "started")
    BY <1>6 DEF StartContainer, Created
<1>7. CASE Rollback
  <2>1. PICK x \in rolling :
          /\ (Deletes(x, TRUE) /\ UNCHANGED errs) \/ (DeleteFails(x, TRUE) /\ errs' = TRUE)
          /\ rolling' = rolling \ {x}
    BY <1>7 DEF Rollback
  <2>2. exists' \subseteq exists /\ running' \subseteq running
    BY <2>1, DeletionShrinks
  <2>3. ~errs' => ~errs /\ x \notin exists'
    BY <2>1 DEF Deletes, Gone
  <2> QED BY <1>7, <2>1, <2>2, <2>3 DEF Rollback
<1>8. CASE RollbackNetwork
    BY <1>8 DEF RollbackNetwork, Deletes, DeleteFails, Deletable, Gone
<1> QED BY <1>1, <1>2, <1>3, <1>4, <1>5, <1>6, <1>7, <1>8 DEF Spawn

\* Teardown with its retries.
LEMMA TeardownPreserves == ASSUME ComposeInv, Teardown PROVE ComposeInv'
<1> USE DEF ComposeInv, ComposeTypeOK, Answered, Learnt, Proven, NothingLeftRunning, Clean, Preparing,
    Spawning, Tearing, Things, Containers, Goto, env
<1>1. CASE BeginTeardown
    BY <1>1 DEF BeginTeardown
<1>2. CASE TearRunner
    BY <1>2 DEF TearRunner, Phase, Deletes, DeleteFails, Gone
<1>3. CASE TearProxy
    BY <1>3 DEF TearProxy, Phase, Deletes, DeleteFails, Gone
<1>4. CASE TearNetwork
    BY <1>4 DEF TearNetwork, Phase, Deletes, DeleteFails, Deletable, Gone
<1>5. CASE RemoveDir
    BY <1>5 DEF RemoveDir
<1>6. CASE Verdict
    BY <1>6 DEF Verdict
<1> QED BY <1>1, <1>2, <1>3, <1>4, <1>5, <1>6 DEF Teardown

\* Every step preserves the invariant.
LEMMA ComposeStep == ComposeInv /\ [Next]_vars => ComposeInv'
<1> SUFFICES ASSUME ComposeInv, [Next]_vars PROVE ComposeInv'
    OBVIOUS
<1>1. CASE Spawn
    BY <1>1, SpawnPreserves
<1>2. CASE Teardown
    BY <1>2, TeardownPreserves
<1> USE DEF ComposeInv, ComposeTypeOK, Answered, Learnt, Proven, NothingLeftRunning, Clean, Preparing,
    Spawning, Tearing, Things, Containers, Goto, env
<1>3. CASE RunnerExits
    BY <1>3 DEF RunnerExits
<1>4. CASE WaitEnds
    BY <1>4 DEF WaitEnds
<1>5. CASE GiveUp
    BY <1>5 DEF GiveUp
<1>6. CASE Heals
  <2>1. UNCHANGED <<pc, exists, running, dir, refs>> /\ UNCHANGED <<rolling, errs, force, said, settings>>
    BY <1>6 DEF Heals
  <2>2. faulty' \in BOOLEAN
    BY <1>6 DEF Heals
  <2> QED BY <2>1, <2>2
<1>7. CASE Settled \/ UNCHANGED vars
  <2>1. UNCHANGED <<pc, exists, running, dir, refs>> /\ UNCHANGED <<rolling, errs, force, said, faulty, settings>>
    BY <1>7 DEF Settled, vars
  <2> QED BY <2>1
<1> QED BY <1>1, <1>2, <1>3, <1>4, <1>5, <1>6, <1>7 DEF Next

-----------------------------------------------------------------------------
(* The properties of one state.                                            *)

\* The invariant holds in every reachable state.
LEMMA ComposeInvariant == Spec => []ComposeInv
BY ComposeInitial, ComposeStep, PTL DEF Spec

\* The type invariant.
THEOREM ComposeTypesHold == Spec => []ComposeTypeOK
<1>1. ComposeInv => ComposeTypeOK
    BY DEF ComposeInv
<1> QED BY <1>1, ComposeInvariant, PTL

\* A spawn that was rolled back or removed runs nothing, though what a lost
\* answer has created may still exist: such a container is never started, and
\* the network is only deleted once nothing runs.
THEOREM ComposeLeavesNothingRunning == Spec => []NothingLeftRunning
<1>1. ComposeInv => NothingLeftRunning
    BY DEF ComposeInv
<1> QED BY <1>1, ComposeInvariant, PTL

-----------------------------------------------------------------------------
(* The contract.                                                           *)

\* Spawn and Teardown, step by step, keep the contract of the backends.
THEOREM ComposeImplementsContract == Spec => ImplementsContract
<1>1. Init => Contract!Init
    BY DEF Init, Contract!Init
<1>2. ComposeInv /\ [Next]_vars => [Contract!Next]_(Contract!vars)
  <2> SUFFICES ASSUME ComposeInv, [Next]_vars
               PROVE  [Contract!Next]_(Contract!vars)
    OBVIOUS
  <2> USE DEF Contract!Next, Contract!vars, Contract!CallSpawn, Contract!CallTeardown, Contract!Work,
        Contract!AnswerSpawn, Contract!AnswerTeardown, ComposeInv, ComposeTypeOK, Answered, Learnt,
        Proven, Preparing, Spawning, Tearing, Things, Containers, Goto, env
  <2>1. CASE Render
    BY <2>1 DEF Render
  <2>2. CASE CreateNetwork
    BY <2>2 DEF CreateNetwork, Creates, CreateFails
  <2>3. CASE CreateContainer("proxy", "createProxy", "createRunner")
    BY <2>3 DEF CreateContainer, Creates, CreateFails
  <2>4. CASE CreateContainer("runner", "createRunner", "startProxy")
    BY <2>4 DEF CreateContainer, Creates, CreateFails
  <2>5. CASE StartContainer("proxy", "startProxy", "startRunner")
    BY <2>5 DEF StartContainer
  <2>6. CASE StartContainer("runner", "startRunner", "started")
    BY <2>6 DEF StartContainer
  <2>7. CASE Rollback
    BY <2>7 DEF Rollback
  <2>8. CASE RollbackNetwork
    BY <2>8 DEF RollbackNetwork, Deletes, DeleteFails, Gone
  <2>9. CASE BeginTeardown
    BY <2>9 DEF BeginTeardown
  <2>10. CASE TearRunner
    BY <2>10 DEF TearRunner, Phase, Deletes, DeleteFails, Gone
  <2>11. CASE TearProxy
    BY <2>11 DEF TearProxy, Phase, Deletes, DeleteFails, Gone
  <2>12. CASE TearNetwork
    BY <2>12 DEF TearNetwork, Phase, Deletes, DeleteFails, Gone
  <2>13. CASE RemoveDir
    BY <2>13 DEF RemoveDir
  <2>14. CASE Verdict
    BY <2>14 DEF Verdict
  <2>15. CASE RunnerExits
    BY <2>15 DEF RunnerExits
  <2>16. CASE WaitEnds
    BY <2>16 DEF WaitEnds
  <2>17. CASE GiveUp
    BY <2>17 DEF GiveUp
  <2>18. CASE Heals
    BY <2>18 DEF Heals
  <2>19. CASE Settled \/ UNCHANGED vars
    BY <2>19 DEF Settled, vars
  <2> QED BY <2>1, <2>2, <2>3, <2>4, <2>5, <2>6, <2>7, <2>8, <2>9, <2>10, <2>11, <2>12, <2>13,
        <2>14, <2>15, <2>16, <2>17, <2>18, <2>19 DEF Next, Spawn, Teardown
<1> QED BY <1>1, <1>2, ComposeInvariant, PTL DEF Spec, ImplementsContract, Contract!Spec

-----------------------------------------------------------------------------
(* The socket proxy.                                                       *)

\* A request is allowed when a route has its method and fits its path.
LEMMA RouteFits ==
    ASSUME NEW method, NEW route, NEW r, <<method, route>> \in allowedRoutes,
           r.method = method, Len(route) = Len(r.path),
           \A i \in 1..Len(r.path) : route[i] \in {"*", r.path[i]}
    PROVE  RouteAllowed(r)
BY DEF RouteAllowed

\* Requests without a body are let through by their route alone, and
\* containers and networks can be deleted whatever the settings.
LEMMA PlainRequestsAdmitted ==
    ASSUME NEW p, Loads(p)
    PROVE  /\ \A x \in Things : ServeHTTP(p, DeleteRequest(x))
           /\ \A x \in Containers : ServeHTTP(p, StartRequest(x)) /\ ServeHTTP(p, InspectRequest(x))
           /\ \A request \in ListRequests : ServeHTTP(p, request)
<1>1. ASSUME NEW x \in Containers
      PROVE  ServeHTTP(p, StartRequest(x)) /\ ServeHTTP(p, InspectRequest(x))
  <2>1. RouteAllowed(StartRequest(x))
    <3>1. <<"POST", <<"containers", "*", "start">>>> \in allowedRoutes
      BY DEF allowedRoutes
    <3> QED BY <3>1, RouteFits DEF StartRequest, Request
  <2>2. RouteAllowed(InspectRequest(x))
    <3>1. <<"GET", <<"containers", "*", "json">>>> \in allowedRoutes
      BY DEF allowedRoutes
    <3> QED BY <3>1, RouteFits DEF InspectRequest, Request
  <2> QED BY <2>1, <2>2 DEF ServeHTTP, StartRequest, InspectRequest, Request
<1>2. ASSUME NEW x \in Containers PROVE ServeHTTP(p, DeleteRequest(x))
  <2>1. RouteAllowed(DeleteRequest(x))
    <3>1. <<"DELETE", <<"containers", "*">>>> \in allowedRoutes
      BY DEF allowedRoutes
    <3> QED BY <3>1, RouteFits DEF DeleteRequest, Request, Containers
  <2> QED BY <2>1 DEF ServeHTTP, DeleteRequest, Request, Containers
<1>3. ServeHTTP(p, DeleteRequest("network"))
  <2>1. RouteAllowed(DeleteRequest("network"))
    <3>1. <<"DELETE", <<"networks", "*">>>> \in allowedRoutes
      BY DEF allowedRoutes
    <3> QED BY <3>1, RouteFits DEF DeleteRequest, Request
  <2> QED BY <2>1 DEF ServeHTTP, DeleteRequest, Request
<1>4. ASSUME NEW request \in ListRequests PROVE ServeHTTP(p, request)
  <2>1. CASE request = Request("GET", <<"containers", "json">>, NoBody)
    <3>1. RouteAllowed(request)
      <4>1. <<"GET", <<"containers", "json">>>> \in allowedRoutes
        BY DEF allowedRoutes
      <4> QED BY <4>1, RouteFits, <2>1 DEF Request
    <3> QED BY <2>1, <3>1 DEF ServeHTTP, Request
  <2>2. CASE request = Request("GET", <<"networks">>, NoBody)
    <3>1. RouteAllowed(request)
      <4>1. <<"GET", <<"networks">>>> \in allowedRoutes
        BY DEF allowedRoutes
      <4> QED BY <4>1, RouteFits, <2>2 DEF Request
    <3> QED BY <2>2, <3>1 DEF ServeHTTP, Request
  <2> QED BY <2>1, <2>2 DEF ListRequests
<1> QED BY <1>1, <1>2, <1>3, <1>4 DEF Things

\* A network for a spawn is within the schema, internal and labelled.
LEMMA NetworkAdmitted ==
    ASSUME NEW p, Loads(p)
    PROVE  ServeHTTP(p, CreateNetworkRequest)
<1>1. RouteAllowed(CreateNetworkRequest)
  <2>1. <<"POST", <<"networks", "create">>>> \in allowedRoutes
    BY DEF allowedRoutes
  <2> QED BY <2>1, RouteFits DEF CreateNetworkRequest, Request
<1>2. ValidateNetworkCreate(CreateNetworkRequest.body)
  BY DEF CreateNetworkRequest, Request, ValidateNetworkCreate, decodeCreate, NetworkSchema
<1> QED BY <1>1, <1>2 DEF ServeHTTP, CreateNetworkRequest, Request

\* A container as the backend asks for it passes every check of the policy,
\* when the settings fit.
LEMMA ContainersAdmitted ==
    ASSUME NEW o, NEW p, Alike(o, p), p.net # "internal", NEW x \in Containers
    PROVE  ServeHTTP(p, CreateContainerRequest(o, x))
<1> DEFINE request == CreateContainerRequest(o, x)
           b == request.body
           h == HostConfig(o, x)
<1>1. /\ request.method = "POST" /\ request.path = <<"containers", "create">>
      /\ b.fields \subseteq ContainerSchema /\ b.user = <<1001, 0>> /\ b.role = x
      /\ b.host = h /\ b.networks = Networks(o, x)
      /\ b.image = IF x = "proxy" THEN o.proxyImage ELSE o.runnerImage
  BY DEF CreateContainerRequest, Request, ContainerSchema
<1>2. /\ h.fields = HostFields(o, x) /\ h.capDrop = {"ALL"}
      /\ h.networkMode = "internal" /\ h.ipcMode = "" /\ h.binds = Binds(o, x)
      /\ h.securityOpt =
            {"no-new-privileges"} \cup (IF x = "runner" /\ o.seccomp THEN {"seccomp"} ELSE {})
      /\ h.tmpfs = {{"noexec", "nosuid", "nodev"} \cup
                        (IF x = "proxy" THEN {"uid", "gid", "mode"} ELSE {"size"})}
  BY DEF HostConfig
<1> HIDE DEF request, b, h
<1>a. b.host = h
  BY <1>1
<1>b. h.fields = HostFields(o, x)
  BY <1>2
<1>3. RouteAllowed(request)
  <2>1. <<"POST", <<"containers", "create">>>> \in allowedRoutes
    BY DEF allowedRoutes
  <2>2. ASSUME NEW route, route = <<"containers", "create">>, <<"POST", route>> \in allowedRoutes
        PROVE  RouteAllowed(request)
    <3>1. request.method = "POST" /\ Len(route) = Len(request.path)
      BY <1>1, <2>2
    <3>2. \A i \in 1..Len(request.path) : route[i] \in {"*", request.path[i]}
      BY <1>1, <2>2
    <3> QED BY <2>2, <3>1, <3>2, RouteFits
  <2> QED BY <2>1, <2>2
<1>4. HostFields(o, x) \subseteq HostSchema \ Denied
  BY DEF HostFields, HostSchema, Denied, Limits, Containers
<1>5. h.securityOpt = {"no-new-privileges"}
  BY <1>2 DEF Alike
<1>6. Allows(p, b.image) /\ Loads(p)
  BY <1>1 DEF Alike, Allows, Containers
<1>7. nonRootIdentity(b.user)
  BY <1>1 DEF nonRootIdentity
<1>8. checkBinds(p, h.binds, b.role)
  <2>1. CASE x = "proxy"
    <3>1. h.binds = {[source |-> o.vol, target |-> "/egress", mode |-> "ro"]}
      BY <1>2, <2>1 DEF Binds
    <3>2. \A e \in h.binds : e.source = o.vol /\ e.mode = "ro"
      BY <3>1
    <3>3. p.vol # "" /\ o.vol = p.vol
      BY DEF Alike
    <3>4. b.role = "proxy"
      BY <1>1, <2>1
    <3> QED BY <3>2, <3>3, <3>4 DEF checkBinds
  <2>2. CASE x = "runner"
    BY <1>2, <2>2 DEF Binds, checkBinds
  <2> QED BY <2>1, <2>2 DEF Containers
<1>9. checkTmpfs(h.tmpfs)
  <2>1. PICK more \in SUBSET {"size", "uid", "gid", "mode"} :
            h.tmpfs = {{"noexec", "nosuid", "nodev"} \cup more}
    BY <1>2
  <2> QED BY <2>1 DEF checkTmpfs
<1>10. EgressGate(p, b)
  <2>1. b.role = x /\ b.host.networkMode = "internal"
    BY <1>1, <1>2
  <2>2. x # "proxy" => b.networks = {"internal"}
    BY <1>1 DEF Networks
  <2> QED BY <2>1, <2>2 DEF EgressGate
<1>11. ValidateContainerCreate(p, b)
  <2>1. /\ decodeCreate(b.fields, ContainerSchema) /\ decodeCreate(b.host.fields, HostSchema)
        /\ b.host.fields \cap Denied = {}
    <3>1. b.host.fields = HostFields(o, x)
      BY <1>a, <1>b
    <3> QED BY <1>1, <1>4, <3>1 DEF decodeCreate
  <2>2. /\ "ALL" \in b.host.capDrop /\ b.host.networkMode \notin {"host", "none", "container"}
        /\ b.host.ipcMode \in {"", "private"} /\ b.host.securityOpt = {"no-new-privileges"}
    <3>1. b.host = h /\ h.capDrop = {"ALL"} /\ h.networkMode = "internal" /\ h.ipcMode = ""
      BY <1>1, <1>2
    <3> QED BY <1>5, <3>1
  <2>3. checkBinds(p, b.host.binds, b.role) /\ checkTmpfs(b.host.tmpfs)
    BY <1>1, <1>8, <1>9
  <2> QED BY <1>6, <1>7, <1>10, <2>1, <2>2, <2>3 DEF ValidateContainerCreate
<1>12. ServeHTTP(p, request)
  BY <1>1, <1>3, <1>6, <1>11 DEF ServeHTTP, b
<1> QED BY <1>12 DEF request

\* Whatever the settings, as long as they fit, the policy of the socket proxy
\* denies nothing the orchestrator asks for.
THEOREM FittingSettingsAdmitted == Spec => []SpawnAdmitted
<1>1. ASSUME NEW o, NEW p, Alike(o, p), p.net # "internal", NEW request \in Requests(o)
      PROVE  ServeHTTP(p, request)
  <2>1. Loads(p)
    BY <1>1 DEF Alike
  <2>2. request \in ListRequests \/ (\E x \in Things : request \in {CreateRequest(o, x), DeleteRequest(x)})
            \/ \E x \in Containers : request \in {StartRequest(x), InspectRequest(x)}
    <3>1. CASE request \in ListRequests
      BY <3>1
    <3>2. CASE request \in UNION {{CreateRequest(o, x), DeleteRequest(x)} : x \in {"network", "proxy", "runner"}}
      BY <3>2 DEF Things, Containers
    <3>3. CASE request \in UNION {{StartRequest(x), InspectRequest(x)} : x \in {"proxy", "runner"}}
      BY <3>3 DEF Containers
    <3> QED BY <1>1, <3>1, <3>2, <3>3 DEF Requests
  <2>3. \A x \in Things : ServeHTTP(p, CreateRequest(o, x))
    BY <1>1, <2>1, NetworkAdmitted, ContainersAdmitted DEF CreateRequest, Things, Containers
  <2> QED BY <2>1, <2>2, <2>3, PlainRequestsAdmitted
<1>2. ComposeInv => SpawnAdmitted
  BY <1>1, SettingsAssumption DEF ComposeInv, SpawnAdmitted, Admits
<1> QED BY <1>2, ComposeInvariant, PTL

-----------------------------------------------------------------------------
(* Denials.                                                                *)

\* Docker works since before the spawn: no step has failed but by denial, and
\* what a rollback or a Teardown is for can be deleted when its turn comes.
Untroubled ==
    /\ ~faulty /\ said \notin {"partial", "failed"}
    /\ pc \notin Preparing \cup {"settled"} => Loads(settings.p)
    /\ pc = "rollback" => ~errs /\ running \subseteq rolling
    /\ pc \in {"call", "tearRunner"} => force \/ "runner" \notin running
    /\ pc \in Tearing => ~errs
    /\ pc = "tearProxy" => "runner" \notin running
    /\ pc = "tearNetwork" => running = {}

\* A spawn that is denied something is rolled back on the spot, and one that
\* was started is removed at the first attempt.
THEOREM DenialsLeaveNoDebt == Spec => DenialLeavesNoDebt
<1>1. ComposeInv /\ pc = "render" /\ ~faulty => Untroubled
  BY DEF ComposeInv, Answered, Untroubled, Preparing, Spawning, Tearing
<1>2. ComposeInv /\ Untroubled /\ [Next]_vars => Untroubled'
  <2> SUFFICES ASSUME ComposeInv, Untroubled, [Next]_vars PROVE Untroubled'
    OBVIOUS
  <2>0. /\ \A x \in Things : Loads(settings.p) => Admits(DeleteRequest(x))
        /\ \A request : Admits(request) => Loads(settings.p)
    BY PlainRequestsAdmitted DEF Admits, ServeHTTP
  <2>1. /\ running \subseteq refs \cap Containers /\ rolling \subseteq Containers
        /\ errs \in BOOLEAN /\ force \in BOOLEAN /\ faulty \in BOOLEAN
        /\ pc \in {"startProxy", "startRunner", "started"} => refs = Things
        /\ pc \in {"render"} \cup (Spawning \ {"rollback"}) => errs = FALSE
        /\ pc \notin Preparing \cup {"settled"} => "network" \in refs
        /\ pc = "tearNetwork" => "network" \in refs
    BY DEF ComposeInv, ComposeTypeOK, Learnt, Proven, Preparing, Spawning
  <2> USE DEF Untroubled, Preparing, Spawning, Tearing, Goto, env
  <2>2. CASE Render
    BY <2>1, <2>2 DEF Render
  <2>3. CASE CreateNetwork
    BY <2>0, <2>1, <2>3 DEF CreateNetwork, Creates, CreateFails
  <2>4. ASSUME NEW x \in Containers, NEW here, NEW next, CreateContainer(x, here, next),
               here \in {"createProxy", "createRunner"}, next \in {"createRunner", "startProxy"}
        PROVE  Untroubled'
    <3>1. UNCHANGED <<running, errs, said, faulty, settings>>
      BY <2>4 DEF CreateContainer
    <3>2. pc' = next \/ (pc' = "rollback" /\ running' \subseteq rolling')
      BY <2>1, <2>4, <3>1 DEF CreateContainer, CreateFails, Created
    <3> QED BY <2>1, <2>4, <3>1, <3>2 DEF CreateContainer
  <2>5. ASSUME NEW x \in Containers, NEW here, NEW next, StartContainer(x, here, next),
               here \in {"startProxy", "startRunner"}, next \in {"startRunner", "started"}
        PROVE  Untroubled'
    <3>1. UNCHANGED <<refs, errs, faulty, settings>> /\ said' \in {said, "started"}
      BY <2>5 DEF StartContainer
    <3>2. pc' = next \/ (pc' = "rollback" /\ running' = running /\ rolling' = refs \cap Containers)
      BY <2>5 DEF StartContainer, Created
    <3> QED BY <2>1, <2>5, <3>1, <3>2 DEF StartContainer
  <2>6. CASE Rollback
    <3>1. PICK x \in rolling :
            /\ (Deletes(x, TRUE) /\ UNCHANGED errs) \/ (DeleteFails(x, TRUE) /\ errs' = TRUE)
            /\ rolling' = rolling \ {x}
      BY <2>6 DEF Rollback
    <3>2. Deletable(x, TRUE)
      BY <2>0, <2>1, <2>6 DEF Deletable, Rollback, Things, Containers
    <3>3. ~errs' /\ running' = running \ {x}
      BY <2>1, <2>6, <3>1, <3>2 DEF Rollback, Deletes, DeleteFails, Gone
    <3>4. UNCHANGED <<pc, said, faulty, settings>>
      BY <2>6 DEF Rollback
    <3> QED BY <2>6, <3>1, <3>3, <3>4 DEF Rollback
  <2>7. CASE RollbackNetwork
    <3>1. Deletable("network", TRUE)
      BY <2>0, <2>7 DEF Deletable, RollbackNetwork, Things
    <3>2. pc' = "settled" /\ said' = "rolledBack"
      BY <2>1, <2>7, <3>1 DEF RollbackNetwork, DeleteFails
    <3> QED BY <2>1, <2>7, <3>2 DEF RollbackNetwork
  <2>8. CASE BeginTeardown
    BY <2>1, <2>8 DEF BeginTeardown
  <2>9. ASSUME NEW x \in Things, NEW here \in Tearing, NEW next \in Tearing, NEW f,
               Phase(x, here, next, f), Deletable(x, f), x \in Containers => x \in refs \/ x \notin running
        PROVE  /\ ~errs' /\ pc' = next /\ running' \subseteq running \ {x}
               /\ UNCHANGED <<force, said, faulty, settings>>
    <3>1. UNCHANGED <<force, said, faulty, settings>> /\ pc = here /\ pc' = next
      BY <2>9 DEF Phase
    <3>2. ~errs' /\ running' \subseteq running \ {x}
      BY <2>1, <2>9, <3>1 DEF Phase, Deletes, DeleteFails, Gone, Things
    <3> QED BY <3>1, <3>2
  <2>10. CASE TearRunner
    <3>1. Deletable("runner", force)
      BY <2>0, <2>10 DEF TearRunner, Phase, Deletable, Things, Containers
    <3>2. /\ ~errs' /\ pc' = "tearProxy" /\ "runner" \notin running'
          /\ UNCHANGED <<force, said, faulty, settings>>
      BY <2>1, <2>9, <2>10, <3>1 DEF TearRunner, Things, Containers
    <3> QED BY <2>10, <3>2 DEF TearRunner, Phase
  <2>11. CASE TearProxy
    <3>1. Deletable("proxy", TRUE)
      BY <2>0, <2>11 DEF TearProxy, Phase, Deletable, Things, Containers
    <3>2. /\ ~errs' /\ pc' = "tearNetwork" /\ running' \subseteq running \ {"proxy"}
          /\ UNCHANGED <<force, said, faulty, settings>>
      BY <2>1, <2>9, <2>11, <3>1 DEF TearProxy, Things, Containers
    <3>3. running' = {}
      BY <2>1, <2>11, <3>2 DEF TearProxy, Phase, Containers
    <3> QED BY <2>11, <3>2, <3>3 DEF TearProxy, Phase
  <2>12. CASE TearNetwork
    <3>1. Deletable("network", TRUE)
      BY <2>0, <2>12 DEF TearNetwork, Phase, Deletable, Things
    <3>2. /\ ~errs' /\ pc' = "tearDir" /\ UNCHANGED <<force, said, faulty, settings>>
      BY <2>1, <2>9, <2>12, <3>1 DEF TearNetwork, Things, Containers
    <3> QED BY <2>12, <3>2 DEF TearNetwork, Phase
  <2>13. CASE RemoveDir
    <3>1. pc = "tearDir" /\ pc' = "verdict" /\ UNCHANGED <<said, faulty, settings>>
      BY <2>13 DEF RemoveDir
    <3>2. ~errs /\ UNCHANGED errs
      BY <2>13, <3>1 DEF RemoveDir
    <3> QED BY <3>1, <3>2
  <2>14. CASE Verdict
    BY <2>1, <2>14 DEF Verdict
  <2>15. CASE RunnerExits
    BY <2>15 DEF RunnerExits
  <2>16. CASE WaitEnds
    BY <2>16 DEF WaitEnds
  <2>17. CASE GiveUp
    BY <2>17 DEF GiveUp
  <2>18. CASE Heals
    BY <2>18 DEF Heals
  <2>19. CASE Settled \/ UNCHANGED vars
    <3>1. UNCHANGED <<pc, running, rolling, force>> /\ UNCHANGED <<errs, said, faulty, settings>>
      BY <2>19 DEF Settled, vars
    <3> QED BY <3>1
  <2> QED BY <2>2, <2>3, <2>4, <2>5, <2>6, <2>7, <2>8, <2>10, <2>11, <2>12, <2>13,
        <2>14, <2>15, <2>16, <2>17, <2>18, <2>19 DEF Next, Spawn, Teardown, Containers
<1>3. Untroubled => said \notin {"partial", "failed"}
  BY DEF Untroubled
<1> QED BY <1>1, <1>2, <1>3, ComposeInvariant, PTL DEF Spec, DenialLeavesNoDebt

=============================================================================
