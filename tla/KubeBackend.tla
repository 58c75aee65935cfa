---------------------------- MODULE KubeBackend ----------------------------
(***************************************************************************)
(* Several spawns at the Kubernetes backend: Spawn with its rollback, and  *)
(* Teardown with its retries (backend/kube/kube.go over kube/client.go),   *)
(* called as Execute calls them.  The scope is one the process starts      *)
(* with, so the spawns share the controller's namespace or each project    *)
(* has its own.                                                            *)
(*                                                                         *)
(* A step is one API request; a listing of a spawn's resources, four       *)
(* requests in the code, is one step, since nothing is added to a spawn    *)
(* while it is listed.  Any request may fail, and one that fails may have  *)
(* taken effect.  Pods, and the Secret because of its foreground deletion, *)
(* go some time after they are deleted.                                    *)
(***************************************************************************)
EXTENDS ScopeConfig

CONSTANTS
    Spawns,      \* spawn identifiers
    Scopes,      \* scope files an operator may write
    RunnerYmls,  \* runner.yml files of the repositories
    BlockOf,     \* the repository block of each spawn, by position
    MaxFaults    \* how many requests and file operations fail

\* A runner.yml as it is parsed: ports are numbers, and reDomain lets a domain
\* have one leading dot at most.
Overrides(o) == o.wildcards \subseteq [star : BOOLEAN, name : Domains]
Parsed(r) ==
    /\ r.tcp \in Seq(Nat)
    /\ r.domains \subseteq [dots : {0, 1}, name : Domains]
    /\ Overrides(r.overrides)

\* "any" and "world" are no spawn and no blocked range; a spawn's repository is
\* one of the scope's.
ASSUME KubeAssumption ==
    /\ "any" \notin Spawns /\ MaxFaults \in Nat
    /\ {dnsPort, proxyPort} \subseteq Ports /\ "world" \notin Ranges /\ "github.com" \in Domains
    /\ \A r \in RunnerYmls : Parsed(r)
    /\ \A c \in Scopes :
          /\ Overrides(c.overrides)
          /\ \A b \in Blocks(c) : b.runner # Unset => Parsed(b.runner)
          /\ \A s \in Spawns : BlockOf[s] \in DOMAIN c.repos

VARIABLES
    scope,    \* the scope of the process
    runner,   \* per spawn, the runner configuration Execute has read
    input,    \* and the input it makes of it
    pc,
    objs,     \* per spawn, the names of its objects in the cluster
    ending,   \* those of them that are being deleted
    todo,     \* the resources the deletion has yet to ask for
    deny,     \* namespaces with a default-deny policy
    dir,      \* the spawn's egress directory exists
    errs,     \* the call under way has met an error
    said,     \* the backend's last answer for the spawn
    faults    \* how many requests and file operations may still fail

config == <<scope, runner, input>>
world == <<objs, ending, deny>>
vars == <<config, pc, objs, ending, todo, deny, dir, errs, said, faults>>

Block(c, s) == c.repos[BlockOf[s]]

\* RunnerYMLContext: in shared mode the configuration is the operator's.
RunnerYML(c, s) == IF SharedKubernetes(c) THEN {Block(c, s).runner} ELSE RunnerYmls

\* The spawn's input as Execute puts it together.
SpawnInput(c, s, r) ==
    [id |-> s, repo |-> Block(c, s).repo, namespace |-> route(c, Block(c, s).repo),
     dnsmasq |-> r.dnsmasq, tcp |-> ToSet(r.tcp), private |-> ResolvedPolicy(c, r).private,
     memory |-> r.memory, cpus |-> r.cpus,
     files |-> {"squid.conf", "haproxy.cfg"} \cup (IF r.dnsmasq THEN {"dnsmasq.conf"} ELSE {})]

Goto(s, p) == pc' = [pc EXCEPT ![s] = p]
Says(s, a) == said' = [said EXCEPT ![s] = a]
Works == UNCHANGED faults
Fails == faults > 0 /\ faults' = faults - 1
\* An error before anything of the spawn exists: the handle is empty.
Refuses(s) == Goto(s, "settled") /\ Says(s, "rolledBack")

-----------------------------------------------------------------------------
(* Spawn.                                                                  *)

CreateOrder == <<"secret", "proxy-svc", "runner-egress", "proxy-egress", "proxy-ingress", "proxy", "runner">>

\* Execute validates the configuration it has read and renders the egress
\* configurations before it calls Spawn.
Prepare(s) ==
    /\ pc[s] = "idle"
    /\ LET valid == ValidateEgress(runner[s]) /\ Renders(scope, runner[s]) IN
       \/ Works /\ valid /\ Goto(s, "admit") /\ dir' = [dir EXCEPT ![s] = TRUE]
       \/ Works /\ ~valid /\ Goto(s, "settled") /\ UNCHANGED dir
       \/ Fails /\ valid /\ Goto(s, "settled") /\ dir' \in {dir, [dir EXCEPT ![s] = TRUE]}
    /\ UNCHANGED <<config, world, todo, errs, said>>

\* The DNS settings, which Spawn reads again from its environment, were checked at
\* startup by the same rules (validateKubeEnvironment) and do not change.
InputValid(s) == input[s].memory > 0 /\ input[s].cpus > 0
Admit(s) ==
    /\ pc[s] = "admit"
    /\ IF InputValid(s) THEN Goto(s, "deny") /\ UNCHANGED said ELSE Refuses(s)
    /\ UNCHANGED <<config, world, todo, dir, errs, faults>>

\* A policy that exists already is as good as one that is created.
EnsureDefaultDenyPolicy(s) ==
    /\ pc[s] = "deny"
    /\ \/ Works /\ deny' = deny \cup {input[s].namespace} /\ Goto(s, "files") /\ UNCHANGED said
       \/ Fails /\ deny' \in {deny, deny \cup {input[s].namespace}} /\ Refuses(s)
    /\ UNCHANGED <<config, objs, ending, todo, dir, errs>>

\* The egress configurations are read before anything is created.
ReadEgressFiles(s) ==
    /\ pc[s] = "files"
    /\ \/ Works /\ Goto(s, "create") /\ todo' = [todo EXCEPT ![s] = CreateOrder] /\ UNCHANGED said
       \/ Fails /\ Refuses(s) /\ UNCHANGED todo
    /\ UNCHANGED <<config, world, dir, errs>>

\* The API server admits an object that is well formed.
Admitted(s, name) == name = "proxy-svc" => ServiceAdmitted(ProxyService(input[s]))
CreateObject(s, name) == objs' = [objs EXCEPT ![s] = @ \cup {name}]

\* The rollback has Spawn's context: if that has ended, its first request fails.
RollBack(s) ==
    \/ Goto(s, "list") /\ UNCHANGED errs
    \/ Goto(s, "done") /\ errs' = [errs EXCEPT ![s] = TRUE]

\* ApplySpawn: one object after the other, the Secret first, the runner last.
ApplySpawn(s) ==
    /\ pc[s] = "create" /\ todo[s] # <<>>
    /\ LET name == Head(todo[s]) IN
       \/ /\ Works /\ Admitted(s, name) /\ CreateObject(s, name)
          /\ todo' = [todo EXCEPT ![s] = Tail(@)] /\ UNCHANGED <<pc, errs>>
       \/ /\ \/ Works /\ ~Admitted(s, name) /\ UNCHANGED objs
             \/ Fails /\ (CreateObject(s, name) \/ UNCHANGED objs)
          /\ todo' = [todo EXCEPT ![s] = <<>>] /\ RollBack(s)
    /\ UNCHANGED <<config, ending, deny, dir, said>>

\* The Secret is read back for its UID before anything refers to it.
GetSecretFails(s) ==
    /\ pc[s] = "create" /\ todo[s] = Tail(CreateOrder) /\ Fails
    /\ todo' = [todo EXCEPT ![s] = <<>>] /\ RollBack(s)
    /\ UNCHANGED <<config, world, dir, said>>

Started(s) ==
    /\ pc[s] = "create" /\ todo[s] = <<>>
    /\ Goto(s, "started") /\ Says(s, "started")
    /\ UNCHANGED <<config, world, todo, dir, errs, faults>>

-----------------------------------------------------------------------------
(* DeleteSpawnScoped: list, delete what was listed, wait until it is gone.  *)

\* Pods, services, policies, secrets: what is listed of each kind, by name.
Listing(s) ==
    LET listed(name) == IF name \in objs[s] THEN <<name>> ELSE <<>> IN
    listed("proxy") \o listed("runner") \o listed("proxy-svc")
        \o listed("proxy-egress") \o listed("proxy-ingress") \o listed("runner-egress") \o listed("secret")

\* An object that is not exactly the spawn's stops the deletion before it starts.
AllOwn(s) == \A name \in objs[s] : IsSpawnResource(SpawnObject(name, input[s]).meta, input[s])

ListSpawnResources(s) ==
    /\ pc[s] = "list"
    /\ \/ /\ Works /\ AllOwn(s) /\ Goto(s, "delete") /\ UNCHANGED errs
          /\ todo' = [todo EXCEPT ![s] = Listing(s)]
       \/ /\ Fails \/ (Works /\ ~AllOwn(s))
          /\ Goto(s, "done") /\ errs' = [errs EXCEPT ![s] = TRUE] /\ UNCHANGED todo
    /\ UNCHANGED <<config, world, dir, said>>

\* Mutant: what is gone already is marked for deletion again.
DeletesBlindly(s, name) ==
    IF name \in {"proxy", "runner", "secret"}
    THEN ending' = [ending EXCEPT ![s] = @ \cup {name}] /\ UNCHANGED objs
    ELSE objs' = [objs EXCEPT ![s] = @ \ {name}] /\ UNCHANGED ending
\* What is gone already is deleted; pods and the Secret are only on their way.
Deletes(s, name) ==
    IF name \in {"proxy", "runner", "secret"}
    THEN /\ ending' = [ending EXCEPT ![s] = @ \cup ({name} \cap objs[s])] /\ UNCHANGED objs
    ELSE objs' = [objs EXCEPT ![s] = @ \ {name}] /\ UNCHANGED ending

DeleteSpawnResource(s) ==
    /\ pc[s] = "delete" /\ todo[s] # <<>>
    /\ LET name == Head(todo[s]) IN
       \/ /\ Works /\ Deletes(s, name)
          /\ todo' = [todo EXCEPT ![s] = Tail(@)] /\ UNCHANGED <<pc, errs>>
       \/ /\ Fails /\ (Deletes(s, name) \/ UNCHANGED <<objs, ending>>)
          /\ todo' = [todo EXCEPT ![s] = <<>>]
          /\ Goto(s, "done") /\ errs' = [errs EXCEPT ![s] = TRUE]
    /\ UNCHANGED <<config, deny, dir, said>>

\* Mutant: a deletion that was accepted is taken for done.
ConfirmAccepted(s) ==
    /\ pc[s] = "delete" /\ todo[s] = <<>> /\ Goto(s, "done")
    /\ UNCHANGED <<config, world, todo, dir, errs, said, faults>>

\* waitForSpawnDeleted: listed until nothing is there; the caller's context may
\* end first.
ConfirmDeleted(s) ==
    /\ pc[s] = "delete" /\ todo[s] = <<>> /\ Goto(s, "done")
    /\ \/ Works /\ objs[s] = {} /\ UNCHANGED errs
       \/ (Fails \/ (Works /\ objs[s] # {})) /\ errs' = [errs EXCEPT ![s] = TRUE]
    /\ UNCHANGED <<config, world, todo, dir, said>>

\* The cluster: a pod's containers are gone; the Secret goes after what it owns.
Vanish(s, name) ==
    /\ name \in ending[s] /\ (name = "secret" => objs[s] = {name})
    /\ objs' = [objs EXCEPT ![s] = @ \ {name}]
    /\ ending' = [ending EXCEPT ![s] = @ \ {name}]
    /\ UNCHANGED <<config, pc, todo, deny, dir, errs, said, faults>>

-----------------------------------------------------------------------------
(* The answers, and Teardown.                                              *)

\* An unproven rollback makes Spawn answer with the handle.
RolledBack(s) ==
    /\ pc[s] = "done" /\ said[s] = "nothing"
    /\ IF errs[s] THEN Says(s, "partial") /\ Goto(s, "call") ELSE Refuses(s)
    /\ errs' = [errs EXCEPT ![s] = FALSE]
    /\ UNCHANGED <<config, world, todo, dir, faults>>

\* WaitForExit is over, for whatever reason.
WaitEnds(s) ==
    /\ pc[s] = "started" /\ Goto(s, "call")
    /\ UNCHANGED <<config, world, todo, dir, errs, said, faults>>

BeginTeardown(s) ==
    /\ pc[s] = "call" /\ Goto(s, "list")
    /\ UNCHANGED <<config, world, todo, dir, errs, said, faults>>

\* Mutant: the errors of one attempt are joined to those of the next.
TornDownKeepsErrors(s) ==
    /\ pc[s] = "done" /\ said[s] # "nothing"
    /\ Works /\ dir' = [dir EXCEPT ![s] = FALSE]
    /\ IF errs[s] THEN Says(s, "failed") /\ Goto(s, "call")
                  ELSE Says(s, "removed") /\ Goto(s, "settled")
    /\ UNCHANGED <<config, world, todo, errs>>

\* The directory is removed whether or not the deletion succeeded; the errors
\* are joined, and the worker retries until there is none.
TornDown(s) ==
    /\ pc[s] = "done" /\ said[s] # "nothing"
    /\ \/ /\ Works /\ dir' = [dir EXCEPT ![s] = FALSE]
          /\ IF errs[s] THEN Says(s, "failed") /\ Goto(s, "call")
                        ELSE Says(s, "removed") /\ Goto(s, "settled")
       \/ Fails /\ UNCHANGED dir /\ Says(s, "failed") /\ Goto(s, "call")
    /\ errs' = [errs EXCEPT ![s] = FALSE]
    /\ UNCHANGED <<config, world, todo>>

\* The wait between two attempts is interrupted by the forced shutdown; the
\* spawn stays recorded as debt.
GiveUp(s) ==
    /\ pc[s] = "call" /\ said[s] = "failed" /\ Goto(s, "settled")
    /\ UNCHANGED <<config, world, todo, dir, errs, said, faults>>

Settled == (\A s \in Spawns : pc[s] = "settled") /\ UNCHANGED vars

-----------------------------------------------------------------------------
Init ==
    /\ scope \in {c \in Scopes : Backend(c) = "kube" /\ Starts(c)}
    /\ runner \in {r \in [Spawns -> UNION {RunnerYML(scope, s) : s \in Spawns}] :
                      \A s \in Spawns : r[s] \in RunnerYML(scope, s)}
    /\ input = [s \in Spawns |-> SpawnInput(scope, s, runner[s])]
    /\ pc = [s \in Spawns |-> "idle"]
    /\ objs = [s \in Spawns |-> {}] /\ ending = [s \in Spawns |-> {}]
    /\ todo = [s \in Spawns |-> <<>>]
    /\ deny = {} /\ dir = [s \in Spawns |-> FALSE] /\ errs = [s \in Spawns |-> FALSE]
    /\ said = [s \in Spawns |-> "nothing"] /\ faults = MaxFaults

Worker(s) ==
    \/ Prepare(s) \/ Admit(s) \/ EnsureDefaultDenyPolicy(s) \/ ReadEgressFiles(s)
    \/ ApplySpawn(s) \/ GetSecretFails(s) \/ Started(s) \/ RolledBack(s)
    \/ WaitEnds(s) \/ BeginTeardown(s)
    \/ ListSpawnResources(s) \/ DeleteSpawnResource(s) \/ ConfirmDeleted(s)
    \/ TornDown(s)

Next ==
    \/ \E s \in Spawns :
          Worker(s) \/ GiveUp(s) \/ \E name \in Names : Vanish(s, name)
    \/ Settled

Spec == Init /\ [][Next]_vars

\* The worker runs, and deletions that were accepted take effect; as only so
\* many requests fail, the API recovers in the end.
FairSpec ==
    /\ Spec
    /\ \A s \in Spawns :
          WF_vars(Worker(s)) /\ \A name \in Names : WF_vars(Vanish(s, name))

-----------------------------------------------------------------------------
\* The variables have their types.
KubeTypeOK ==
    /\ objs \in [Spawns -> SUBSET Names] /\ \A s \in Spawns : ending[s] \subseteq objs[s]
    /\ pc \in [Spawns -> {"idle", "admit", "deny", "files", "create", "started", "call",
                          "list", "delete", "done", "settled"}]
    /\ \A s \in Spawns : ToSet(todo[s]) \subseteq Names
    /\ deny \subseteq {input[s].namespace : s \in Spawns}
    /\ dir \in [Spawns -> BOOLEAN] /\ errs \in [Spawns -> BOOLEAN] /\ faults \in 0..MaxFaults
    /\ said \in [Spawns -> {"nothing", "started", "partial", "rolledBack", "removed", "failed"}]

\* The contract of the backends, for every spawn: across lost answers, partial
\* creation, failed rollbacks and deletions that take effect late, "rolled
\* back" and "removed" are said only when nothing of the spawn is left.
Calling(s) ==
    IF pc[s] \in {"idle", "started", "call", "settled"} THEN "none"
    ELSE IF said[s] = "nothing" THEN "spawn" ELSE "teardown"
Contract(s) == INSTANCE BackendContract WITH
    call <- Calling(s), left <- objs[s] # {}, said <- said[s]
KubeImplementsContract ==
    /\ \A s \in Spawns : Contract(s)!Init
    /\ [][\A s \in Spawns : [Contract(s)!Next]_(Contract(s)!vars)]_vars

Policies ==
    {DefaultDenyNetworkPolicy(ns) : ns \in deny} \cup
    UNION {{SpawnObject(n, input[s]) :
              n \in objs[s] \cap {"runner-egress", "proxy-egress", "proxy-ingress"}} : s \in Spawns}
Pod(s, name) == PodEndpoint(SpawnObject(name, input[s]))
PodsOf(s) == objs[s] \cap {"runner", "proxy"}

\* While a pod of a spawn exists, in creation, at work or half torn down, its
\* runner can open no connection past its own proxy but to cluster DNS, no pod
\* reaches a pod of another spawn, and nothing reaches a runner: not when the
\* policies are not there yet, not when they are deleted before the pod is gone,
\* whichever namespaces spawns share and whatever private ranges are approved.
SpawnsConfined ==
    LET policies == Policies IN
    /\ \A s \in Spawns : "runner" \in objs[s] =>
          \A range \in Addresses \ {"pods"}, port \in AllPorts :
              Sends(policies, Pod(s, "runner"), Outside(range), port) => range = "dns" /\ port \in Dns
    /\ \A s, t \in Spawns : \A m \in PodsOf(s), n \in PodsOf(t) :
          (s # t \/ n = "runner") =>
              \A port \in AllPorts : ~Connects(policies, Pod(s, m), Pod(t, n), port)

\* From the moment Spawn succeeds the runner reaches every port of its proxy's
\* Service, and the layers that know of private addresses agree: Squid, HAProxy
\* and the proxy's network policy let through the same ranges, and dnsmasq
\* forwards no name Squid does not serve.  Each is written by a builder of its
\* own.  Two kinds of entries are excepted, which validation accepts and one
\* builder drops: a domain listed with its dot, which Squid gets with two, and an
\* odd host, whose port is open and has no frontend.
ProxyServesRunner ==
    LET policies == Policies IN
    \A s \in Spawns : pc[s] = "started" =>
        LET in == input[s]
            r == runner[s]
            policy == ResolvedPolicy(scope, r)
            squid == RenderSquid(r, policy)
            reached == {range \in Addresses :
                          \A port \in AllPorts : Sends(policies, Pod(s, "proxy"), Outside(range), port)}
        IN
        /\ SelectorMatches(ProxyService(in).selector, Pod(s, "proxy"))
        /\ \A port \in ServicePorts(ProxyService(in)) :
              port \in ProxyPod(in).ports /\ Connects(policies, Pod(s, "runner"), Pod(s, "proxy"), port)
        /\ \A port \in Dns : Sends(policies, Pod(s, "proxy"), Outside("dns"), port)
        /\ {q.to : q \in {p \in Asks : Allows(squid, p)}} = reached
        /\ RenderHAProxy(r, policy) = [port \in in.tcp \ r.oddHosts |-> reached]
        /\ \A name \in RenderDNSMasq(r, policy) :
              [dots |-> 1, name |-> name] \in r.domains
              \/ \A sub \in BOOLEAN : Allows(squid, [to |-> "world", name |-> name, sub |-> sub, ssl |-> TRUE])

\* What one step lets pass, the next does not refuse: an approved runner
\* configuration is rendered and passes Spawn's checks, a Service with validated ports is
\* admitted by the API server, the deletion accepts what the builders made, and
\* until its deletion is asked for a pod finds the Secret and the keys it mounts.
NothingRefused ==
    \A s \in Spawns :
        /\ SharedKubernetes(scope) =>
              ValidateEgress(runner[s]) /\ Renders(scope, runner[s]) /\ InputValid(s)
        /\ pc[s] = "create" /\ todo[s] # <<>> => Admitted(s, Head(todo[s]))
        /\ AllOwn(s)
        /\ \A n \in PodsOf(s) \ ending[s] :
              "secret" \in objs[s] /\ SpawnObject(n, input[s]).keys \subseteq SpawnSecret(input[s]).keys

\* Once a scope declares any setting that only shared mode has, every spawn of
\* it runs on the operator's configuration, in a namespace no other project
\* and no controller has.
EnrolledApart ==
    (\E b \in Blocks(scope) : b.declared \/ b.runner # Unset \/ b.namespace # Unset) =>
        \A s, t \in Spawns :
            /\ runner[s] = Block(scope, s).runner /\ input[s].namespace # Namespace(scope.name)
            /\ Block(scope, s) # Block(scope, t) => /\ input[s].namespace # input[t].namespace
                                     /\ RepoLabel(Block(scope, s).repo) # RepoLabel(Block(scope, t).repo)

\* Every spawn is settled in the end, however often its cleanup fails and
\* however late its pods go.
KubeSpawnSettles == <>(\A s \in Spawns : pc[s] = "settled")

=============================================================================
