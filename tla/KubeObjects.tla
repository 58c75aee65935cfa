---------------------------- MODULE KubeObjects ----------------------------
(***************************************************************************)
(* The Kubernetes objects of one spawn (kube/objects.go), and what a       *)
(* cluster that enforces network policies makes of them.                   *)
(*                                                                         *)
(* A spawn input is a record: its id and repository, the namespace it runs *)
(* in, dnsmasq (EnableDNSMasq), tcp (the set of TCPEgressPorts), private   *)
(* (the private ranges AllowedPrivateCIDRs covers) and files (the egress   *)
(* configurations that were rendered).  Of a pod there is its identity,    *)
(* the Secret keys it mounts and the ports it serves: hardening, resource  *)
(* bounds, environment and placement do not bear on what is checked here.  *)
(***************************************************************************)
EXTENDS Naturals, FiniteSets, Sequences

CONSTANTS
    Ports,   \* the port numbers traffic may use; 53 and 3128 among them
    Ranges   \* address ranges that are blocked unless an operator approves them

proxyPort == 3128
dnsPort == 53
Tcp(ports) == {<<"tcp", p>> : p \in ports}
Dns == {<<"tcp", dnsPort>>, <<"udp", dnsPort>>}
AllPorts == {"tcp", "udp"} \X Ports

-----------------------------------------------------------------------------
(* Identity: labels, the Secret as owner, and what each name must be.      *)

\* A repository is its owner and name, each cut into words at "_", and whether
\* the two joined by "_" are a label value; a hash of the identity if not.
RepoLabel(repo) == IF repo.plain THEN repo.owner \o repo.name ELSE <<repo>>

Labels(in, role) == [repo |-> RepoLabel(in.repo), spawn |-> in.id, role |-> role]

\* The objects of a spawn, by the middle part of their names.
Names == {"secret", "proxy-svc", "runner-egress", "proxy-egress", "proxy-ingress", "proxy", "runner"}

\* Every name belongs to one kind and carries one role; anything else that has
\* the spawn's labels is not RunSecure's.
expectedSpawnResourceRole(kind, name) ==
    CASE kind = "pod" /\ name = "runner" -> "runner"
      [] kind = "pod" /\ name = "proxy" -> "proxy"
      [] kind = "service" /\ name = "proxy-svc" -> "proxy"
      [] kind = "networkpolicy" /\ name = "runner-egress" -> "runner"
      [] kind = "networkpolicy" /\ name \in {"proxy-egress", "proxy-ingress"} -> "proxy"
      [] kind = "secret" /\ name = "secret" -> "proxy"
      [] OTHER -> "none"

\* appendSpawnResource: the checks before an object counts as the spawn's.
IsSpawnResource(o, in) ==
    /\ o.labels.role = expectedSpawnResourceRole(o.kind, o.name)
    /\ o.labels.repo = RepoLabel(in.repo)
    /\ o.owner \in {"secret", "none"}

Object(kind, name, in, role, owner) ==
    [kind |-> kind, name |-> name, ns |-> in.namespace, labels |-> Labels(in, role), owner |-> owner]

-----------------------------------------------------------------------------
(* The objects.                                                            *)

\* The JIT configuration, and every egress configuration that is not empty.
SpawnSecret(in) ==
    [meta |-> Object("secret", "secret", in, "proxy", "none"),
     keys |-> {"jit-config"} \cup in.files]

ProxyPod(in) ==
    [meta |-> Object("pod", "proxy", in, "proxy", "secret"),
     keys |-> {"squid.conf", "haproxy.cfg"} \cup (IF in.dnsmasq THEN {"dnsmasq.conf"} ELSE {}),
     ports |-> Tcp({proxyPort} \cup in.tcp) \cup (IF in.dnsmasq THEN Dns ELSE {})]

RunnerPod(in) ==
    [meta |-> Object("pod", "runner", in, "runner", "secret"),
     keys |-> {"jit-config"},
     ports |-> {}]

\* The Service lists its ports one by one: the API server admits no protocol
\* and port twice.  Ports of tcp_egress are listed once each.
ProxyService(in) ==
    [meta |-> Object("service", "proxy-svc", in, "proxy", "secret"),
     selector |-> [role |-> "proxy", spawn |-> in.id],
     listed |-> [squid |-> Tcp({proxyPort}), dns |-> IF in.dnsmasq THEN Dns ELSE {}, tcp |-> Tcp(in.tcp)]]
ServicePorts(svc) == svc.listed.squid \cup svc.listed.dns \cup svc.listed.tcp
ServiceAdmitted(svc) ==
    Cardinality(ServicePorts(svc)) =
        Cardinality(svc.listed.squid) + Cardinality(svc.listed.dns) + Cardinality(svc.listed.tcp)

Everyone == [role |-> "any", spawn |-> "any"]

\* An endpoint of traffic is a pod, or one outside the namespaces: cluster DNS,
\* the Internet, a private address.  Pods have addresses of the range "pods".
Blocked == Ranges \cup {"pods", "dns"}
Addresses == Blocked \cup {"world"}
\* Mutant: the peer is not pinned to the spawn.
PodPeerOfRole(role, in) == [pods |-> [role |-> role, spawn |-> "any"], block |-> {}]
PodPeer(role, in) == [pods |-> [role |-> role, spawn |-> in.id], block |-> {}]
BlockPeer(ranges) == [pods |-> [role |-> "none", spawn |-> "none"], block |-> ranges]
clusterDNSPeers == {BlockPeer({"dns"})}

Policy(name, in, role, selects, types, egress, ingress) ==
    [meta |-> Object("networkpolicy", name, in, role, "secret"),
     selects |-> selects, types |-> types, egress |-> egress, ingress |-> ingress]

DefaultDenyNetworkPolicy(ns) ==
    [meta |-> [kind |-> "networkpolicy", name |-> "default-deny-all", ns |-> ns, owner |-> "none"],
     selects |-> Everyone, types |-> {"Egress", "Ingress"}, egress |-> {}, ingress |-> {}]

RunnerEgressNetworkPolicy(in) ==
    Policy("runner-egress", in, "runner", [role |-> "runner", spawn |-> in.id], {"Egress"},
        {[peers |-> {PodPeer("proxy", in)},
          ports |-> Tcp({proxyPort} \cup in.tcp) \cup (IF in.dnsmasq THEN Dns ELSE {})],
         [peers |-> clusterDNSPeers, ports |-> Dns]},
        {})

ProxyEgressNetworkPolicy(in) ==
    Policy("proxy-egress", in, "proxy", [role |-> "proxy", spawn |-> in.id], {"Egress"},
        {[peers |-> clusterDNSPeers, ports |-> Dns],
         [peers |-> {BlockPeer(Addresses \ Blocked)}, ports |-> AllPorts],
         [peers |-> {BlockPeer(in.private)}, ports |-> AllPorts]},
        {})

\* Mutant: the ports of tcp_egress are not mirrored.
ProxyIngressWithoutTcp(in) ==
    Policy("proxy-ingress", in, "proxy", [role |-> "proxy", spawn |-> in.id], {"Ingress"}, {},
        {[peers |-> {PodPeer("runner", in)},
          ports |-> Tcp({proxyPort}) \cup (IF in.dnsmasq THEN Dns ELSE {})]})
\* Its ports mirror the Service's and the runner's egress.
ProxyIngressNetworkPolicy(in) ==
    Policy("proxy-ingress", in, "proxy", [role |-> "proxy", spawn |-> in.id], {"Ingress"}, {},
        {[peers |-> {PodPeer("runner", in)},
          ports |-> Tcp({proxyPort} \cup in.tcp) \cup (IF in.dnsmasq THEN Dns ELSE {})]})

SpawnObject(name, in) ==
    CASE name = "secret" -> SpawnSecret(in)
      [] name = "proxy-svc" -> ProxyService(in)
      [] name = "runner-egress" -> RunnerEgressNetworkPolicy(in)
      [] name = "proxy-egress" -> ProxyEgressNetworkPolicy(in)
      [] name = "proxy-ingress" -> ProxyIngressNetworkPolicy(in)
      [] name = "proxy" -> ProxyPod(in)
      [] name = "runner" -> RunnerPod(in)

-----------------------------------------------------------------------------
(* Enforcement by the cluster's network plugin: a pod no policy selects is  *)
(* open, one that is selected may do what some policy allows.              *)

PodEndpoint(pod) == [pod |-> TRUE, range |-> "pods", ns |-> pod.meta.ns,
                     role |-> pod.meta.labels.role, spawn |-> pod.meta.labels.spawn]
Outside(range) == [pod |-> FALSE, range |-> range, ns |-> <<>>, role |-> "none", spawn |-> "none"]

SelectorMatches(sel, e) ==
    e.pod /\ sel.role \in {"any", e.role} /\ sel.spawn \in {"any", e.spawn}
Selecting(policies, e, type) ==
    {p \in policies : p.meta.ns = e.ns /\ type \in p.types /\ SelectorMatches(p.selects, e)}
\* A pod selector without a namespace selector means the policy's namespace.
RuleAllows(policy, rule, peer, port) ==
    /\ port \in rule.ports
    /\ \E q \in rule.peers :
          \/ peer.ns = policy.meta.ns /\ SelectorMatches(q.pods, peer)
          \/ peer.range \in q.block

Sends(policies, from, to, port) ==
    LET sel == Selecting(policies, from, "Egress") IN
    ~from.pod \/ sel = {} \/ \E p \in sel : \E r \in p.egress : RuleAllows(p, r, to, port)
Receives(policies, from, to, port) ==
    LET sel == Selecting(policies, to, "Ingress") IN
    ~to.pod \/ sel = {} \/ \E p \in sel : \E r \in p.ingress : RuleAllows(p, r, from, port)
Connects(policies, from, to, port) ==
    Sends(policies, from, to, port) /\ Receives(policies, from, to, port)

=============================================================================
