---------------------------- MODULE ScopeConfig ----------------------------
(***************************************************************************)
(* Which scopes the process starts with (config/scope.go,                  *)
(* config/scope_validate.go), which runner configurations it spawns from   *)
(* (runneryml.go) and which projects the Kubernetes backend enrolls        *)
(* (NewForProjects).  A scope is read from a file and checked by several   *)
(* validators that do not know of each other.                              *)
(*                                                                         *)
(* A scope is [name, backend, secretMode, complete, profile, overrides,    *)
(* allowed, repos]; a repository block is [repo, namespace, declared,      *)
(* runner, max]; a runner configuration is [tcp, oddHosts, domains,        *)
(* literals, dnsmasq, memory, cpus, labels, selector, overrides].          *)
(* Namespaces and names are sequences of words, cut at "-" and "_"; what   *)
(* is valid as a DNS label or as a label value is a set of them.           *)
(***************************************************************************)
EXTENDS EgressPolicy, SequencesExt

CONSTANTS
    DNSLabels,     \* namespaces that are DNS labels
    LabelValues,   \* scope names that are label values
    ScopeLabels,   \* scope names whose "runsecure-<name>" is a DNS label
    Capitals       \* words with capital letters, mapped to lower case

Unset == <<>>
Blocks(s) == ToSet(s.repos)
Namespace(scope) == <<"runsecure">> \o scope
Lower(words) == [i \in DOMAIN words |-> IF words[i] \in DOMAIN Capitals THEN Capitals[words[i]] ELSE words[i]]

-----------------------------------------------------------------------------
(* runner.yml                                                              *)

\* Mutant: the proxy's own ports are not reserved.
ValidateEgressDuplicates(r) ==
    /\ IsInjective(r.tcp)
    /\ ToSet(r.tcp) \cap {80, 443} = {}
\* Ports the proxy or HTTP egress listens on are reserved; no port twice.
ValidateEgress(r) ==
    /\ IsInjective(r.tcp)
    /\ ToSet(r.tcp) \cap {80, 443, proxyPort} = {}
    /\ r.dnsmasq => dnsPort \notin ToSet(r.tcp)

Arches(labels) == {IF l = "arm64" THEN "arm64" ELSE "amd64" : l \in labels \cap {"arm64", "x64"}}
Arch(labels) == IF "arm64" \in labels THEN "arm64" ELSE "amd64"

\* Placement follows the architecture the labels promise.
validatePodSettings(r) == r.selector \in {Unset, Arch(r.labels)}

\* Left out: the runtime, the format and number of labels, the upper bounds of
\* resources and timeout, seccomp and the image's digest.
validateApprovedRunner(r) ==
    /\ r # Unset
    /\ r.memory > 0 /\ r.cpus > 0
    /\ r.labels # {} /\ r.labels \cap {"arm", "x86", "windows", "macos"} = {}
    /\ Cardinality(Arches(r.labels)) <= 1
    /\ ValidateEgress(r)
    /\ validatePodSettings(r)

-----------------------------------------------------------------------------
(* The scope                                                               *)

\* Mutant: only a namespace makes a scope shared.
SharedByNamespace(s) == \E b \in Blocks(s) : b.namespace # Unset
\* Any setting that only shared mode has makes the scope shared.
SharedKubernetes(s) ==
    \E b \in Blocks(s) : b.namespace # Unset \/ b.declared \/ b.runner # Unset

ProjectNamespaces(s) == {[repo |-> b.repo, ns |-> b.namespace] : b \in Blocks(s)}

NamespaceAllowed(s, ns) ==
    ns \in DNSLabels /\ ns # <<"default">> /\ Head(ns) # "kube" /\ ns # Namespace(s.name)

buildBasePolicy(s) == ApplyProjectOverrides(Defaults(s.profile), OverrideKeys, s.overrides)
\* egressShim: what is rendered for a spawn, and what makes it fail.
ResolvedPolicy(s, r) == ApplyProjectOverrides(buildBasePolicy(s), s.allowed, r.overrides)
Renders(s, r) ==
    /\ ~Malformed(s.allowed, r.overrides)
    /\ CheckEgressIPLiterals(r.literals, ResolvedPolicy(s, r))

\* Repository names are compared without regard to case.
Identity(b) == [owner |-> Lower(b.repo.owner), name |-> Lower(b.repo.name)]
validateProjects(s) ==
    SharedKubernetes(s) =>
        /\ s.backend = "kube"
        /\ s.name \in ScopeLabels
        /\ ~Malformed(s.overrides.keys, s.overrides)
        /\ IsInjective([i \in DOMAIN s.repos |-> Identity(s.repos[i])])
        /\ IsInjective([i \in DOMAIN s.repos |-> s.repos[i].namespace])
        /\ \A b \in Blocks(s) : /\ NamespaceAllowed(s, b.namespace) /\ validateApprovedRunner(b.runner)
                                /\ Renders(s, b.runner)

\* An empty backend is compose; a secret file must have the backend's mode.
\* Complete: polling interval, credentials, the API's domain, the scope's cap
\* and, with compose, the projects' directories are given and in bounds.
Backend(s) == IF s.backend = "" THEN "compose" ELSE s.backend
Validate(s) ==
    /\ Backend(s) \in {"compose", "kube"}
    /\ s.name # Unset
    /\ s.secretMode = IF Backend(s) = "kube" THEN "0440" ELSE "0400"
    /\ s.complete
    /\ s.profile \in {"strict", "standard", "permissive", "custom"}
    /\ s.profile = "custom" => s.overrides.keys # {}
    /\ s.repos # <<>>
    /\ validateProjects(s)
    /\ \A b \in Blocks(s) : b.max > 0

\* The backend checks the enrollment once more, with rules of its own.
NewForProjects(scope, projects) ==
    /\ scope \in LabelValues /\ projects # {}
    /\ \A p, q \in projects : p # q => RepoLabel(p.repo) # RepoLabel(q.repo) /\ p.ns # q.ns
    /\ \A p \in projects : NamespaceAllowed([name |-> scope], p.ns)

\* Startup: Load, Validate, then the backend's constructor and the base policy.
Starts(s) ==
    /\ Validate(s) /\ ~Malformed(OverrideKeys, s.overrides)
    /\ Backend(s) = "kube" /\ SharedKubernetes(s) => NewForProjects(s.name, ProjectNamespaces(s))

-----------------------------------------------------------------------------
(* Routing of a spawn to its namespace.                                    *)

route(s, repo) ==
    IF SharedKubernetes(s)
    THEN (CHOOSE p \in ProjectNamespaces(s) : p.repo = repo).ns
    ELSE Namespace(s.name)

=============================================================================
