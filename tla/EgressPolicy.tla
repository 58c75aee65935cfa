---------------------------- MODULE EgressPolicy ----------------------------
(***************************************************************************)
(* What a runner may reach: the policy that profile and overrides give     *)
(* (security/profile.go, overrides.go, egressip.go) and what the three     *)
(* configurations rendered from it make of a connection (egress/*.go).     *)
(*                                                                         *)
(* Overrides are [keys, bad, wildcards, private]: the keys that are there, *)
(* those whose value is malformed, and the two values that have a reader.  *)
(* A domain, as listed, is [dots, name]; a wildcard is [star, name].       *)
(* A runner configuration lists domains and, as literal addresses,         *)
(* literals; tcp are the ports of its TCP egress and oddHosts those of     *)
(* them whose host begins with a dot or a hyphen.                          *)
(***************************************************************************)
EXTENDS KubeObjects, FiniteSetsExt, Functions

CONSTANT Domains   \* names of hosts; each has subdomains

-----------------------------------------------------------------------------
(* The policy.  DoH, IMDS, Kubernetes API and mesh settings have no reader. *)

OverrideKeys == {"allow_wildcards", "allow_doh", "allow_imds", "allow_kube_api", "allow_private_cidrs"}

Defaults(profile) ==
    [allowWildcards |-> profile \in {"standard", "permissive"},
     suffixMatch |-> profile \in {"standard", "permissive"},
     wildcards |-> {}, private |-> {}]

\* Keys that are not allowed are ignored, their values unread.
Malformed(allowed, o) == o.keys \cap o.bad \cap allowed # {}

\* A list replaces the list of the base.
ApplyProjectOverrides(base, allowed, o) ==
    LET keys == o.keys \cap allowed
        wildcards == "allow_wildcards" \in keys
    IN [base EXCEPT
          !.wildcards = IF wildcards THEN o.wildcards ELSE @,
          !.allowWildcards = @ \/ (wildcards /\ o.wildcards # {}),
          !.private = IF "allow_private_cidrs" \in keys THEN o.private ELSE @]

CheckEgressIPLiterals(literals, policy) == literals \cap Blocked \subseteq policy.private

-----------------------------------------------------------------------------
(* The configurations.  A rule of Squid is an access list, given by the     *)
(* CONNECT requests it matches, and whether they are allowed; the first     *)
(* rule that matches decides.                                              *)

Asks == [to : Addresses, name : Domains, sub : BOOLEAN, ssl : BOOLEAN]
Dst(ranges) == {q \in Asks : q.to \in ranges}
\* One leading dot stands for the domain and what is under it, none for the
\* domain alone; two match nothing.
DstDomain(entries) ==
    {q \in Asks : \E e \in entries : e.name = q.name /\ (e.dots = 1 \/ (e.dots = 0 /\ ~q.sub))}

GitHubCoreDomains == {[dots |-> 1, name |-> "github.com"]}
BuiltInEgressDomains == {[dots |-> 1, name |-> "npmjs.org"]}

\* A dot is put before every listed domain, whether or not it has one; a
\* wildcard loses its star and keeps its dot.
AllowedDomains(r, policy) ==
    {[dots |-> d.dots + 1, name |-> d.name] : d \in r.domains} \cup
    (IF policy.allowWildcards
     THEN {[dots |-> IF w.star THEN 1 ELSE 0, name |-> w.name] : w \in policy.wildcards} ELSE {})

RenderSquid(r, policy) ==
    <<[acl |-> {q \in Asks : ~q.ssl}, allow |-> FALSE],
      [acl |-> Dst(policy.private), allow |-> TRUE],
      [acl |-> Dst(Blocked), allow |-> FALSE],
      [acl |-> DstDomain(GitHubCoreDomains \cup BuiltInEgressDomains), allow |-> TRUE],
      [acl |-> DstDomain(AllowedDomains(r, policy)), allow |-> TRUE],
      [acl |-> Asks, allow |-> FALSE]>>

Allows(rules, q) == rules[Min({i \in DOMAIN rules : q \in rules[i].acl})].allow

\* One frontend per port; the ranges it passes connections on to.  An odd host,
\* which validation accepts, is left out without an error (isHostPortSafe).
RenderHAProxy(r, policy) ==
    [port \in Range(r.tcp) \ r.oddHosts |->
        {range \in Addresses : range \in Blocked => range \in policy.private}]

\* The domains that are forwarded, subdomains included; all others are unknown.
RenderDNSMasq(r, policy) ==
    {d.name : d \in r.domains} \cup
    (IF policy.suffixMatch THEN {w.name : w \in {v \in policy.wildcards : v.star}} ELSE {})

=============================================================================
