------------------------------- MODULE MCKube -------------------------------
(***************************************************************************)
(* Two spawns of two repositories at the Kubernetes backend, with scopes   *)
(* that the process starts with and scopes that some validator refuses.    *)
(***************************************************************************)
EXTENDS KubeBackend

MCDomains == {"github.com", "npmjs.org", "db.net", "cdn.net"}
MCPorts == {53, 3128, 5432}
MCDNSLabels == {<<"team", "a">>, <<"team", "b">>, <<"default">>, <<"runsecure", "prod">>}
MCLabelValues == {<<"prod">>}
MCScopeLabels == {<<"prod">>, <<"-prod">>}
MCCapitals == [X |-> "x"]
MCBlockOf == [s1 |-> 1, s2 |-> 2]

Repo(owner, name) == [owner |-> owner, name |-> name, plain |-> TRUE]
RepoX == Repo(<<"o">>, <<"x", "y">>)
RepoLongName == [owner |-> <<"o">>, name |-> <<"long">>, plain |-> FALSE]
RepoSameLabel == Repo(<<"o", "x">>, <<"y">>)
RepoCapital == Repo(<<"o">>, <<"X", "y">>)

NoOverrides == [keys |-> {}, bad |-> {}, wildcards |-> {}, private |-> {}]
Approves(ranges) == [NoOverrides EXCEPT !.keys = {"allow_private_cidrs"}, !.private = ranges]
Wildcards == {[star |-> TRUE, name |-> "cdn.net"], [star |-> FALSE, name |-> "db.net"]}

Yml(tcp, dnsmasq, memory) ==
    [tcp |-> tcp, oddHosts |-> {}, domains |-> {[dots |-> 0, name |-> "db.net"], [dots |-> 1, name |-> "cdn.net"]},
     literals |-> {}, dnsmasq |-> dnsmasq, memory |-> memory, cpus |-> 1,
     labels |-> {"arm64"}, selector |-> Unset, overrides |-> NoOverrides]
WithDnsmasq ==
    [Yml(<<5432>>, TRUE, 1) EXCEPT
        !.domains = {[dots |-> 0, name |-> "db.net"]},
        !.overrides = [NoOverrides EXCEPT !.keys = {"allow_wildcards"}, !.wildcards = Wildcards]]
WithTcpDns == [Yml(<<53, 5432>>, FALSE, 1) EXCEPT !.oddHosts = {5432}, !.literals = {"lan", "world"}]
WithProxyPort == Yml(<<3128>>, TRUE, 1)
WithoutMemory == Yml(<<>>, FALSE, 0)
\* A value of the wrong type, and an approval that is not the project's to give.
WithBadKey ==
    [Yml(<<>>, FALSE, 1) EXCEPT
        !.overrides = [NoOverrides EXCEPT !.keys = {"allow_wildcards"}, !.bad = {"allow_wildcards"}]]
WithOwnLan == [WithTcpDns EXCEPT !.overrides = Approves({"lan"})]
MCRunnerYmls == {WithDnsmasq, WithProxyPort, WithoutMemory, WithBadKey, WithOwnLan}

Plain(repo) == [repo |-> repo, namespace |-> Unset, declared |-> FALSE, runner |-> Unset, max |-> 1]
Shared(repo, ns, yml) ==
    [repo |-> repo, namespace |-> ns, declared |-> TRUE, runner |-> yml, max |-> 1]
Scope(name, private, first, second) ==
    [name |-> name, backend |-> "kube", secretMode |-> "0440", complete |-> TRUE,
     profile |-> "standard", overrides |-> Approves(private), allowed |-> {"allow_wildcards"},
     repos |-> <<first, second>>]

TeamA == Shared(RepoX, <<"team", "a">>, WithDnsmasq)
MCScopes == {
    Scope(<<"prod">>, {"pods"}, Plain(RepoX), Plain(RepoLongName)),
    Scope(<<"prod">>, {"lan"}, TeamA, Shared(RepoLongName, <<"team", "b">>, WithTcpDns)),
    \* Refused: a name that is no label value, colliding labels, repositories
    \* and namespaces, and settings without enrollment, out of bounds or not permitted.
    Scope(<<"-prod">>, {"lan"}, TeamA, Shared(RepoLongName, <<"team", "b">>, WithTcpDns)),
    Scope(<<"prod">>, {"lan"}, TeamA, Shared(RepoSameLabel, <<"team", "b">>, WithTcpDns)),
    Scope(<<"prod">>, {"lan"}, TeamA, Shared(RepoCapital, <<"team", "b">>, WithTcpDns)),
    Scope(<<"prod">>, {"lan"}, TeamA, Shared(RepoLongName, <<"team", "a">>, WithTcpDns)),
    Scope(<<"prod">>, {"lan"}, TeamA, Shared(RepoLongName, <<"default">>, WithTcpDns)),
    Scope(<<"prod">>, {"lan"}, TeamA, Shared(RepoLongName, <<"runsecure", "prod">>, WithTcpDns)),
    Scope(<<"prod">>, {"lan"}, TeamA, Plain(RepoLongName)),
    Scope(<<"prod">>, {"lan"}, Shared(RepoX, Unset, WithDnsmasq), Plain(RepoLongName)),
    Scope(<<"prod">>, {"lan"}, TeamA, Shared(RepoLongName, <<"team", "b">>, WithoutMemory)),
    Scope(<<"prod">>, {}, TeamA, Shared(RepoLongName, <<"team", "b">>, WithOwnLan)),
    Scope(<<"prod">>, {"lan"}, TeamA, Shared(RepoLongName, <<"team", "b">>, WithBadKey)) }

=============================================================================
