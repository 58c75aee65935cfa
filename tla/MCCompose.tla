----------------------------- MODULE MCCompose -----------------------------
(***************************************************************************)
(* The settings of the compose file, and ones that differ from them in one *)
(* respect each.                                                           *)
(***************************************************************************)
EXTENDS ComposeBackend

Image(name) == [name |-> name, digest |-> TRUE]
Orchestrator == [net |-> "egress", vol |-> "configs", seccomp |-> FALSE,
                 proxyImage |-> Image("proxy"), runnerImage |-> Image("node")]
Proxy == [net |-> "egress", vol |-> "configs", baked |-> {Image("proxy"), Image("node")}, extra |-> {}]

Pair(o, p) == [o |-> o, p |-> p]
MCSettings == {
    Pair(Orchestrator, Proxy),
    Pair([Orchestrator EXCEPT !.runnerImage = Image("own")], [Proxy EXCEPT !.extra = {Image("own")}]),
    Pair([Orchestrator EXCEPT !.net = ""], [Proxy EXCEPT !.net = ""]),
    Pair([Orchestrator EXCEPT !.net = ""], Proxy),
    Pair([Orchestrator EXCEPT !.seccomp = TRUE], Proxy),
    Pair([Orchestrator EXCEPT !.runnerImage = Image("own")], Proxy),
    Pair([Orchestrator EXCEPT !.vol = ""], [Proxy EXCEPT !.vol = ""]),
    Pair([Orchestrator EXCEPT !.proxyImage = [name |-> "proxy", digest |-> FALSE]],
         [Proxy EXCEPT !.extra = {[name |-> "proxy", digest |-> FALSE]}]) }

=============================================================================
